------------------------- MODULE USDYManagerProofs -------------------------
(***************************************************************************)
(* The manager implements its three parts: what one part does is a step or *)
(* a stutter of every other one, so each keeps, in the composed contract,  *)
(* everything that is proved of it alone.                                  *)
(***************************************************************************)
EXTENDS USDYManager, SubscriptionsProofs, RedemptionsProofs

(* What each kind of step leaves alone. *)

LEMMA SubscriptionStepFrame ==
  ASSUME SubscriptionStep
  PROVE  RequestStep /\ UNCHANGED <<environment, config, redemptionHalf>>
<1>1. PICK user \in Users, amount \in DepositInputs :
        \/ ManagerRequestSubscription(user, amount)
        \/ \E caller \in Accounts, id \in OffChainIds :
             ManagerRequestSubscriptionServicedOffchain(caller, user, amount, id)
  BY DEF SubscriptionStep
<1>2. CASE ManagerRequestSubscription(user, amount)
  <2>1. RequestSubscription(user, amount) /\ UNCHANGED redemptionHalf
    BY <1>2 DEF ManagerRequestSubscription
  <2>2. UNCHANGED <<environment, config>>
    BY <2>1 DEF RequestSubscription
  <2> QED BY <2>1, <2>2 DEF RequestStep
<1>3. ASSUME NEW caller \in Accounts, NEW id \in OffChainIds,
             ManagerRequestSubscriptionServicedOffchain(caller, user, amount, id)
      PROVE  RequestStep /\ UNCHANGED <<environment, config, redemptionHalf>>
  <2>1. /\ RequestSubscriptionServicedOffchain(caller, user, amount, id)
        /\ UNCHANGED redemptionHalf
    BY <1>3 DEF ManagerRequestSubscriptionServicedOffchain
  <2>2. UNCHANGED <<environment, config>>
    BY <2>1 DEF RequestSubscriptionServicedOffchain
  <2> QED BY <2>1, <2>2 DEF RequestStep
<1> QED
  BY <1>1, <1>2, <1>3

LEMMA RedemptionStepFrame ==
  ASSUME RedemptionStep
  PROVE  RedemptionRequestStep /\ UNCHANGED <<environment, config, depositHalf>>
<1>1. PICK user \in Users, amount \in RedemptionInputs :
        \/ ManagerRequestRedemption(user, amount)
        \/ ManagerRequestRedemptionServicedOffchain(user, amount)
  BY DEF RedemptionStep
<1>2. CASE ManagerRequestRedemption(user, amount)
  <2>1. RequestRedemption(user, amount) /\ UNCHANGED depositHalf
    BY <1>2 DEF ManagerRequestRedemption
  <2>2. UNCHANGED <<environment, config>>
    BY <2>1 DEF RequestRedemption
  <2> QED BY <2>1, <2>2 DEF RedemptionRequestStep
<1>3. CASE ManagerRequestRedemptionServicedOffchain(user, amount)
  <2>1. RequestRedemptionServicedOffchain(user, amount) /\ UNCHANGED depositHalf
    BY <1>3 DEF ManagerRequestRedemptionServicedOffchain
  <2>2. UNCHANGED <<environment, config>>
    BY <2>1 DEF RequestRedemptionServicedOffchain
  <2> QED BY <2>1, <2>2 DEF RedemptionRequestStep
<1> QED
  BY <1>1, <1>2, <1>3

LEMMA DepositWorkFrame ==
  ASSUME ClaimStep \/ OperatorStep
  PROVE  UNCHANGED <<environment, config>>
<1>1. CASE ClaimStep
  BY <1>1 DEF ClaimStep, ClaimMint
<1>2. CASE OperatorStep
  <2>1. PICK caller \in Accounts :
          PriceIdStep(caller) \/ TimestampStep(caller) \/ OverwriteStep(caller)
    BY <1>2 DEF OperatorStep
  <2>2. CASE PriceIdStep(caller)
    BY <2>2 DEF PriceIdStep, SetPriceIdForDeposits
  <2>3. CASE TimestampStep(caller)
    BY <2>3 DEF TimestampStep, SetClaimableTimestamp
  <2>4. CASE OverwriteStep(caller)
    BY <2>4 DEF OverwriteStep, OverwriteDepositor
  <2> QED BY <2>1, <2>2, <2>3, <2>4
<1> QED BY <1>1, <1>2

LEMMA RedemptionWorkFrame ==
  ASSUME RedemptionClaimStep \/ RedemptionOperatorStep
  PROVE  UNCHANGED <<environment, config>>
<1>1. CASE RedemptionClaimStep
  BY <1>1 DEF RedemptionClaimStep, ClaimRedemption
<1>2. CASE RedemptionOperatorStep
  <2>1. PICK caller \in Accounts :
          RedemptionPriceStep(caller) \/ OverwriteRedeemerStep(caller)
    BY <1>2 DEF RedemptionOperatorStep
  <2>2. CASE RedemptionPriceStep(caller)
    BY <2>2 DEF RedemptionPriceStep, SetPriceIdForRedemptions
  <2>3. CASE OverwriteRedeemerStep(caller)
    BY <2>3 DEF OverwriteRedeemerStep, OverwriteRedeemer
  <2> QED BY <2>1, <2>2, <2>3
<1> QED BY <1>1, <1>2

(* A step of the manager is a step of its deposit half, or leaves it alone. *)
LEMMA StepOfDepositHalf == [ManagerNext]_managerVars => [SubNext]_subVars
<1> SUFFICES ASSUME [ManagerNext]_managerVars PROVE [SubNext]_subVars
  OBVIOUS
<1> USE DEF SubNext, subVars, depositHalf
<1>1. CASE SubscriptionStep
  BY <1>1, SubscriptionStepFrame
<1>2. CASE RedemptionStep
  BY <1>2, RedemptionStepFrame
<1>3. CASE (ClaimStep \/ OperatorStep) /\ UNCHANGED <<redemptionHalf, limits>>
  BY <1>3
<1>4. CASE /\ RedemptionClaimStep \/ RedemptionOperatorStep
           /\ UNCHANGED <<depositHalf, limits>>
  BY <1>4, RedemptionWorkFrame
<1>5. CASE LimitStep
  BY <1>5 DEF LimitStep
<1>6. CASE ConfigNext /\ UNCHANGED <<environment, depositHalf, redemptionHalf, limits>>
  BY <1>6
<1>7. CASE EnvNext /\ UNCHANGED <<config, depositHalf, redemptionHalf, limits>>
  BY <1>7
<1>8. CASE UNCHANGED managerVars
  BY <1>8 DEF managerVars
<1> QED
  BY <1>1, <1>2, <1>3, <1>4, <1>5, <1>6, <1>7, <1>8 DEF ManagerNext

(* The same of its redemption half. *)
LEMMA StepOfRedemptionHalf == [ManagerNext]_managerVars => [RedNext]_redVars
<1> SUFFICES ASSUME [ManagerNext]_managerVars PROVE [RedNext]_redVars
  OBVIOUS
<1> USE DEF RedNext, redVars, redemptionHalf
<1>1. CASE SubscriptionStep
  BY <1>1, SubscriptionStepFrame
<1>2. CASE RedemptionStep
  BY <1>2, RedemptionStepFrame
<1>3. CASE (ClaimStep \/ OperatorStep) /\ UNCHANGED <<redemptionHalf, limits>>
  BY <1>3, DepositWorkFrame
<1>4. CASE /\ RedemptionClaimStep \/ RedemptionOperatorStep
           /\ UNCHANGED <<depositHalf, limits>>
  BY <1>4
<1>5. CASE LimitStep
  BY <1>5 DEF LimitStep
<1>6. CASE ConfigNext /\ UNCHANGED <<environment, depositHalf, redemptionHalf, limits>>
  BY <1>6
<1>7. CASE EnvNext /\ UNCHANGED <<config, depositHalf, redemptionHalf, limits>>
  BY <1>7
<1>8. CASE UNCHANGED managerVars
  BY <1>8 DEF managerVars
<1> QED
  BY <1>1, <1>2, <1>3, <1>4, <1>5, <1>6, <1>7, <1>8 DEF ManagerNext

(* A request of the manager is a request of the limits, and time is the    *)
(* only thing of the environment they read.                                *)
LEMMA RequestOfLimits ==
  ASSUME NEW user \in Users, NEW amount,
         \/ amount \in DepositInputs /\ Limits!Request("deposit", user, amount)
         \/ amount \in RedemptionInputs /\ Limits!Request("redemption", user, amount)
  PROVE  Limits!RequestStep
<1> DEFINE Submitted == [side \in Sides |->
             IF side = "deposit" THEN DepositInputs ELSE RedemptionInputs]
<1>1. CASE amount \in DepositInputs /\ Limits!Request("deposit", user, amount)
  <2>1. "deposit" \in Limits!Sides /\ amount \in Submitted["deposit"]
    BY <1>1 DEF Sides, Limits!Sides
  <2> QED BY <1>1, <2>1 DEF Limits!RequestStep
<1>2. CASE amount \in RedemptionInputs /\ Limits!Request("redemption", user, amount)
  <2>1. "redemption" \in Limits!Sides /\ amount \in Submitted["redemption"]
    BY <1>2 DEF Sides, Limits!Sides
  <2> QED BY <1>2, <2>1 DEF Limits!RequestStep
<1> QED BY <1>1, <1>2

LEMMA StepOfLimits == [ManagerNext]_managerVars => [Limits!EpochNext]_(Limits!epochVars)
<1> SUFFICES ASSUME [ManagerNext]_managerVars
             PROVE  Limits!EpochNext \/ UNCHANGED Limits!epochVars
  OBVIOUS
<1> USE DEF Limits!EpochNext
<1>0. ASSUME UNCHANGED limits, UNCHANGED blockTimestamp PROVE UNCHANGED Limits!epochVars
  BY <1>0 DEF limits, Limits!epochVars, Limits!schedule, Limits!maximums, Limits!operators
<1>1. CASE SubscriptionStep
  BY <1>1, RequestOfLimits DEF SubscriptionStep, ManagerRequestSubscription,
     ManagerRequestSubscriptionServicedOffchain
<1>2. CASE RedemptionStep
  BY <1>2, RequestOfLimits DEF RedemptionStep, ManagerRequestRedemption,
     ManagerRequestRedemptionServicedOffchain
<1>3. CASE (ClaimStep \/ OperatorStep) /\ UNCHANGED <<redemptionHalf, limits>>
  BY <1>0, <1>3, DepositWorkFrame DEF environment
<1>4. CASE /\ RedemptionClaimStep \/ RedemptionOperatorStep
           /\ UNCHANGED <<depositHalf, limits>>
  BY <1>0, <1>4, RedemptionWorkFrame DEF environment
<1>5. CASE LimitStep
  BY <1>5 DEF LimitStep
<1>6. CASE ConfigNext /\ UNCHANGED <<environment, depositHalf, redemptionHalf, limits>>
  BY <1>0, <1>6 DEF environment
<1>7. CASE EnvNext /\ UNCHANGED <<config, depositHalf, redemptionHalf, limits>>
  <2>1. CASE Tick
    BY <1>7, <2>1 DEF Tick, Limits!Tick, limits, Limits!schedule, Limits!maximums,
                      Limits!operators
  <2>2. ASSUME NEW pricer \in Pricers, NEW priceId \in PriceIds, NEW price \in PriceValues,
               AddPrice(pricer, priceId, price) \/ UpdatePrice(pricer, priceId, price)
        PROVE  UNCHANGED blockTimestamp
    BY <2>2 DEF AddPrice, UpdatePrice
  <2>3. ASSUME NEW listed, NEW acceptedUsers, ListsChange(listed, acceptedUsers)
        PROVE  UNCHANGED blockTimestamp
    BY <2>3 DEF ListsChange
  <2> QED BY <1>0, <1>7, <2>1, <2>2, <2>3 DEF EnvNext
<1>8. CASE UNCHANGED managerVars
  BY <1>0, <1>8 DEF managerVars, environment
<1> QED
  BY <1>1, <1>2, <1>3, <1>4, <1>5, <1>6, <1>7, <1>8 DEF ManagerNext

(* The three parts of the composed contract behave as they do alone.       *)
THEOREM ManagerImplementsSubscriptions == ManagerSpec => SubSpec
  BY StepOfDepositHalf, PTL DEF ManagerSpec, ManagerInit, SubSpec

THEOREM ManagerImplementsRedemptions == ManagerSpec => RedSpec
  BY StepOfRedemptionHalf, PTL DEF ManagerSpec, ManagerInit, RedSpec

THEOREM ManagerImplementsLimits == ManagerSpec => Limits!EpochSpec
  BY StepOfLimits, PTL DEF ManagerSpec, ManagerInit, Limits!EpochSpec

(* The books of both halves balance in the composed contract, whatever the *)
(* limits do and whichever ids the relayer and the manager choose: no      *)
(* request the limits saw, and no reverted one, is lost or counted twice,  *)
(* unless its slot was filled before the counter reached it.               *)
THEOREM ManagerConserves ==
  ManagerSpec => [](Conservation /\ RedemptionConservation)
<1>1. SubSpec => []Conservation
  BY ConservationHolds
<1>2. RedSpec => []RedemptionConservation
  BY RedemptionConservationHolds
<1> QED
  BY <1>1, <1>2, ManagerImplementsSubscriptions, ManagerImplementsRedemptions, PTL

(* What is minted and what is paid, in the composed contract: never more   *)
(* than what came in is worth, once for a request and once more for each   *)
(* entry the manager created, nothing on chain for a redemption serviced   *)
(* off chain that the manager left alone, only to whom it is owed, and     *)
(* only on prices and releases given to the request itself.                *)
THEOREM ManagerKeepsPromises ==
  ManagerSpec =>
    /\ [](NeverOverSettled /\ MintedWithinWorth)
    /\ MintNeedsBothOperators /\ MintGoesToDepositor
    /\ [](PaidOnce /\ OffChainNeverPaid /\ PaidWithinWorth)
    /\ PricedAfterRequest /\ PayoutGoesToRedeemer
<1>1. SubSpec => /\ [](NeverOverSettled /\ MintedWithinWorth)
                 /\ MintNeedsBothOperators /\ MintGoesToDepositor
  BY NeverOverSettledHolds, MintedWithinWorthHolds, MintNeedsBothOperatorsHolds,
     MintGoesToDepositorHolds, PTL
<1>2. RedSpec => /\ [](PaidOnce /\ OffChainNeverPaid /\ PaidWithinWorth)
                 /\ PricedAfterRequest /\ PayoutGoesToRedeemer
  BY PaidOnceHolds, OffChainNeverPaidHolds, PaidWithinWorthHolds, PricedAfterRequestHolds,
     PayoutGoesToRedeemerHolds, PTL
<1> QED
  BY <1>1, <1>2, ManagerImplementsSubscriptions, ManagerImplementsRedemptions, PTL

LimitsProofs == INSTANCE EpochLimitsProofs WITH
  InitialTime <- 1,
  Requests <- [side \in Sides |-> IF side = "deposit" THEN DepositInputs
                                                      ELSE RedemptionInputs]

LEMMA LimitsAssumptions ==
  LET Submitted == [side \in Sides |-> IF side = "deposit" THEN DepositInputs
                                                           ELSE RedemptionInputs]
  IN  /\ Submitted \in [Limits!Sides -> SUBSET Nat]
      /\ MaximumInputs \subseteq Nat
      /\ StartInputs \subseteq Nat
      /\ IntervalInputs \subseteq Nat
      /\ 1 \in Nat \ {0}
      /\ MaxTime \in Nat
  BY ManagerAssumption, SubscriptionAssumption, RedemptionAssumption,
     EnvironmentAssumption DEF Sides, Limits!Sides

(* The limits of the theorems and the limits of the manager are the same.   *)
LEMMA SameLimits ==
  /\ LimitsProofs!EpochAssumption
  /\ Limits!EpochInit => LimitsProofs!EpochInit
  /\ [Limits!EpochNext]_(Limits!epochVars) => [LimitsProofs!EpochNext]_(LimitsProofs!epochVars)
<1>1. LimitsProofs!EpochAssumption
  BY LimitsAssumptions DEF LimitsProofs!EpochAssumption, Limits!Sides, LimitsProofs!Sides
<1>2. Limits!EpochInit => LimitsProofs!EpochInit
  BY DEF Limits!EpochInit, LimitsProofs!EpochInit, Limits!Sides, LimitsProofs!Sides,
         Limits!NoOperator, LimitsProofs!NoOperator
<1>3. [Limits!EpochNext]_(Limits!epochVars) => [LimitsProofs!EpochNext]_(LimitsProofs!epochVars)
  <2> USE DEF Limits!EpochNext, LimitsProofs!EpochNext, Limits!Sides, LimitsProofs!Sides,
      Limits!schedule, LimitsProofs!schedule, Limits!maximums, LimitsProofs!maximums,
      Limits!operators, LimitsProofs!operators
  <2>1. CASE Limits!Tick
    BY <2>1 DEF Limits!Tick, LimitsProofs!Tick
  <2>2. CASE Limits!MaximumStep
    BY <2>2 DEF Limits!MaximumStep, LimitsProofs!MaximumStep,
      Limits!SetMaximumAmountInEpoch, LimitsProofs!SetMaximumAmountInEpoch,
      Limits!SetTotalMaximumAmountInEpoch, LimitsProofs!SetTotalMaximumAmountInEpoch
  <2>3. CASE Limits!ScheduleStep
    BY <2>3 DEF Limits!ScheduleStep, LimitsProofs!ScheduleStep,
      Limits!SetEpochStartTime, LimitsProofs!SetEpochStartTime,
      Limits!SetEpochInterval, LimitsProofs!SetEpochInterval
  <2>4. CASE Limits!RequestStep
    BY <2>4, Zenon DEF Limits!RequestStep, LimitsProofs!RequestStep,
      Limits!Request, LimitsProofs!Request,
      Limits!CheckAndUpdateTotalLimit, LimitsProofs!CheckAndUpdateTotalLimit,
      Limits!CheckAndUpdateLimit, LimitsProofs!CheckAndUpdateLimit,
      Limits!RecordAccepted, LimitsProofs!RecordAccepted,
      Limits!CalendarEpoch, LimitsProofs!CalendarEpoch,
      Limits!Carried, LimitsProofs!Carried,
      Limits!CurrentEpoch, LimitsProofs!CurrentEpoch,
      Limits!TotalLimited, LimitsProofs!TotalLimited,
      Limits!UserLimited, LimitsProofs!UserLimited
  <2>5. CASE UNCHANGED Limits!epochVars
    BY <2>5 DEF Limits!epochVars, LimitsProofs!epochVars
  <2> QED BY <2>1, <2>2, <2>3, <2>4, <2>5
<1> QED
  BY <1>1, <1>2, <1>3

(* Every variable of the composed contract keeps its type.                 *)
THEOREM ManagerTypeCorrect == ManagerSpec => []ManagerTypeOK
<1>1. LimitsProofs!EpochAssumption
  BY SameLimits
<1>2. LimitsProofs!EpochSpec => []LimitsProofs!EpochTypeOK
  BY <1>1, LimitsProofs!EpochTypeCorrect, PTL
<1>3. LimitsProofs!EpochTypeOK => Limits!EpochTypeOK
  BY DEF Limits!EpochTypeOK, LimitsProofs!EpochTypeOK, Limits!Sides, LimitsProofs!Sides,
         Limits!UserOperator, LimitsProofs!UserOperator
<1>4. SubTypeOK /\ RedTypeOK /\ Limits!EpochTypeOK => ManagerTypeOK
  BY DEF ManagerTypeOK, RedTypeOK
<1> QED
  BY <1>2, <1>3, <1>4, SameLimits, ManagerImplementsSubscriptions,
     ManagerImplementsRedemptions, ManagerImplementsLimits, SubTypeCorrect,
     RedTypeCorrect, PTL DEF Limits!EpochSpec, LimitsProofs!EpochSpec

(* The composed contract keeps the promise of its limits: whatever the     *)
(* operators, the pausers, the prices and the lists do, no user gets more  *)
(* than the maximum accepted in an epoch, nor starts one with less than    *)
(* the whole allowance, provided that MANAGER_ADMIN moves the schedule     *)
(* only while no limited request is on record.                             *)
THEOREM ManagerKeepsMaximum ==
  ManagerSpec /\ [][Limits!ScheduleSettled]_managerVars =>
    Limits!WithinEpochMaximum /\ Limits!FreshEpochFreshAllowance
<1>1. LimitsProofs!EpochAssumption
  BY SameLimits
<1>2. /\ LimitsProofs!SettledSpec => LimitsProofs!WithinEpochMaximum
      /\ LimitsProofs!SettledSpec => LimitsProofs!FreshEpochFreshAllowance
  BY <1>1, LimitsProofs!WithinEpochMaximumHolds, LimitsProofs!FreshEpochFreshAllowanceHolds
<1>3. [Limits!EpochNext]_(Limits!epochVars) /\ [Limits!ScheduleSettled]_managerVars =>
        [LimitsProofs!EpochNext /\ LimitsProofs!ScheduleSettled]_(LimitsProofs!epochVars)
  <2>1. UNCHANGED managerVars => UNCHANGED LimitsProofs!epochVars
    BY DEF managerVars, environment, limits, LimitsProofs!epochVars,
       LimitsProofs!schedule, LimitsProofs!maximums, LimitsProofs!operators
  <2>2. Limits!ScheduleSettled => LimitsProofs!ScheduleSettled
    BY DEF Limits!ScheduleSettled, LimitsProofs!ScheduleSettled,
       Limits!NoRequestRecorded, LimitsProofs!NoRequestRecorded, Limits!Sides,
       LimitsProofs!Sides, Limits!NoOperator, LimitsProofs!NoOperator,
       Limits!schedule, LimitsProofs!schedule
  <2> QED BY <2>1, <2>2, SameLimits
<1> DEFINE Kept == \A side \in Limits!Sides, user \in Users :
             accepted'[side][user] # accepted[side][user]
               => accepted'[side][user].amount <= userMaximum[side]
           KeptProofs == \A side \in LimitsProofs!Sides, user \in Users :
             accepted'[side][user] # accepted[side][user]
               => accepted'[side][user].amount <= userMaximum[side]
           Fresh == \A side \in Limits!Sides, user \in Users :
             /\ epochUserOperator'[side][user] # epochUserOperator[side][user]
             /\ accepted[side][user].epochTimestamp # Limits!CalendarEpoch
             => epochUserOperator'[side][user].amount = accepted'[side][user].amount
           FreshProofs == \A side \in LimitsProofs!Sides, user \in Users :
             /\ epochUserOperator'[side][user] # epochUserOperator[side][user]
             /\ accepted[side][user].epochTimestamp # LimitsProofs!CalendarEpoch
             => epochUserOperator'[side][user].amount = accepted'[side][user].amount
<1>4. LimitsProofs!epochVars = Limits!epochVars /\ LimitsProofs!epochVars' = Limits!epochVars'
  BY DEF Limits!epochVars, LimitsProofs!epochVars, Limits!schedule, LimitsProofs!schedule,
     Limits!maximums, LimitsProofs!maximums, Limits!operators, LimitsProofs!operators
<1>5. [KeptProofs]_(LimitsProofs!epochVars) => [Kept]_(Limits!epochVars)
  BY <1>4 DEF Limits!Sides, LimitsProofs!Sides
<1>6. [FreshProofs]_(LimitsProofs!epochVars) => [Fresh]_(Limits!epochVars)
  BY <1>4 DEF Limits!Sides, LimitsProofs!Sides, Limits!CalendarEpoch,
     LimitsProofs!CalendarEpoch, Limits!CurrentEpoch, LimitsProofs!CurrentEpoch
<1> QED
  BY <1>2, <1>3, <1>5, <1>6, SameLimits, ManagerImplementsLimits, PTL
     DEF Limits!EpochSpec, LimitsProofs!SettledSpec, Limits!WithinEpochMaximum,
         LimitsProofs!WithinEpochMaximum, Limits!FreshEpochFreshAllowance,
         LimitsProofs!FreshEpochFreshAllowance

-----------------------------------------------------------------------------
(* What the limits count is what the hub registers. *)

LEMMA LimitsCount ==
  ASSUME Limits!EpochTypeOK, NEW side \in Sides, NEW user \in Users,
         NEW amount \in Nat, Limits!Request(side, user, amount)
  PROVE  /\ Limits!UserLimited(side) => Counted(side, user) = amount
         /\ Limits!TotalLimited(side) => CountedInTotal(side) = amount
         /\ \A other \in Users \ {user} : UNCHANGED epochUserOperator[side][other]
         /\ \A other \in Sides \ {side} :
              UNCHANGED <<epochUserOperator[other], totalEpochOperator[other]>>
<1> USE DEF Sides, Limits!Sides, Limits!EpochTypeOK, Limits!UserOperator
<1>1. /\ Limits!CheckAndUpdateTotalLimit(side, amount)
      /\ Limits!CheckAndUpdateLimit(side, user, amount)
  BY DEF Limits!Request
<1>2. /\ Limits!Carried(epochUserOperator[side][user]) \in Nat
      /\ Limits!Carried(totalEpochOperator[side]) \in Nat
  BY DEF Limits!Carried
<1>3. Limits!UserLimited(side) =>
        epochUserOperator'[side][user].amount
          = Limits!Carried(epochUserOperator[side][user]) + amount
  BY <1>1 DEF Limits!CheckAndUpdateLimit
<1>4. Limits!TotalLimited(side) =>
        totalEpochOperator'[side].amount
          = Limits!Carried(totalEpochOperator[side]) + amount
  BY <1>1 DEF Limits!CheckAndUpdateTotalLimit
<1>5. \A other \in Users \ {user} : UNCHANGED epochUserOperator[side][other]
  BY <1>1 DEF Limits!CheckAndUpdateLimit
<1>6. \A other \in Sides \ {side} :
        UNCHANGED <<epochUserOperator[other], totalEpochOperator[other]>>
  BY <1>1 DEF Limits!CheckAndUpdateLimit, Limits!CheckAndUpdateTotalLimit
<1> QED
  BY <1>2, <1>3, <1>4, <1>5, <1>6 DEF Counted, CountedInTotal

(* What a subscription of either kind does to the books of the hub.        *)
LEMMA SubscriptionRegisters ==
  ASSUME SubTypeOK, FeesBounded, NEW user \in Users, NEW amount \in DepositInputs,
         \/ RequestSubscription(user, amount)
         \/ \E caller \in Accounts, id \in OffChainIds :
              RequestSubscriptionServicedOffchain(caller, user, amount, id)
  PROVE  \E id \in DepositIds :
           /\ DepositRequested(id)
           /\ \A other \in DepositIds \ {id} : ~DepositRequested(other)
           /\ depositIdToDepositor'[id].user = user
           /\ credited'[id] - credited[id] = AfterMintFee(amount)
<1>1. amount \in Nat /\ AfterMintFee(amount) \in Nat
  BY SubscriptionAssumption, FeeFacts DEF AfterMintFee, ConfigInv, SubTypeOK
<1>2. ASSUME NEW id \in DepositIds, Register(id, user, AfterMintFee(amount))
      PROVE  /\ depositIdToDepositor'[id].user = user
             /\ Pending(id)'
             /\ \A other \in DepositIds \ {id} : Pending(other)' = Pending(other)
             /\ credited'[id] - credited[id] = AfterMintFee(amount)
  BY <1>1, <1>2, EnvironmentAssumption DEF Register, Pending, SubTypeOK, DepositTypeOK
<1>3. CASE RequestSubscription(user, amount)
  <2> DEFINE id == subscriptionRequestCounter
  <2>1. id \in DepositIds /\ subscriptionRequestCounter' = id + 1
    BY <1>3 DEF RequestSubscription, DepositIds, OnChainIds, SubTypeOK, DepositTypeOK
  <2>2. Register(id, user, AfterMintFee(amount))
    BY <1>3 DEF RequestSubscription, AfterMintFee
  <2>3. id # id + 1
    BY <2>1 DEF SubTypeOK, DepositTypeOK
  <2> QED BY <1>2, <2>1, <2>2, <2>3 DEF DepositRequested
<1>4. ASSUME NEW caller \in Accounts, NEW id \in OffChainIds,
             RequestSubscriptionServicedOffchain(caller, user, amount, id)
      PROVE  /\ id \in DepositIds /\ ~Pending(id)
             /\ Register(id, user, AfterMintFee(amount))
             /\ UNCHANGED <<subscriptionRequestCounter, recreatedDeposits>>
  BY <1>4 DEF RequestSubscriptionServicedOffchain, AcceptsProof, AfterMintFee, DepositIds
<1> QED
  BY <1>2, <1>3, <1>4 DEF DepositRequested

LEMMA SubscriptionCounted ==
  ASSUME ManagerTypeOK, FeesBounded, SubscriptionStep
  PROVE  StepCounted
<1>1. PICK user \in Users, amount \in DepositInputs :
        /\ Limits!Request("deposit", user, amount)
        /\ \/ RequestSubscription(user, amount)
           \/ \E caller \in Accounts, id \in OffChainIds :
                RequestSubscriptionServicedOffchain(caller, user, amount, id)
        /\ UNCHANGED redemptionHalf
  BY DEF SubscriptionStep, ManagerRequestSubscription,
         ManagerRequestSubscriptionServicedOffchain
<1>2. PICK id \in DepositIds :
           /\ DepositRequested(id)
           /\ \A other \in DepositIds \ {id} : ~DepositRequested(other)
           /\ depositIdToDepositor'[id].user = user
           /\ credited'[id] - credited[id] = AfterMintFee(amount)
  BY <1>1, SubscriptionRegisters DEF ManagerTypeOK
<1>3. /\ Limits!UserLimited("deposit") => Counted("deposit", user) = amount
      /\ Limits!TotalLimited("deposit") => CountedInTotal("deposit") = amount
      /\ \A other \in Users \ {user} : UNCHANGED epochUserOperator["deposit"][other]
      /\ \A other \in Sides \ {"deposit"} :
           UNCHANGED <<epochUserOperator[other], totalEpochOperator[other]>>
  BY <1>1, LimitsCount, SubscriptionAssumption DEF ManagerTypeOK, Sides
<1>4. DepositsCounted
  BY <1>2, <1>3 DEF DepositsCounted
<1>5. RedemptionsCounted
  BY <1>1 DEF RedemptionsCounted, RedemptionRequested, redemptionHalf, redemptions
<1>6. \A side \in Sides : OnlyRequestsCounted(side)
  BY <1>2, <1>3 DEF OnlyRequestsCounted, Sides
<1> QED
  BY <1>4, <1>5, <1>6 DEF StepCounted

(* What a redemption of either kind does to the books of the hub.          *)
LEMMA RedemptionRegisters ==
  ASSUME RedemptionTypeOK, NEW user \in Users, NEW amount \in RedemptionInputs,
         RequestRedemption(user, amount) \/ RequestRedemptionServicedOffchain(user, amount)
  PROVE  LET id == redemptionRequestCounter
             request == redemptionRequests'[id]
             entry == redemptionIdToRedeemer'[id]
         IN  /\ id \in RedemptionIds
             /\ redemptionRequestCounter' = id + 1
             /\ request.user = user /\ request.amount = amount
             /\ request.kind = "onChain" =>
                  entry.user = user /\ entry.amountRwaTokenBurned = amount
<1> DEFINE id == redemptionRequestCounter
<1>1. id \in RedemptionIds /\ redemptionRequestCounter' = id + 1
  BY RedemptionAssumption DEF RequestRedemption, RequestRedemptionServicedOffchain,
     RedemptionTypeOK, RedemptionIds, NextRedemptionId
<1>2. CASE RequestRedemption(user, amount)
  <2>1. /\ redemptionIdToRedeemer' =
             [redemptionIdToRedeemer EXCEPT ![id] = NewRedeemer(id, user, amount)]
        /\ RecordRequest(id, "onChain", user, amount, AmountBurned(id))
    BY <1>2 DEF RequestRedemption
  <2>2. redemptionIdToRedeemer'[id] = NewRedeemer(id, user, amount)
    BY <1>1, <2>1 DEF RedemptionTypeOK
  <2>3. redemptionRequests'[id] = [kind |-> "onChain", user |-> user, amount |-> amount,
                                   replaced |-> AmountBurned(id)]
    BY <1>1, <2>1 DEF RecordRequest, RedemptionTypeOK
  <2> QED BY <1>1, <2>2, <2>3 DEF NewRedeemer
<1>3. CASE RequestRedemptionServicedOffchain(user, amount)
  <2>1. redemptionRequests'[id] = [kind |-> "offChain", user |-> user, amount |-> amount,
                                   replaced |-> 0]
    BY <1>1, <1>3 DEF RequestRedemptionServicedOffchain, RecordRequest, RedemptionTypeOK
  <2> QED BY <1>1, <2>1
<1> QED
  BY <1>2, <1>3

LEMMA RedemptionCounted ==
  ASSUME ManagerTypeOK, RedemptionStep
  PROVE  StepCounted
<1> DEFINE id == redemptionRequestCounter
<1>1. PICK user \in Users, amount \in RedemptionInputs :
        /\ Limits!Request("redemption", user, amount)
        /\ RequestRedemption(user, amount) \/ RequestRedemptionServicedOffchain(user, amount)
        /\ UNCHANGED depositHalf
  BY DEF RedemptionStep, ManagerRequestRedemption,
         ManagerRequestRedemptionServicedOffchain
<1>2. /\ id \in RedemptionIds
      /\ redemptionRequestCounter' = id + 1
      /\ redemptionRequests'[id].user = user /\ redemptionRequests'[id].amount = amount
      /\ redemptionRequests'[id].kind = "onChain" =>
           /\ redemptionIdToRedeemer'[id].user = user
           /\ redemptionIdToRedeemer'[id].amountRwaTokenBurned = amount
  BY <1>1, RedemptionRegisters DEF ManagerTypeOK
<1>3. /\ Limits!UserLimited("redemption") => Counted("redemption", user) = amount
      /\ Limits!TotalLimited("redemption") => CountedInTotal("redemption") = amount
      /\ \A other \in Users \ {user} : UNCHANGED epochUserOperator["redemption"][other]
      /\ \A other \in Sides \ {"redemption"} :
           UNCHANGED <<epochUserOperator[other], totalEpochOperator[other]>>
  BY <1>1, LimitsCount, RedemptionAssumption DEF ManagerTypeOK, Sides
<1>4. RedemptionsCounted
  BY <1>2, <1>3 DEF RedemptionsCounted, RedemptionRequested
<1>5. DepositsCounted
  BY <1>1 DEF DepositsCounted, DepositRequested, Pending, depositHalf, deposits
<1>6. RedemptionRequested(id)
  <2>1. id # id + 1
    BY <1>2 DEF RedemptionIds
  <2> QED BY <1>2, <2>1 DEF RedemptionRequested
<1>7. \A side \in Sides : OnlyRequestsCounted(side)
  BY <1>2, <1>3, <1>6 DEF OnlyRequestsCounted, Sides
<1> QED
  BY <1>4, <1>5, <1>7 DEF StepCounted

(* No other step registers a request or touches the records.               *)
LEMMA NothingCounted ==
  ASSUME UNCHANGED <<epochUserOperator, totalEpochOperator>>,
         \A id \in DepositIds : ~DepositRequested(id),
         \A id \in RedemptionIds : ~RedemptionRequested(id)
  PROVE  StepCounted
  BY DEF StepCounted, DepositsCounted, RedemptionsCounted, OnlyRequestsCounted

LEMMA DepositWorkRequestsNothing ==
  ASSUME SubTypeOK, ClaimStep \/ OperatorStep
  PROVE  \A id \in DepositIds : ~DepositRequested(id)
<1> SUFFICES /\ UNCHANGED subscriptionRequestCounter
             /\ \A id \in DepositIds :
                  Pending(id)' => Pending(id) \/ recreatedDeposits'[id] # recreatedDeposits[id]
  BY DEF DepositRequested
<1> USE DEF SubTypeOK, DepositTypeOK, Pending
<1>1. CASE ClaimStep
  BY <1>1 DEF ClaimStep, ClaimMint, EntriesAfterClaim, NoDepositor
<1>2. CASE OperatorStep
  <2>1. PICK caller \in Accounts :
          PriceIdStep(caller) \/ TimestampStep(caller) \/ OverwriteStep(caller)
    BY <1>2 DEF OperatorStep
  <2>2. CASE PriceIdStep(caller)
    <3>1. PICK depositIds \in Batches : \E priceIds \in [depositIds -> PriceIds \cup {0}] :
            SetPriceIdForDeposits(caller, depositIds, priceIds)
      BY <2>2 DEF PriceIdStep
    <3>2. PICK priceIds \in [depositIds -> PriceIds \cup {0}] :
            SetPriceIdForDeposits(caller, depositIds, priceIds)
      BY <3>1
    <3>3. \A id \in DepositIds :
            depositIdToDepositor'[id].user = depositIdToDepositor[id].user
      BY <3>2 DEF SetPriceIdForDeposits, Depositor
    <3> QED BY <3>2, <3>3 DEF SetPriceIdForDeposits
  <2>3. CASE TimestampStep(caller)
    BY <2>3 DEF TimestampStep, SetClaimableTimestamp
  <2>4. CASE OverwriteStep(caller)
    <3>1. PICK i \in DepositIds, user \in OverwriteUsers, amount \in OverwriteInputs,
               priceId \in PriceIds \cup {0} :
            OverwriteDepositor(caller, i, user, amount, priceId)
      BY <2>4 DEF OverwriteStep
    <3>2. /\ UNCHANGED subscriptionRequestCounter
          /\ \A id \in DepositIds \ {i} :
               depositIdToDepositor'[id] = depositIdToDepositor[id]
          /\ recreatedDeposits'[i] = TimesRecreatedDeposit(i)
      BY <3>1 DEF OverwriteDepositor
    <3>3. ~Pending(i) => recreatedDeposits'[i] # recreatedDeposits[i]
      <4>1. recreatedDeposits[i] \in Nat
        OBVIOUS
      <4> QED BY <3>2, <4>1 DEF TimesRecreatedDeposit
    <3> QED BY <3>2, <3>3
  <2> QED BY <2>1, <2>2, <2>3, <2>4
<1> QED BY <1>1, <1>2

LEMMA RedemptionWorkRequestsNothing ==
  ASSUME RedemptionClaimStep \/ RedemptionOperatorStep
  PROVE  UNCHANGED redemptionRequestCounter
<1>1. CASE RedemptionClaimStep
  BY <1>1 DEF RedemptionClaimStep, ClaimRedemption
<1>2. CASE RedemptionOperatorStep
  BY <1>2 DEF RedemptionOperatorStep, RedemptionPriceStep, SetPriceIdForRedemptions,
              OverwriteRedeemerStep, OverwriteRedeemer
<1> QED BY <1>1, <1>2

LEMMA StepsCounted ==
  ManagerTypeOK /\ FeesBounded /\ [ManagerNext]_managerVars => StepCounted \/ UNCHANGED managerVars
<1> SUFFICES ASSUME ManagerTypeOK, FeesBounded, ManagerNext PROVE StepCounted
  OBVIOUS
<1>0. ASSUME UNCHANGED deposits PROVE \A id \in DepositIds : ~DepositRequested(id)
  BY <1>0 DEF deposits, DepositRequested, Pending
<1>1. ASSUME UNCHANGED redemptionRequestCounter
      PROVE  \A id \in RedemptionIds : ~RedemptionRequested(id)
  BY <1>1 DEF RedemptionRequested
<1> USE DEF depositHalf, redemptionHalf, redemptions, limits
<1>2. CASE (ClaimStep \/ OperatorStep) /\ UNCHANGED <<redemptionHalf, limits>>
  BY <1>1, <1>2, DepositWorkRequestsNothing, NothingCounted DEF ManagerTypeOK
<1>3. CASE /\ RedemptionClaimStep \/ RedemptionOperatorStep
           /\ UNCHANGED <<depositHalf, limits>>
  BY <1>0, <1>1, <1>3, RedemptionWorkRequestsNothing, NothingCounted
<1>4. CASE LimitStep
  <2>1. UNCHANGED <<epochUserOperator, totalEpochOperator>>
    BY <1>4 DEF LimitStep, Limits!MaximumStep, Limits!SetMaximumAmountInEpoch,
       Limits!SetTotalMaximumAmountInEpoch, Limits!ScheduleStep,
       Limits!SetEpochStartTime, Limits!SetEpochInterval, Limits!operators
  <2> QED BY <1>0, <1>1, <1>4, <2>1, NothingCounted DEF LimitStep
<1>5. CASE ConfigNext /\ UNCHANGED <<environment, depositHalf, redemptionHalf, limits>>
  BY <1>0, <1>1, <1>5, NothingCounted
<1>6. CASE EnvNext /\ UNCHANGED <<config, depositHalf, redemptionHalf, limits>>
  BY <1>0, <1>1, <1>6, NothingCounted
<1> QED
  BY <1>2, <1>3, <1>4, <1>5, <1>6, SubscriptionCounted, RedemptionCounted DEF ManagerNext

(* What the epoch records grow by is what the hub registers, for every     *)
(* request of every user, and nothing else touches the records: a request  *)
(* that the hub refuses consumes no allowance.                             *)
THEOREM RequestsCountedHolds == ManagerSpec => RequestsCounted
<1>1. SubInv => FeesBounded
  BY DEF SubInv
<1>2. ManagerTypeOK /\ FeesBounded /\ [ManagerNext]_managerVars => [StepCounted]_managerVars
  BY StepsCounted
<1> QED
  BY <1>1, <1>2, ManagerTypeCorrect, ManagerImplementsSubscriptions, SubInvariance,
     PTL DEF ManagerSpec, RequestsCounted

=============================================================================
