---------------------------- MODULE USDYManager ----------------------------
(***************************************************************************)
(* USDYManager: the two halves of the hub on one set of parameters, with   *)
(* the epoch limits of the manager in front of every request.  Each of the *)
(* four overrides updates the total record, then the user's record, and    *)
(* then calls the hub's function; when any of the three reverts, so does   *)
(* the whole call.  Every other function is the hub's, and leaves the      *)
(* limits alone.                                                           *)
(***************************************************************************)
EXTENDS Subscriptions, Redemptions

CONSTANTS
  MaximumInputs,   \* bound: values of the per-user and total maximums
  StartInputs,     \* bound: values of the epoch start
  IntervalInputs   \* bound: values of the epoch interval

Sides == {"deposit", "redemption"}

VARIABLES epochStartTimestamp, epochInterval, userMaximum, totalMaximum,
          epochUserOperator, totalEpochOperator, accepted

Limits == INSTANCE EpochLimits WITH
  InitialTime <- 1,
  Requests <- [side \in Sides |-> IF side = "deposit" THEN DepositInputs
                                                      ELSE RedemptionInputs]

ASSUME ManagerAssumption ==
  MaximumInputs \subseteq Nat /\ StartInputs \subseteq Nat /\ IntervalInputs \subseteq Nat

limits == <<epochStartTimestamp, epochInterval, userMaximum, totalMaximum,
            epochUserOperator, totalEpochOperator, accepted>>
depositHalf == <<deposits, history>>
redemptionHalf == <<redemptions, redemptionHistory>>
managerVars == <<environment, config, depositHalf, redemptionHalf, limits>>

ManagerTypeOK == SubTypeOK /\ RedemptionTypeOK /\ Limits!EpochTypeOK

ManagerInit == SubInit /\ RedInit /\ Limits!EpochInit

\* Mutant: a subscription that the hub refuses does not undo the limits.
RequestSubscriptionNotUndone(user, amount) ==
  /\ Limits!Request("deposit", user, amount)
  /\ RequestSubscription(user, amount) \/ UNCHANGED <<environment, config, depositHalf>>
  /\ UNCHANGED redemptionHalf

\* requestSubscription of USDYManager
ManagerRequestSubscription(user, amount) ==
  /\ Limits!Request("deposit", user, amount)
  /\ RequestSubscription(user, amount)
  /\ UNCHANGED redemptionHalf

\* Mutant: the deposit is counted against the sender of the call.
CountAgainstSender(caller, user, amount, offChainDestination) ==
  /\ OnlyRole("RELAYER_ROLE", caller)
  /\ Limits!Request("deposit", caller, amount)
  /\ RequestSubscriptionServicedOffchain(caller, user, amount, offChainDestination)
  /\ UNCHANGED redemptionHalf

\* requestSubscriptionServicedOffchain: the limit is the user's, not the
\* relayer's.
ManagerRequestSubscriptionServicedOffchain(caller, user, amount, offChainDestination) ==
  /\ Limits!Request("deposit", user, amount)
  /\ RequestSubscriptionServicedOffchain(caller, user, amount, offChainDestination)
  /\ UNCHANGED redemptionHalf

\* requestRedemption
ManagerRequestRedemption(user, amount) ==
  /\ Limits!Request("redemption", user, amount)
  /\ RequestRedemption(user, amount)
  /\ UNCHANGED depositHalf

\* requestRedemptionServicedOffchain
ManagerRequestRedemptionServicedOffchain(user, amount) ==
  /\ Limits!Request("redemption", user, amount)
  /\ RequestRedemptionServicedOffchain(user, amount)
  /\ UNCHANGED depositHalf

SubscriptionStep ==
  \E user \in Users, amount \in DepositInputs :
    \/ ManagerRequestSubscription(user, amount)
    \/ \E caller \in Accounts, id \in OffChainIds :
         ManagerRequestSubscriptionServicedOffchain(caller, user, amount, id)

RedemptionStep ==
  \E user \in Users, amount \in RedemptionInputs :
    \/ ManagerRequestRedemption(user, amount)
    \/ ManagerRequestRedemptionServicedOffchain(user, amount)

\* The setters of the limits are MANAGER_ADMIN's.
LimitStep ==
  /\ RoleMembers["MANAGER_ADMIN"] # {}
  /\ Limits!MaximumStep \/ Limits!ScheduleStep
  /\ UNCHANGED <<environment, config, depositHalf, redemptionHalf>>

ManagerNext ==
  \/ SubscriptionStep
  \/ RedemptionStep
  \/ (ClaimStep \/ OperatorStep) /\ UNCHANGED <<redemptionHalf, limits>>
  \/ (RedemptionClaimStep \/ RedemptionOperatorStep) /\ UNCHANGED <<depositHalf, limits>>
  \/ LimitStep
  \/ ConfigNext /\ UNCHANGED <<environment, depositHalf, redemptionHalf, limits>>
  \/ EnvNext /\ UNCHANGED <<config, depositHalf, redemptionHalf, limits>>

ManagerSpec == ManagerInit /\ [][ManagerNext]_managerVars

\* The operators of both halves do their work (see Servicing and
\* RedemptionServicing); nobody has to touch the limits.
FairManagerSpec == ManagerSpec /\ Servicing /\ RedemptionServicing

-----------------------------------------------------------------------------
(* Properties. *)

\* A deposit, or a redemption, is registered under `id` in this step (the
\* manager's corrections register nothing).
DepositRequested(id) ==
  \/ subscriptionRequestCounter = id /\ subscriptionRequestCounter' # id
  \/ ~Pending(id) /\ Pending(id)' /\ UNCHANGED recreatedDeposits[id]
RedemptionRequested(id) ==
  redemptionRequestCounter = id /\ redemptionRequestCounter' # id

\* What this step adds to the record of a user, and to the record of all.
Counted(side, user) ==
  epochUserOperator'[side][user].amount - Limits!Carried(epochUserOperator[side][user])
CountedInTotal(side) ==
  totalEpochOperator'[side].amount - Limits!Carried(totalEpochOperator[side])

AfterMintFee(amount) == amount - GetMintFees(amount, amounts["mintFee"])

DepositsCounted ==
  \A id \in DepositIds : DepositRequested(id) =>
    LET user == depositIdToDepositor'[id].user
        registered == credited'[id] - credited[id]
    IN  /\ Limits!UserLimited("deposit") =>
             AfterMintFee(Counted("deposit", user)) = registered
        /\ Limits!TotalLimited("deposit") =>
             AfterMintFee(CountedInTotal("deposit")) = registered

RedemptionsCounted ==
  \A id \in RedemptionIds : RedemptionRequested(id) =>
    LET request == redemptionRequests'[id]
        entry == redemptionIdToRedeemer'[id]
    IN  /\ request.user \in Users
        /\ request.kind = "onChain" =>
             entry.user = request.user /\ entry.amountRwaTokenBurned = request.amount
        /\ Limits!UserLimited("redemption") =>
             Counted("redemption", request.user) = request.amount
        /\ Limits!TotalLimited("redemption") =>
             CountedInTotal("redemption") = request.amount

OnlyRequestsCounted(side) ==
  \/ UNCHANGED <<epochUserOperator[side], totalEpochOperator[side]>>
  \/ \E user \in Users :
       /\ \A other \in Users \ {user} : UNCHANGED epochUserOperator[side][other]
       /\ IF side = "deposit"
            THEN \E id \in DepositIds :
                   DepositRequested(id) /\ depositIdToDepositor'[id].user = user
            ELSE \E id \in RedemptionIds :
                   RedemptionRequested(id) /\ redemptionRequests'[id].user = user

StepCounted ==
  /\ DepositsCounted
  /\ RedemptionsCounted
  /\ \A side \in Sides : OnlyRequestsCounted(side)

(* The epoch limits and the books of the hub agree on every request,       *)
(* whoever submits it: the record of the very user for whom the hub        *)
(* registers a deposit, or whose tokens it burns, grows by the amount      *)
(* before the fee, and so does the total; no other user's record changes,  *)
(* a request that the hub refuses leaves the records alone, and so does    *)
(* every step that requests nothing.                                       *)
RequestsCounted == [][StepCounted]_managerVars

=============================================================================
