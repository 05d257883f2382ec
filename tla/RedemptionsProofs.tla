-------------------------- MODULE RedemptionsProofs --------------------------
(***************************************************************************)
(* The redemption properties, for every set of users, ids, amounts,        *)
(* prices, roles, batches and corrections.  They are inductive together    *)
(* with two facts about slots: an empty slot holds no amount, and a slot   *)
(* the counter has not reached was requested by nobody (the price setter   *)
(* and the manager may have written in it).  All of them speak of one id   *)
(* at a time, so that a step has to be followed only on the ids it touches.*)
(***************************************************************************)
EXTENDS Redemptions, HubConfigProofs

SlotInv(id) ==
  /\ ~Outstanding(id) => AmountBurned(id) = 0
  /\ id >= redemptionRequestCounter => redemptionRequests[id] = NoRequest

Conserved(id) ==
  /\ owed[id] = redeemed[id] + AmountBurned(id) + redemptionRequests[id].replaced
  /\ redemptionRequests[id].replaced > 0 => recreated[id] > 0

PaidForEntries(id) ==
  /\ payments[id] + ToPay(id) <= RequestedOnChain(id) + recreated[id]
  /\ payments[id] = 0 => NothingPaid(id)

WithinWorth(id) ==
  \A user \in Users, price \in PriceValues :
    (\A p \in PriceValues : p <= price)
      => (paid[id][user] + redemptionFees[id]) * DecimalsMultiplier * PriceUnit
           <= redeemed[id] * price

IdInv(id) == SlotInv(id) /\ Conserved(id) /\ PaidForEntries(id) /\ WithinWorth(id)

\* A price id in an outstanding entry was given to it since its request.
PriceIdsRecorded ==
  \A id \in RedemptionIds :
    Outstanding(id) /\ redemptionIdToRedeemer[id].priceId # 0 => id \in pricedRedemptions

RedInv ==
  /\ PriceIdsRecorded
  /\ EnvInv
  /\ ConfigInv
  /\ RedemptionTypeOK
  /\ \A id \in RedemptionIds : IdInv(id)

\* The numbers that a step on one id computes with.
LEMMA IdNumbers ==
  ASSUME RedemptionTypeOK, NEW id \in RedemptionIds
  PROVE  /\ redemptionRequests[id] \in RedemptionRequest
         /\ redemptionRequests[id].replaced \in Nat
         /\ AmountBurned(id) \in Nat /\ owed[id] \in Nat
         /\ redeemed[id] \in Nat /\ redemptionFees[id] \in Nat
         /\ payments[id] \in Nat /\ recreated[id] \in Nat
         /\ RequestedOnChain(id) \in {0, 1}
         /\ ToPay(id) \in {0, 1}
<1>1. redemptionRequests[id] \in RedemptionRequest /\ redemptionIdToRedeemer[id] \in Redeemer
  BY DEF RedemptionTypeOK
<1>2. redemptionRequests[id].replaced \in Nat /\ AmountBurned(id) \in Nat
  BY <1>1 DEF RedemptionRequest, Redeemer, AmountBurned
<1> QED
  BY <1>1, <1>2 DEF RedemptionTypeOK, RequestedOnChain, ToPay

LEMMA RedInvImplies ==
  RedInv => /\ RedTypeOK
            /\ RedemptionConservation
            /\ PaidOnce
            /\ OffChainNeverPaid
            /\ PaidWithinWorth
<1> SUFFICES ASSUME RedInv
             PROVE  /\ RedTypeOK /\ RedemptionConservation /\ PaidOnce
                    /\ OffChainNeverPaid /\ PaidWithinWorth
  OBVIOUS
<1>1. RedTypeOK /\ RedemptionConservation /\ PaidOnce /\ PaidWithinWorth
  BY DEF RedInv, EnvInv, ConfigInv, RedTypeOK, IdInv, Conserved, PaidForEntries,
         WithinWorth, RedemptionConservation, PaidOnce, PaidWithinWorth
<1>2. ASSUME NEW id \in RedemptionIds, redemptionRequests[id].kind = "offChain",
             recreated[id] = 0
      PROVE  owed[id] = 0 /\ ~Outstanding(id) /\ NothingPaid(id)
  <2>1. RedemptionTypeOK /\ SlotInv(id) /\ Conserved(id) /\ PaidForEntries(id)
    BY DEF RedInv, IdInv
  <2>2. /\ redemptionRequests[id].replaced \in Nat
        /\ payments[id] \in Nat /\ ToPay(id) \in {0, 1}
    BY <2>1, IdNumbers
  <2>3. RequestedOnChain(id) = 0
    BY <1>2 DEF RequestedOnChain
  <2>4. payments[id] = 0 /\ ToPay(id) = 0
    BY <1>2, <2>1, <2>2, <2>3 DEF PaidForEntries
  <2>5. NothingPaid(id) /\ ~Outstanding(id)
    BY <2>1, <2>4 DEF PaidForEntries, ToPay
  <2>6. redemptionRequests[id].replaced = 0
    BY <1>2, <2>1, <2>2 DEF Conserved
  <2> QED BY <2>1, <2>5, <2>6 DEF Conserved, SlotInv, NothingPaid
<1> QED
  BY <1>1, <1>2 DEF OffChainNeverPaid

LEMMA RedEnvUnchanged == EnvInv /\ UNCHANGED environment => EnvInv'
  BY DEF EnvInv, EnvTypeOK, PricesSubmitted, environment

LEMMA RedConfigUnchanged == ConfigInv /\ UNCHANGED config => ConfigInv'
  BY DEF ConfigInv, ConfigTypeOK, FeesBounded, config

LEMMA ZeroIsNoUser == ZeroAddress \notin Users
  BY EnvironmentAssumption

LEMMA PricesNat == \A price \in {0} \cup PriceValues : price \in Nat
  BY EnvironmentAssumption

(* A step that leaves the slot and the history of an id alone, but perhaps *)
(* for its price id, and never turns the counter back, keeps IdInv.        *)
LEMMA IdKept ==
  ASSUME NEW id \in RedemptionIds, IdInv(id), RedemptionTypeOK, RedemptionTypeOK',
         redemptionRequestCounter' >= redemptionRequestCounter,
         redemptionIdToRedeemer'[id].user = redemptionIdToRedeemer[id].user,
         redemptionIdToRedeemer'[id].amountRwaTokenBurned
           = redemptionIdToRedeemer[id].amountRwaTokenBurned,
         redemptionRequests'[id] = redemptionRequests[id],
         recreated'[id] = recreated[id], owed'[id] = owed[id],
         payments'[id] = payments[id], redeemed'[id] = redeemed[id], paid'[id] = paid[id],
         redemptionFees'[id] = redemptionFees[id]
  PROVE  IdInv(id)'
<1>1. (Outstanding(id)' <=> Outstanding(id)) /\ AmountBurned(id)' = AmountBurned(id)
  BY DEF Outstanding, AmountBurned
<1>2. id >= redemptionRequestCounter' => id >= redemptionRequestCounter
  BY RedemptionAssumption DEF RedemptionTypeOK, RedemptionIds
<1>3. (NothingPaid(id)' <=> NothingPaid(id)) /\ (WithinWorth(id)' <=> WithinWorth(id))
  BY DEF NothingPaid, WithinWorth
<1>4. SlotInv(id)'
  BY <1>1, <1>2 DEF SlotInv, IdInv
<1>5. Conserved(id)'
  BY <1>1 DEF Conserved, IdInv
<1>6. PaidForEntries(id)'
  BY <1>1, <1>3 DEF PaidForEntries, RequestedOnChain, ToPay, IdInv
<1> QED
  BY <1>3, <1>4, <1>5, <1>6 DEF IdInv

(* An id for which nothing was ever paid is within worth. *)
LEMMA UnpaidWithinWorth ==
  ASSUME NEW id \in RedemptionIds, NothingPaid(id)
  PROVE  WithinWorth(id)
<1> SUFFICES ASSUME NEW user \in Users, NEW price \in PriceValues
             PROVE  (paid[id][user] + redemptionFees[id]) * DecimalsMultiplier * PriceUnit
                      <= redeemed[id] * price
  BY DEF WithinWorth
<1>1. paid[id][user] = 0 /\ redemptionFees[id] = 0 /\ redeemed[id] = 0
  BY DEF NothingPaid
<1>2. price \in Nat
  BY EnvironmentAssumption
<1> QED
  BY <1>1, <1>2, ScaleAssumption, PriceUnitAssumption

LEMMA RedInitOK == RedInit => RedInv
<1> SUFFICES ASSUME RedInit PROVE RedInv
  OBVIOUS
<1>1. EnvInv /\ ConfigInv /\ PriceIdsRecorded
  BY EnvInitOK, ConfigInitOK DEF RedInit, PriceIdsRecorded, Outstanding, NoRedeemer
<1>2. RedemptionTypeOK
  BY RedemptionAssumption, EnvironmentAssumption
     DEF RedInit, RedemptionTypeOK, Redeemer, NoRedeemer, RedemptionRequest, NoRequest
<1>3. ASSUME NEW id \in RedemptionIds PROVE IdInv(id)
  <2>1. NothingPaid(id) /\ ~Outstanding(id) /\ AmountBurned(id) = 0
    BY DEF RedInit, NothingPaid, Outstanding, AmountBurned, NoRedeemer
  <2>2. /\ owed[id] = 0 /\ recreated[id] = 0 /\ payments[id] = 0
        /\ redemptionRequests[id] = NoRequest
    BY DEF RedInit
  <2>3. Conserved(id)
    BY <2>1, <2>2 DEF Conserved, NothingPaid, NoRequest
  <2>4. PaidForEntries(id)
    BY <2>1, <2>2 DEF PaidForEntries, RequestedOnChain, ToPay, NoRequest
  <2> QED
    BY <2>1, <2>2, <2>3, <2>4, UnpaidWithinWorth DEF IdInv, SlotInv
<1> QED
  BY <1>1, <1>2, <1>3 DEF RedInv

(* The request takes the slot at the counter, whatever it holds: a price   *)
(* id put there early, or an entry that the manager wrote.                 *)
LEMMA RequestRedemptionOK ==
  ASSUME RedInv, NEW user \in Users, NEW amount \in RedemptionInputs,
         RequestRedemption(user, amount)
  PROVE  RedInv'
<1>0. /\ EnvInv /\ ConfigInv /\ RedemptionTypeOK
      /\ \A i \in RedemptionIds : IdInv(i)
  BY DEF RedInv
<1>a. redemptionRequestCounter \in RedemptionIds
  BY <1>0, RedemptionAssumption DEF RequestRedemption, RedemptionTypeOK, RedemptionIds
<1>b. PICK id \in RedemptionIds : id = redemptionRequestCounter
  BY <1>a
<1> DEFINE request == [kind |-> "onChain", user |-> user, amount |-> amount,
                       replaced |-> AmountBurned(id)]
<1>n. /\ AmountBurned(id) \in Nat /\ owed[id] \in Nat /\ redeemed[id] \in Nat
      /\ payments[id] \in Nat /\ recreated[id] \in Nat
  BY <1>0, IdNumbers
<1>1. /\ id \in Nat /\ amount \in Nat /\ NewRedeemer(id, user, amount) \in Redeemer
      /\ request \in RedemptionRequest
  BY <1>n, RedemptionAssumption DEF RedemptionIds, Redeemer, NewRedeemer, RedemptionRequest
<1>2. /\ redemptionRequestCounter' = id + 1
      /\ redemptionIdToRedeemer' =
           [redemptionIdToRedeemer EXCEPT ![id] = NewRedeemer(id, user, amount)]
      /\ redemptionRequests' = [redemptionRequests EXCEPT ![id] = request]
      /\ owed' = [owed EXCEPT ![id] = @ + amount]
      /\ pricedRedemptions' = pricedRedemptions \ {id}
      /\ UNCHANGED <<environment, config, recreated, payments, redeemed, paid,
                     redemptionFees>>
  BY <1>b DEF RequestRedemption, NextRedemptionId, RecordRequest
<1>3. /\ IdInv(id)
      /\ redemptionRequests[id].replaced = 0 /\ RequestedOnChain(id) = 0
  BY <1>0, <1>1, <1>b DEF IdInv, SlotInv, NoRequest, RequestedOnChain
<1>4. RedemptionTypeOK'
  <2> HIDE DEF request
  <2>1. redemptionRequestCounter' \in 1..(MaxRedemptions + 1)
    BY <1>1, <1>2, RedemptionAssumption DEF RedemptionIds
  <2>2. redemptionIdToRedeemer' \in [RedemptionIds -> Redeemer]
    BY <1>0, <1>1, <1>2 DEF RedemptionTypeOK
  <2>3. owed' \in [RedemptionIds -> Nat]
    BY <1>0, <1>1, <1>2 DEF RedemptionTypeOK
  <2>4. redemptionRequests' \in [RedemptionIds -> RedemptionRequest]
    BY <1>0, <1>1, <1>2 DEF RedemptionTypeOK
  <2> QED BY <1>0, <1>2, <2>1, <2>2, <2>3, <2>4 DEF RedemptionTypeOK
<1>5. ASSUME NEW i \in RedemptionIds PROVE IdInv(i)'
  <2>1. CASE i = id
    <3>1. redemptionIdToRedeemer'[id] = NewRedeemer(id, user, amount)
      BY <1>0, <1>1, <1>2 DEF RedemptionTypeOK
    <3>2. Outstanding(id)' /\ AmountBurned(id)' = amount
      BY <3>1, ZeroIsNoUser DEF Outstanding, AmountBurned, NewRedeemer
    <3>3. owed'[id] = owed[id] + amount /\ redemptionRequests'[id] = request
      BY <1>0, <1>1, <1>2 DEF RedemptionTypeOK
    <3>4. NothingPaid(id)' <=> NothingPaid(id)
      BY <1>2 DEF NothingPaid
    <3>5. SlotInv(id)'
      BY <1>1, <1>2, <3>2 DEF SlotInv
    <3>6. WithinWorth(id)'
      BY <1>2, <1>3 DEF WithinWorth, IdInv
    <3>7. owed[id] = redeemed[id] + AmountBurned(id)
      BY <1>3, <1>n DEF IdInv, Conserved
    <3>8. payments[id] + ToPay(id) <= recreated[id]
      BY <1>3, <1>n DEF IdInv, PaidForEntries, ToPay
    <3>9. Conserved(id)'
      <4>1. AmountBurned(id) > 0 => recreated[id] > 0
        BY <1>3, <1>n, <3>8 DEF IdInv, SlotInv, ToPay
      <4>2. redemptionRequests'[id].replaced = AmountBurned(id)
        BY <3>3
      <4>3. owed'[id] = redeemed'[id] + amount + AmountBurned(id)
        BY <1>1, <1>2, <1>n, <3>3, <3>7
      <4> QED BY <1>2, <3>2, <4>1, <4>2, <4>3 DEF Conserved
    <3>10. PaidForEntries(id)'
      <4>1. RequestedOnChain(id)' = 1 /\ ToPay(id)' = 1
        BY <3>2, <3>3 DEF RequestedOnChain, ToPay
      <4>2. payments[id] <= recreated[id]
        BY <1>n, <3>8 DEF ToPay
      <4> QED BY <1>2, <1>3, <1>n, <3>4, <4>1, <4>2 DEF PaidForEntries, IdInv
    <3> QED BY <2>1, <3>5, <3>6, <3>9, <3>10 DEF IdInv
  <2>2. CASE i # id
    <3>1. /\ redemptionIdToRedeemer'[i] = redemptionIdToRedeemer[i] /\ owed'[i] = owed[i]
          /\ redemptionRequests'[i] = redemptionRequests[i]
      BY <1>0, <1>2, <2>2 DEF RedemptionTypeOK
    <3>2. redemptionRequestCounter' >= redemptionRequestCounter
      BY <1>1, <1>2, <1>b
    <3> QED BY <1>0, <1>2, <1>4, <3>1, <3>2, IdKept
  <2> QED BY <2>1, <2>2
<1>6. EnvInv' /\ ConfigInv'
  BY <1>0, <1>2, RedEnvUnchanged, RedConfigUnchanged
<1>7. PriceIdsRecorded'
  <2> SUFFICES ASSUME NEW i \in RedemptionIds, Outstanding(i)',
                      redemptionIdToRedeemer'[i].priceId # 0
               PROVE  i \in pricedRedemptions'
    BY DEF PriceIdsRecorded
  <2>1. i # id
    BY <1>0, <1>2 DEF RedemptionTypeOK, NewRedeemer
  <2>2. redemptionIdToRedeemer'[i] = redemptionIdToRedeemer[i]
    BY <1>0, <1>2, <2>1 DEF RedemptionTypeOK
  <2>3. i \in pricedRedemptions
    BY <2>2 DEF RedInv, PriceIdsRecorded, Outstanding
  <2> QED BY <1>2, <2>1, <2>3
<1> QED
  BY <1>4, <1>5, <1>6, <1>7 DEF RedInv

LEMMA RequestRedemptionOffChainOK ==
  ASSUME RedInv, NEW user \in Users, NEW amount \in RedemptionInputs,
         RequestRedemptionServicedOffchain(user, amount)
  PROVE  RedInv'
<1>0. /\ EnvInv /\ ConfigInv /\ RedemptionTypeOK
      /\ \A i \in RedemptionIds : IdInv(i)
  BY DEF RedInv
<1>a. redemptionRequestCounter \in RedemptionIds
  BY <1>0, RedemptionAssumption
     DEF RequestRedemptionServicedOffchain, RedemptionTypeOK, RedemptionIds
<1>b. PICK id \in RedemptionIds : id = redemptionRequestCounter
  BY <1>a
<1> DEFINE request == [kind |-> "offChain", user |-> user, amount |-> amount,
                       replaced |-> 0]
<1>1. id \in Nat /\ request \in RedemptionRequest
  BY RedemptionAssumption DEF RedemptionIds, RedemptionRequest
<1>2. /\ redemptionRequestCounter' = id + 1
      /\ redemptionRequests' = [redemptionRequests EXCEPT ![id] = request]
      /\ UNCHANGED <<environment, config, redemptionIdToRedeemer, recreated, owed,
                     payments, redeemed, paid, redemptionFees, pricedRedemptions>>
  BY <1>b DEF RequestRedemptionServicedOffchain, NextRedemptionId, RecordRequest
<1>3. /\ IdInv(id)
      /\ redemptionRequests[id].replaced = 0 /\ RequestedOnChain(id) = 0
  BY <1>0, <1>1, <1>b DEF IdInv, SlotInv, NoRequest, RequestedOnChain
<1>4. RedemptionTypeOK'
  <2> HIDE DEF request
  <2>1. redemptionRequestCounter' \in 1..(MaxRedemptions + 1)
    BY <1>1, <1>2, RedemptionAssumption DEF RedemptionIds
  <2>2. redemptionRequests' \in [RedemptionIds -> RedemptionRequest]
    BY <1>0, <1>1, <1>2 DEF RedemptionTypeOK
  <2> QED BY <1>0, <1>2, <2>1, <2>2 DEF RedemptionTypeOK
<1>5. ASSUME NEW i \in RedemptionIds PROVE IdInv(i)'
  <2>1. CASE i = id
    <3>1. redemptionRequests'[id] = request
      BY <1>0, <1>2 DEF RedemptionTypeOK
    <3>2. RequestedOnChain(id)' = 0 /\ redemptionRequests'[id].replaced = 0
      BY <3>1 DEF RequestedOnChain
    <3>3. /\ (Outstanding(id)' <=> Outstanding(id)) /\ AmountBurned(id)' = AmountBurned(id)
          /\ ToPay(id)' = ToPay(id)
          /\ (NothingPaid(id)' <=> NothingPaid(id))
          /\ (WithinWorth(id)' <=> WithinWorth(id))
      BY <1>2 DEF Outstanding, AmountBurned, ToPay, NothingPaid, WithinWorth
    <3>4. SlotInv(id)'
      BY <1>1, <1>2, <1>3, <3>3 DEF SlotInv, IdInv
    <3>5. Conserved(id)'
      BY <1>2, <1>3, <3>2, <3>3 DEF Conserved, IdInv
    <3>6. PaidForEntries(id)'
      BY <1>2, <1>3, <3>2, <3>3 DEF PaidForEntries, IdInv
    <3> QED BY <1>3, <2>1, <3>3, <3>4, <3>5, <3>6 DEF IdInv
  <2>2. CASE i # id
    <3>1. redemptionRequests'[i] = redemptionRequests[i]
      BY <1>0, <1>2, <2>2 DEF RedemptionTypeOK
    <3>2. redemptionRequestCounter' >= redemptionRequestCounter
      BY <1>1, <1>2, <1>b
    <3> QED BY <1>0, <1>2, <1>4, <3>1, <3>2, IdKept
  <2> QED BY <2>1, <2>2
<1>6. EnvInv' /\ ConfigInv'
  BY <1>0, <1>2, RedEnvUnchanged, RedConfigUnchanged
<1>7. PriceIdsRecorded'
  BY <1>2 DEF RedInv, PriceIdsRecorded, Outstanding
<1> QED
  BY <1>4, <1>5, <1>6, <1>7 DEF RedInv

(* What a claim finds under an id that it does not revert for.             *)
LEMMA ClaimedEntry ==
  ASSUME RedInv, NEW id \in RedemptionIds, Redeemable(id)
  PROVE  /\ Outstanding(id)
         /\ redemptionIdToRedeemer[id].user \in Users
         /\ redemptionIdToRedeemer[id].priceId # 0
         /\ GetPrice(redemptionIdToRedeemer[id].priceId) \in {0} \cup PriceValues
         /\ AmountBurned(id) \in Nat
         /\ CollateralDue(id) \in Nat /\ FeeDue(id) \in Nat
         /\ CollateralDuePostFees(id) \in Nat
         /\ CollateralDuePostFees(id) + FeeDue(id) = CollateralDue(id)
<1> DEFINE price == GetPrice(redemptionIdToRedeemer[id].priceId)
<1>1. redemptionIdToRedeemer[id] \in Redeemer
  BY DEF RedInv, RedemptionTypeOK
<1>2. /\ redemptionIdToRedeemer[id].user \in Users
      /\ redemptionIdToRedeemer[id].priceId \in PriceIds
      /\ redemptionIdToRedeemer[id].priceId # 0
      /\ PriceAvailable
  BY <1>1 DEF Redeemable, Payable, Redeemer
<1>3. Outstanding(id)
  BY <1>2, ZeroIsNoUser DEF Outstanding
<1>4. price \in {0} \cup PriceValues
  BY <1>2 DEF RedInv, EnvInv, PricesSubmitted, GetPrice, PriceAvailable
<1> HIDE DEF price
<1>5. price \in Nat
  BY <1>4, PricesNat
<1>6. AmountBurned(id) \in Nat
  BY <1>1 DEF AmountBurned, Redeemer
<1>7. CollateralDue(id) \in Nat
  <2>1. CollateralDue(id) = GetRedemptionAmountForRwa(AmountBurned(id), price)
    BY DEF CollateralDue, price
  <2> QED BY <1>5, <1>6, <2>1, RedemptionAmountNat
<1>8. amounts["redemptionFee"] \in Nat /\ amounts["redemptionFee"] <= BPS_DENOMINATOR
  BY DEF RedInv, ConfigInv, ConfigTypeOK, FeesBounded, AmountNames, Fees
<1>9. FeeDue(id) \in Nat /\ FeeDue(id) <= CollateralDue(id)
  BY <1>7, <1>8, FeeAtMostAmount DEF FeeDue
<1>10. /\ CollateralDuePostFees(id) \in Nat
       /\ CollateralDuePostFees(id) + FeeDue(id) = CollateralDue(id)
  BY <1>7, <1>9 DEF CollateralDuePostFees
<1> QED
  BY <1>2, <1>3, <1>4, <1>6, <1>7, <1>9, <1>10 DEF price

LEMMA ProductDistributes ==
  ASSUME NEW a \in Nat, NEW b \in Nat, NEW c \in Nat
  PROVE  (a + b) * c = a * c + b * c
  OBVIOUS

(* Two payments within worth are within worth together.                    *)
LEMMA WorthAdds ==
  ASSUME NEW before \in Nat, NEW out \in Nat, NEW tokens \in Nat, NEW amount \in Nat,
         NEW price \in Nat,
         before * DecimalsMultiplier * PriceUnit <= tokens * price,
         out * DecimalsMultiplier * PriceUnit <= amount * price
  PROVE  (before + out) * DecimalsMultiplier * PriceUnit <= (tokens + amount) * price
<1> DEFINE scaledBefore == before * DecimalsMultiplier
           scaledOut == out * DecimalsMultiplier
<1>1. scaledBefore \in Nat /\ scaledOut \in Nat
  BY ProductNat, ScaleAssumption
<1>2. (before + out) * DecimalsMultiplier = scaledBefore + scaledOut
  BY ProductDistributes, ScaleAssumption
<1> HIDE DEF scaledBefore, scaledOut
<1>3. (scaledBefore + scaledOut) * PriceUnit
        = scaledBefore * PriceUnit + scaledOut * PriceUnit
  BY <1>1, ProductDistributes, PriceUnitAssumption
<1>4. (tokens + amount) * price = tokens * price + amount * price
  BY ProductDistributes
<1>5. /\ scaledBefore * PriceUnit <= tokens * price
      /\ scaledOut * PriceUnit <= amount * price
  BY DEF scaledBefore, scaledOut
<1>6. /\ scaledBefore * PriceUnit \in Nat /\ scaledOut * PriceUnit \in Nat
      /\ tokens * price \in Nat /\ amount * price \in Nat
  BY <1>1, ProductNat, PriceUnitAssumption
<1>7. scaledBefore * PriceUnit + scaledOut * PriceUnit <= tokens * price + amount * price
  BY <1>5, <1>6
<1> QED
  BY <1>2, <1>3, <1>4, <1>7

(* The slot and the history of one id of a claimed batch.                  *)
LEMMA ClaimedIdOK ==
  ASSUME RedInv, RedemptionTypeOK', NEW redemptionIds \in RedemptionBatches,
         ClaimRedemption(redemptionIds), NEW id \in redemptionIds
  PROVE  IdInv(id)'
<1>0. id \in RedemptionIds /\ Redeemable(id)
  BY DEF RedemptionBatches, ClaimRedemption
<1>1. /\ Outstanding(id) /\ AmountBurned(id) \in Nat
      /\ GetPrice(redemptionIdToRedeemer[id].priceId) \in {0} \cup PriceValues
      /\ CollateralDue(id) \in Nat /\ FeeDue(id) \in Nat
      /\ CollateralDuePostFees(id) \in Nat
      /\ CollateralDuePostFees(id) + FeeDue(id) = CollateralDue(id)
  BY <1>0, ClaimedEntry
<1>2. IdInv(id) /\ RedemptionTypeOK
  BY <1>0 DEF RedInv
<1>n. /\ redeemed[id] \in Nat /\ redemptionFees[id] \in Nat
      /\ payments[id] \in Nat /\ recreated[id] \in Nat
      /\ redemptionRequests[id].replaced \in Nat /\ RequestedOnChain(id) \in {0, 1}
  BY <1>0, <1>2, IdNumbers
<1>3. /\ redemptionIdToRedeemer'[id] = NoRedeemer
      /\ payments'[id] = payments[id] + 1
      /\ redeemed'[id] = redeemed[id] + AmountBurned(id)
      /\ redemptionFees'[id] = redemptionFees[id] + FeeDue(id)
      /\ UNCHANGED <<owed, recreated, redemptionRequests, redemptionRequestCounter>>
  BY <1>0 DEF ClaimRedemption, RedeemersAfterClaim
<1>4. ~Outstanding(id)' /\ AmountBurned(id)' = 0
  BY <1>3 DEF Outstanding, AmountBurned, NoRedeemer
<1>5. SlotInv(id)'
  BY <1>2, <1>3, <1>4 DEF IdInv, SlotInv
<1>6. Conserved(id)'
  BY <1>1, <1>2, <1>3, <1>4, <1>n DEF IdInv, Conserved
<1>7. PaidForEntries(id)'
  <2>1. ToPay(id) = 1 /\ ToPay(id)' = 0 /\ RequestedOnChain(id)' = RequestedOnChain(id)
    BY <1>1, <1>3, <1>4 DEF ToPay, RequestedOnChain
  <2>2. payments[id] + 1 <= RequestedOnChain(id) + recreated[id]
    BY <1>2, <2>1 DEF IdInv, PaidForEntries
  <2> QED BY <1>3, <1>n, <2>1, <2>2 DEF PaidForEntries
<1>8. WithinWorth(id)'
  <2> SUFFICES ASSUME NEW user \in Users, NEW price \in PriceValues,
                      \A p \in PriceValues : p <= price
               PROVE  (paid'[id][user] + redemptionFees'[id])
                          * DecimalsMultiplier * PriceUnit <= redeemed'[id] * price
    BY DEF WithinWorth
  <2> DEFINE used == GetPrice(redemptionIdToRedeemer[id].priceId)
             worth == AmountBurned(id) * used
             before == paid[id][user] + redemptionFees[id]
             sent == IF user = redemptionIdToRedeemer[id].user
                       THEN CollateralDuePostFees(id) ELSE 0
             out == sent + FeeDue(id)
  <2>1. price \in Nat /\ used \in Nat /\ used <= price
    <3> HIDE DEF used
    <3>1. used \in {0} \cup PriceValues
      BY <1>1 DEF used
    <3>2. price \in Nat /\ used \in Nat
      BY <3>1, PricesNat
    <3>3. CASE used = 0
      BY <3>2, <3>3
    <3>4. CASE used \in PriceValues
      BY <3>2, <3>4
    <3> QED BY <3>1, <3>2, <3>3, <3>4
  <2>2. paid[id][user] \in Nat
    BY <1>0, <1>2 DEF RedemptionTypeOK
  <2>3. before \in Nat /\ out \in Nat /\ out <= CollateralDue(id)
    BY <1>1, <1>n, <2>2
  <2>4. paid'[id][user] + redemptionFees'[id] = before + out
    <3>1. paid'[id][user] = paid[id][user] + sent
      BY <1>0, <2>2 DEF ClaimRedemption
    <3>2. sent \in Nat
      BY <1>1
    <3> QED BY <1>1, <1>3, <1>n, <2>2, <3>1, <3>2
  <2>5. CollateralDue(id) * DecimalsMultiplier * PriceUnit <= worth
    BY <1>1, <2>1, RedemptionWithinWorth DEF CollateralDue
  <2>6. worth \in Nat /\ worth <= AmountBurned(id) * price
    <3> HIDE DEF used
    <3>1. worth \in Nat
      BY <1>1, <2>1, ProductNat
    <3>2. used * AmountBurned(id) <= price * AmountBurned(id)
      BY <1>1, <2>1, ProductMonotone
    <3>3. worth <= AmountBurned(id) * price
      BY <1>1, <2>1, <3>2, SMTT(30)
    <3> QED BY <3>1, <3>3
  <2>7. before * DecimalsMultiplier * PriceUnit <= redeemed[id] * price
    BY <1>2 DEF IdInv, WithinWorth
  <2> HIDE DEF out, worth, before, sent
  <2>8. out * DecimalsMultiplier <= CollateralDue(id) * DecimalsMultiplier
    BY <1>1, <2>3, ProductMonotone, ScaleAssumption
  <2>9. out * DecimalsMultiplier \in Nat /\ CollateralDue(id) * DecimalsMultiplier \in Nat
    BY <1>1, <2>3, ProductNat, ScaleAssumption
  <2>10. out * DecimalsMultiplier * PriceUnit
          <= CollateralDue(id) * DecimalsMultiplier * PriceUnit
    BY <2>8, <2>9, ProductMonotone, PriceUnitAssumption
  <2>11. /\ out * DecimalsMultiplier * PriceUnit \in Nat
         /\ CollateralDue(id) * DecimalsMultiplier * PriceUnit \in Nat
         /\ AmountBurned(id) * price \in Nat
    BY <1>1, <2>1, <2>9, ProductNat, PriceUnitAssumption
  <2>12. out * DecimalsMultiplier * PriceUnit <= AmountBurned(id) * price
    BY <2>5, <2>6, <2>10, <2>11
  <2>13. (before + out) * DecimalsMultiplier * PriceUnit
           <= (redeemed[id] + AmountBurned(id)) * price
    BY <1>1, <1>n, <2>1, <2>3, <2>7, <2>12, WorthAdds
  <2> QED BY <1>3, <2>4, <2>13
<1> QED
  BY <1>5, <1>6, <1>7, <1>8 DEF IdInv

LEMMA ClaimRedemptionOK ==
  ASSUME RedInv, NEW redemptionIds \in RedemptionBatches, ClaimRedemption(redemptionIds)
  PROVE  RedInv'
<1>0. /\ EnvInv /\ ConfigInv /\ RedemptionTypeOK /\ PriceIdsRecorded
      /\ \A i \in RedemptionIds : IdInv(i)
      /\ redemptionIds \subseteq RedemptionIds
  BY DEF RedInv, RedemptionBatches
<1>1. ASSUME NEW id \in redemptionIds
      PROVE  /\ AmountBurned(id) \in Nat /\ FeeDue(id) \in Nat
             /\ CollateralDuePostFees(id) \in Nat
  <2>1. id \in RedemptionIds /\ Redeemable(id)
    BY <1>0 DEF ClaimRedemption
  <2> QED BY <2>1, ClaimedEntry
<1>2. RedemptionTypeOK'
  <2>1. redemptionIdToRedeemer' \in [RedemptionIds -> Redeemer]
    BY <1>0 DEF ClaimRedemption, RedeemersAfterClaim, RedemptionTypeOK, Redeemer, NoRedeemer
  <2>2. redeemed' \in [RedemptionIds -> Nat] /\ payments' \in [RedemptionIds -> Nat]
    BY <1>0, <1>1 DEF ClaimRedemption, RedemptionTypeOK
  <2>3. redemptionFees' \in [RedemptionIds -> Nat]
    BY <1>0, <1>1 DEF ClaimRedemption, RedemptionTypeOK
  <2>4. paid' \in [RedemptionIds -> [Users -> Nat]]
    <3>1. paid' = [id \in RedemptionIds |-> [user \in Users |->
            IF id \in redemptionIds /\ user = redemptionIdToRedeemer[id].user
              THEN paid[id][user] + CollateralDuePostFees(id)
              ELSE paid[id][user]]]
      BY DEF ClaimRedemption
    <3>2. ASSUME NEW id \in RedemptionIds, NEW user \in Users
          PROVE  (IF id \in redemptionIds /\ user = redemptionIdToRedeemer[id].user
                    THEN paid[id][user] + CollateralDuePostFees(id)
                    ELSE paid[id][user]) \in Nat
      BY <1>0, <1>1 DEF RedemptionTypeOK
    <3> QED BY <3>1, <3>2
  <2>5. pricedRedemptions' \subseteq RedemptionIds
    BY <1>0 DEF ClaimRedemption, RedemptionTypeOK
  <2> QED
    BY <1>0, <2>1, <2>2, <2>3, <2>4, <2>5 DEF ClaimRedemption, RedemptionTypeOK
<1>3. ASSUME NEW i \in RedemptionIds PROVE IdInv(i)'
  <2>1. CASE i \in redemptionIds
    BY <1>2, <2>1, ClaimedIdOK
  <2>2. CASE i \notin redemptionIds
    <3>1. /\ redemptionIdToRedeemer'[i] = redemptionIdToRedeemer[i]
          /\ redeemed'[i] = redeemed[i] /\ redemptionFees'[i] = redemptionFees[i]
          /\ payments'[i] = payments[i]
          /\ UNCHANGED <<owed, recreated, redemptionRequests>>
      BY <2>2 DEF ClaimRedemption, RedeemersAfterClaim
    <3>2. paid'[i] = paid[i]
      <4>1. paid'[i] = [user \in Users |-> paid[i][user]]
        BY <2>2 DEF ClaimRedemption
      <4> QED BY <1>0, <4>1 DEF RedemptionTypeOK
    <3>3. redemptionRequestCounter' >= redemptionRequestCounter
      BY <1>0, RedemptionAssumption DEF ClaimRedemption, RedemptionTypeOK
    <3> QED BY <1>0, <1>2, <3>1, <3>2, <3>3, IdKept
  <2> QED BY <2>1, <2>2
<1>4. EnvInv' /\ ConfigInv'
  BY <1>0, RedEnvUnchanged, RedConfigUnchanged DEF ClaimRedemption
<1>5. PriceIdsRecorded'
  BY <1>0 DEF ClaimRedemption, RedeemersAfterClaim, PriceIdsRecorded, Outstanding, NoRedeemer
<1> QED
  BY <1>2, <1>3, <1>4, <1>5 DEF RedInv

(* Attaching price ids touches no user and no amount, whatever the ids.    *)
LEMMA SetPriceForRedemptionsOK ==
  ASSUME RedInv, NEW caller \in Accounts, NEW redemptionIds \in RedemptionBatches,
         NEW priceIds \in [redemptionIds -> PriceIds \cup {0}],
         SetPriceIdForRedemptions(caller, redemptionIds, priceIds)
  PROVE  RedInv'
<1>0. /\ EnvInv /\ ConfigInv /\ RedemptionTypeOK /\ PriceIdsRecorded
      /\ \A i \in RedemptionIds : IdInv(i)
      /\ redemptionIds \subseteq RedemptionIds
  BY DEF RedInv, RedemptionBatches
<1>1. ASSUME NEW id \in RedemptionIds
      PROVE  /\ redemptionIdToRedeemer'[id] \in Redeemer
             /\ redemptionIdToRedeemer'[id].user = redemptionIdToRedeemer[id].user
             /\ redemptionIdToRedeemer'[id].amountRwaTokenBurned
                  = redemptionIdToRedeemer[id].amountRwaTokenBurned
             /\ redemptionIdToRedeemer'[id].priceId # 0 =>
                  redemptionIdToRedeemer[id].priceId # 0 \/ id \in pricedRedemptions'
  <2>1. redemptionIdToRedeemer[id] \in Redeemer
    BY <1>0 DEF RedemptionTypeOK
  <2>2. CASE id \in redemptionIds
    <3>1. redemptionIdToRedeemer'[id]
            = [redemptionIdToRedeemer[id] EXCEPT !.priceId = priceIds[id]]
      BY <2>2 DEF SetPriceIdForRedemptions
    <3>2. priceIds[id] \in PriceIds \cup {0}
      BY <2>2
    <3>3. redemptionIdToRedeemer'[id].priceId = priceIds[id]
      BY <2>1, <3>1 DEF Redeemer
    <3>4. priceIds[id] # 0 => id \in pricedRedemptions'
      BY <2>2 DEF SetPriceIdForRedemptions
    <3> QED BY <2>1, <3>1, <3>2, <3>3, <3>4 DEF Redeemer
  <2>3. CASE id \notin redemptionIds
    <3>1. redemptionIdToRedeemer'[id] = redemptionIdToRedeemer[id]
      BY <2>3 DEF SetPriceIdForRedemptions
    <3> QED BY <2>1, <3>1
  <2> QED BY <2>2, <2>3
<1>2. /\ UNCHANGED <<environment, config, redemptionRequestCounter, redemptionRequests,
                     recreated, owed, payments, redeemed, paid, redemptionFees>>
      /\ pricedRedemptions \subseteq pricedRedemptions'
      /\ pricedRedemptions' \subseteq RedemptionIds
  BY <1>0 DEF SetPriceIdForRedemptions, RedemptionTypeOK
<1>3. RedemptionTypeOK'
  <2>1. redemptionIdToRedeemer' \in [RedemptionIds -> Redeemer]
    BY <1>1 DEF SetPriceIdForRedemptions
  <2> QED BY <1>0, <1>2, <2>1 DEF RedemptionTypeOK
<1>4. ASSUME NEW i \in RedemptionIds PROVE IdInv(i)'
  <2>1. redemptionRequestCounter' >= redemptionRequestCounter
    BY <1>0, <1>2, RedemptionAssumption DEF RedemptionTypeOK
  <2> QED BY <1>0, <1>1, <1>2, <1>3, <2>1, IdKept
<1>5. EnvInv' /\ ConfigInv'
  BY <1>0, <1>2, RedEnvUnchanged, RedConfigUnchanged
<1>6. PriceIdsRecorded'
  BY <1>0, <1>1, <1>2 DEF PriceIdsRecorded, Outstanding
<1> QED
  BY <1>3, <1>4, <1>5, <1>6 DEF RedInv

(* A correction replaces an entry, or creates one: the first leaves the    *)
(* number of payments to come as it was, the second is counted.            *)
LEMMA OverwriteRedeemerOK ==
  ASSUME RedInv, NEW caller \in Accounts, NEW id \in RedeemerIds,
         NEW user \in RedeemerUsers, NEW amount \in RedeemerAmounts,
         NEW priceId \in PriceIds \cup {0},
         OverwriteRedeemer(caller, id, user, amount, priceId)
  PROVE  RedInv'
<1> DEFINE entry == [user |-> user, amountRwaTokenBurned |-> amount, priceId |-> priceId]
<1>0. /\ EnvInv /\ ConfigInv /\ RedemptionTypeOK /\ PriceIdsRecorded
      /\ \A i \in RedemptionIds : IdInv(i)
  BY DEF RedInv
<1>i. id \in RedemptionIds
  BY RedemptionAssumption DEF RedemptionIds
<1>1. entry \in Redeemer /\ user # ZeroAddress /\ amount \in Nat
  BY RedemptionAssumption, ZeroIsNoUser DEF Redeemer
<1>2. /\ redemptionIdToRedeemer' = [redemptionIdToRedeemer EXCEPT ![id] = entry]
      /\ recreated' = [recreated EXCEPT ![id] = TimesRecreated(id)]
      /\ owed' = [owed EXCEPT ![id] = (@ - AmountBurned(id)) + amount]
      /\ pricedRedemptions' = IF priceId = 0 THEN pricedRedemptions \ {id}
                                             ELSE pricedRedemptions \cup {id}
      /\ UNCHANGED <<environment, config, redemptionRequestCounter, redemptionRequests,
                     payments, redeemed, paid, redemptionFees>>
  BY DEF OverwriteRedeemer
<1>3. /\ IdInv(id)
      /\ AmountBurned(id) \in Nat /\ owed[id] \in Nat /\ redeemed[id] \in Nat
      /\ redemptionRequests[id].replaced \in Nat
      /\ payments[id] \in Nat /\ recreated[id] \in Nat
      /\ RequestedOnChain(id) \in {0, 1}
  BY <1>0, <1>i, IdNumbers
<1>4. /\ redemptionIdToRedeemer'[id] = entry
      /\ owed'[id] = redeemed[id] + amount + redemptionRequests[id].replaced
      /\ recreated'[id] = TimesRecreated(id) /\ TimesRecreated(id) \in Nat
  <2>1. owed[id] = redeemed[id] + AmountBurned(id) + redemptionRequests[id].replaced
    BY <1>3 DEF IdInv, Conserved
  <2>2. (owed[id] - AmountBurned(id)) + amount
          = redeemed[id] + amount + redemptionRequests[id].replaced
    BY <1>1, <1>3, <2>1
  <2>3. TimesRecreated(id) \in Nat
    BY <1>3 DEF TimesRecreated
  <2> QED BY <1>0, <1>i, <1>2, <2>2, <2>3 DEF RedemptionTypeOK
<1>5. RedemptionTypeOK'
  <2> HIDE DEF entry
  <2>1. redemptionIdToRedeemer' \in [RedemptionIds -> Redeemer]
    BY <1>0, <1>1, <1>2 DEF RedemptionTypeOK
  <2>2. owed' \in [RedemptionIds -> Nat]
    <3>1. owed'[id] \in Nat
      BY <1>1, <1>3, <1>4
    <3>2. owed' = [owed EXCEPT ![id] = owed'[id]]
      BY <1>0, <1>i, <1>2 DEF RedemptionTypeOK
    <3> QED BY <1>0, <3>1, <3>2 DEF RedemptionTypeOK
  <2>3. recreated' \in [RedemptionIds -> Nat]
    BY <1>0, <1>2, <1>4 DEF RedemptionTypeOK
  <2>4. pricedRedemptions' \subseteq RedemptionIds
    BY <1>0, <1>i, <1>2 DEF RedemptionTypeOK
  <2> QED BY <1>0, <1>2, <2>1, <2>2, <2>3, <2>4 DEF RedemptionTypeOK
<1>6. ASSUME NEW i \in RedemptionIds PROVE IdInv(i)'
  <2>1. CASE i = id
    <3>1. Outstanding(id)' /\ AmountBurned(id)' = amount
      BY <1>1, <1>4 DEF Outstanding, AmountBurned
    <3>2. (NothingPaid(id)' <=> NothingPaid(id)) /\ (WithinWorth(id)' <=> WithinWorth(id))
      BY <1>2 DEF NothingPaid, WithinWorth
    <3>3. SlotInv(id)'
      BY <1>2, <1>3, <3>1 DEF SlotInv, IdInv
    <3>4. recreated'[id] >= recreated[id]
      BY <1>3, <1>4 DEF TimesRecreated
    <3>5. Conserved(id)'
      <4>1. redemptionRequests[id].replaced > 0 => recreated'[id] > 0
        BY <1>3, <1>4, <3>4 DEF IdInv, Conserved
      <4> QED BY <1>2, <1>4, <3>1, <4>1 DEF Conserved
    <3>6. PaidForEntries(id)'
      <4>1. ToPay(id)' = 1 /\ RequestedOnChain(id)' = RequestedOnChain(id)
        BY <1>2, <3>1 DEF ToPay, RequestedOnChain
      <4>2. payments[id] + ToPay(id) <= RequestedOnChain(id) + recreated[id]
        BY <1>3 DEF IdInv, PaidForEntries
      <4>3. payments[id] + 1 <= RequestedOnChain(id) + recreated'[id]
        BY <1>3, <1>4, <4>2 DEF TimesRecreated, ToPay
      <4>4. payments[id] = 0 => NothingPaid(id)
        BY <1>3 DEF IdInv, PaidForEntries
      <4> QED BY <1>2, <3>2, <4>1, <4>3, <4>4 DEF PaidForEntries
    <3> QED BY <1>3, <2>1, <3>2, <3>3, <3>5, <3>6 DEF IdInv
  <2>2. CASE i # id
    <3>1. /\ redemptionIdToRedeemer'[i] = redemptionIdToRedeemer[i]
          /\ owed'[i] = owed[i] /\ recreated'[i] = recreated[i]
      BY <1>0, <1>2, <2>2 DEF RedemptionTypeOK
    <3>2. redemptionRequestCounter' >= redemptionRequestCounter
      BY <1>0, <1>2, RedemptionAssumption DEF RedemptionTypeOK
    <3> QED BY <1>0, <1>2, <1>5, <3>1, <3>2, IdKept
  <2> QED BY <2>1, <2>2
<1>7. EnvInv' /\ ConfigInv'
  BY <1>0, <1>2, RedEnvUnchanged, RedConfigUnchanged
<1>8. PriceIdsRecorded'
  <2> SUFFICES ASSUME NEW i \in RedemptionIds, Outstanding(i)',
                      redemptionIdToRedeemer'[i].priceId # 0
               PROVE  i \in pricedRedemptions'
    BY DEF PriceIdsRecorded
  <2>1. CASE i = id
    BY <1>2, <1>4, <2>1
  <2>2. CASE i # id
    <3>1. redemptionIdToRedeemer'[i] = redemptionIdToRedeemer[i]
      BY <1>0, <1>2, <2>2 DEF RedemptionTypeOK
    <3>2. i \in pricedRedemptions
      BY <1>0, <3>1 DEF PriceIdsRecorded, Outstanding
    <3> QED BY <1>2, <2>2, <3>2
  <2> QED BY <2>1, <2>2
<1> QED
  BY <1>5, <1>6, <1>7, <1>8 DEF RedInv

(* Setters and the environment leave slots and history alone.              *)
LEMMA RedemptionsUnchanged ==
  ASSUME RedInv, EnvInv', ConfigInv', UNCHANGED <<redemptions, redemptionHistory>>
  PROVE  RedInv'
<1>1. UNCHANGED <<redemptionIdToRedeemer, redemptionRequestCounter,
                  redemptionRequests, recreated, owed, payments, redeemed, paid,
                  redemptionFees, pricedRedemptions>>
  BY DEF redemptions, redemptionHistory
<1>2. RedemptionTypeOK'
  BY <1>1 DEF RedInv, RedemptionTypeOK
<1>3. redemptionRequestCounter' >= redemptionRequestCounter
  BY <1>1, RedemptionAssumption DEF RedInv, RedemptionTypeOK
<1>4. ASSUME NEW id \in RedemptionIds PROVE IdInv(id)'
  BY <1>1, <1>2, <1>3, IdKept DEF RedInv
<1>5. PriceIdsRecorded'
  BY <1>1 DEF RedInv, PriceIdsRecorded, Outstanding
<1> QED
  BY <1>2, <1>4, <1>5 DEF RedInv

LEMMA RedInvInductive == RedInv /\ [RedNext]_redVars => RedInv'
<1> SUFFICES ASSUME RedInv, [RedNext]_redVars PROVE RedInv'
  OBVIOUS
<1>0. EnvInv /\ ConfigInv
  BY DEF RedInv
<1>1. CASE RedemptionRequestStep
  BY <1>1, RequestRedemptionOK, RequestRedemptionOffChainOK DEF RedemptionRequestStep
<1>2. CASE RedemptionClaimStep
  BY <1>2, ClaimRedemptionOK DEF RedemptionClaimStep
<1>3. CASE RedemptionOperatorStep
  <2>1. PICK caller \in Accounts :
          RedemptionPriceStep(caller) \/ OverwriteRedeemerStep(caller)
    BY <1>3 DEF RedemptionOperatorStep
  <2>2. CASE RedemptionPriceStep(caller)
    <3>1. PICK redemptionIds \in RedemptionBatches :
            \E priceIds \in [redemptionIds -> PriceIds \cup {0}] :
              SetPriceIdForRedemptions(caller, redemptionIds, priceIds)
      BY <2>2 DEF RedemptionPriceStep
    <3> QED BY <3>1, SetPriceForRedemptionsOK
  <2>3. CASE OverwriteRedeemerStep(caller)
    BY <2>3, OverwriteRedeemerOK DEF OverwriteRedeemerStep
  <2> QED BY <2>1, <2>2, <2>3
<1>4. CASE ConfigNext /\ UNCHANGED <<environment, redemptions, redemptionHistory>>
  <2>1. ConfigInv' /\ EnvInv'
    BY <1>0, <1>4, ConfigStep, RedEnvUnchanged
  <2> QED BY <1>4, <2>1, RedemptionsUnchanged
<1>5. CASE EnvNext /\ UNCHANGED <<config, redemptions, redemptionHistory>>
  <2>1. ConfigInv' /\ EnvInv'
    BY <1>0, <1>5, EnvStep, RedConfigUnchanged
  <2> QED BY <1>5, <2>1, RedemptionsUnchanged
<1>6. CASE UNCHANGED redVars
  <2>1. ConfigInv' /\ EnvInv'
    BY <1>0, <1>6, RedEnvUnchanged, RedConfigUnchanged DEF redVars
  <2> QED BY <1>6, <2>1, RedemptionsUnchanged DEF redVars
<1> QED
  BY <1>1, <1>2, <1>3, <1>4, <1>5, <1>6 DEF RedNext

THEOREM RedInvariance == RedSpec => []RedInv
<1>1. RedInit => RedInv
  BY RedInitOK
<1>2. RedInv /\ [RedNext]_redVars => RedInv'
  BY RedInvInductive
<1> QED
  BY <1>1, <1>2, PTL DEF RedSpec

(* Type correctness of the redemption state.                               *)
THEOREM RedTypeCorrect == RedSpec => []RedTypeOK
<1>1. RedInv => RedTypeOK
  BY RedInvImplies
<1> QED
  BY <1>1, RedInvariance, PTL

(* Every token owed under an id, burned on chain or as corrected, is       *)
(* outstanding or redeemed exactly once, or stood in an entry that the     *)
(* manager wrote ahead of the request which replaced it.                   *)
THEOREM RedemptionConservationHolds == RedSpec => []RedemptionConservation
<1>1. RedInv => RedemptionConservation
  BY RedInvImplies
<1> QED
  BY <1>1, RedInvariance, PTL

(* An id is paid at most once for its on-chain request and once more for   *)
(* each correction that found no entry under it.                           *)
THEOREM PaidOnceHolds == RedSpec => []PaidOnce
<1>1. RedInv => PaidOnce
  BY RedInvImplies
<1> QED
  BY <1>1, RedInvariance, PTL

(* A redemption serviced off chain is never paid on chain, even if its id  *)
(* is priced, unless the manager writes an entry for it.                   *)
THEOREM OffChainNeverPaidHolds == RedSpec => []OffChainNeverPaid
<1>1. RedInv => OffChainNeverPaid
  BY RedInvImplies
<1> QED
  BY <1>1, RedInvariance, PTL

(* What leaves assetSender is worth no more than the tokens redeemed.      *)
THEOREM PaidWithinWorthHolds == RedSpec => []PaidWithinWorth
<1>1. RedInv => PaidWithinWorth
  BY RedInvImplies
<1> QED
  BY <1>1, RedInvariance, PTL

-----------------------------------------------------------------------------

(* Nothing but a claim pays, or empties the slot of an outstanding id.     *)
LEMMA OnlyClaimsSettle ==
  ASSUME RedInv, [RedNext]_redVars, ~RedemptionClaimStep
  PROVE  /\ paid' = paid
         /\ \A id \in RedemptionIds : Outstanding(id) => Outstanding(id)'
<1>0. redemptionIdToRedeemer \in [RedemptionIds -> Redeemer]
  BY DEF RedInv, RedemptionTypeOK
<1>1. CASE RedemptionRequestStep
  <2>1. PICK user \in Users, amount \in RedemptionInputs :
          \/ RequestRedemption(user, amount)
          \/ RequestRedemptionServicedOffchain(user, amount)
    BY <1>1 DEF RedemptionRequestStep
  <2>2. CASE RequestRedemption(user, amount)
    <3>1. redemptionIdToRedeemer' = [redemptionIdToRedeemer EXCEPT
            ![redemptionRequestCounter] = NewRedeemer(redemptionRequestCounter, user, amount)]
      BY <2>2 DEF RequestRedemption
    <3>2. NewRedeemer(redemptionRequestCounter, user, amount).user # ZeroAddress
      BY ZeroIsNoUser DEF NewRedeemer
    <3> QED BY <1>0, <2>2, <3>1, <3>2 DEF RequestRedemption, Outstanding
  <2>3. CASE RequestRedemptionServicedOffchain(user, amount)
    BY <2>3 DEF RequestRedemptionServicedOffchain, Outstanding
  <2> QED BY <2>1, <2>2, <2>3
<1>2. CASE RedemptionOperatorStep
  <2>1. PICK caller \in Accounts :
          RedemptionPriceStep(caller) \/ OverwriteRedeemerStep(caller)
    BY <1>2 DEF RedemptionOperatorStep
  <2>2. CASE RedemptionPriceStep(caller)
    <3>1. PICK redemptionIds \in RedemptionBatches :
            \E priceIds \in [redemptionIds -> PriceIds \cup {0}] :
              SetPriceIdForRedemptions(caller, redemptionIds, priceIds)
      BY <2>2 DEF RedemptionPriceStep
    <3>2. PICK priceIds \in [redemptionIds -> PriceIds \cup {0}] :
              SetPriceIdForRedemptions(caller, redemptionIds, priceIds)
      BY <3>1
    <3>3. ASSUME NEW id \in RedemptionIds, Outstanding(id) PROVE Outstanding(id)'
      <4>1. redemptionIdToRedeemer'[id].user = redemptionIdToRedeemer[id].user
        BY <1>0, <3>2 DEF SetPriceIdForRedemptions, Redeemer
      <4> QED BY <3>3, <4>1 DEF Outstanding
    <3> QED BY <3>2, <3>3 DEF SetPriceIdForRedemptions
  <2>3. CASE OverwriteRedeemerStep(caller)
    BY <1>0, <2>3, RedemptionAssumption, ZeroIsNoUser
       DEF OverwriteRedeemerStep, OverwriteRedeemer, Outstanding
  <2> QED BY <2>1, <2>2, <2>3
<1>3. CASE UNCHANGED <<redemptions, redemptionHistory>>
  BY <1>3 DEF redemptions, redemptionHistory, Outstanding
<1> QED
  BY <1>1, <1>2, <1>3 DEF RedNext, redVars

(* A price id put on an id beforehand does not survive the request: what   *)
(* is claimed was priced while it was outstanding.                         *)
THEOREM PricedAfterRequestHolds == RedSpec => PricedAfterRequest
<1>1. ASSUME RedInv, [RedNext]_redVars, NEW id \in RedemptionIds,
             Outstanding(id), ~Outstanding(id)'
      PROVE  id \in pricedRedemptions
  <2>1. PICK redemptionIds \in RedemptionBatches : ClaimRedemption(redemptionIds)
    BY <1>1, OnlyClaimsSettle DEF RedemptionClaimStep
  <2>2. id \in redemptionIds
    BY <1>1, <2>1 DEF ClaimRedemption, RedeemersAfterClaim, Outstanding
  <2>3. redemptionIdToRedeemer[id].priceId # 0
    BY <2>1, <2>2 DEF ClaimRedemption, Redeemable
  <2> QED BY <1>1, <2>3 DEF RedInv, PriceIdsRecorded
<1>2. RedInv /\ [RedNext]_redVars =>
        [\A id \in RedemptionIds :
           Outstanding(id) /\ ~Outstanding(id)' => id \in pricedRedemptions]_redVars
  BY <1>1
<1> QED
  BY <1>2, RedInvariance, PTL DEF RedSpec, PricedAfterRequest

(* Collateral goes to the redeemer on record and to nobody the hub's       *)
(* blocklist names at that moment, in batches of any size.                 *)
THEOREM PayoutGoesToRedeemerHolds == RedSpec => PayoutGoesToRedeemer
<1>1. ASSUME RedInv, [RedNext]_redVars, NEW id \in RedemptionIds, NEW user \in Users,
             paid'[id][user] # paid[id][user]
      PROVE  /\ redemptionIdToRedeemer[id].user = user
             /\ user \notin blocked[pointers["blocklist"]]
             /\ ~Outstanding(id)'
  <2>1. PICK redemptionIds \in RedemptionBatches : ClaimRedemption(redemptionIds)
    BY <1>1, OnlyClaimsSettle DEF RedemptionClaimStep
  <2>2. id \in redemptionIds /\ user = redemptionIdToRedeemer[id].user
    BY <1>1, <2>1 DEF ClaimRedemption
  <2>3. user \notin blocked[pointers["blocklist"]]
    BY <2>1, <2>2 DEF ClaimRedemption, Redeemable, Restricted
  <2>4. ~Outstanding(id)'
    BY <2>1, <2>2 DEF ClaimRedemption, RedeemersAfterClaim, Outstanding, NoRedeemer
  <2> QED BY <2>2, <2>3, <2>4
<1>2. RedInv /\ [RedNext]_redVars =>
        [\A id \in RedemptionIds, user \in Users :
           paid'[id][user] # paid[id][user] =>
             /\ redemptionIdToRedeemer[id].user = user
             /\ user \notin blocked[pointers["blocklist"]]
             /\ ~Outstanding(id)']_redVars
  BY <1>1
<1> QED
  BY <1>2, RedInvariance, PTL DEF RedSpec, PayoutGoesToRedeemer

=============================================================================
