------------------------ MODULE SubscriptionsProofs ------------------------
(***************************************************************************)
(* The subscription properties, for every set of users, ids, amounts,      *)
(* prices and operators, whatever ids the relayer and the manager choose.  *)
(* SubInv is inductive; conservation and the terms of a pending deposit    *)
(* need one fact more, FreshSlots: the counter finds an entry only under   *)
(* an id that was taken early.                                             *)
(***************************************************************************)
EXTENDS Subscriptions, HubConfigProofs

(* The parts of SubInv that the deposits and their history carry.          *)
DepositInv ==
  /\ DepositTypeOK
  /\ EmptySlots
  /\ Authorised
  /\ NeverOverSettled
  /\ MintedWithinWorth

LEMMA SubInvParts ==
  /\ SubInv <=> EnvInv /\ ConfigInv /\ DepositInv
  /\ SubInv' <=> EnvInv' /\ ConfigInv' /\ DepositInv'
  BY DEF SubInv, SubTypeOK, EnvInv, ConfigInv, DepositInv

LEMMA EnvUnchanged == EnvInv /\ UNCHANGED environment => EnvInv'
  BY DEF EnvInv, EnvTypeOK, PricesSubmitted, environment

LEMMA ConfigUnchanged == ConfigInv /\ UNCHANGED config => ConfigInv'
  BY DEF ConfigInv, ConfigTypeOK, FeesBounded, config

LEMMA DepositUnchanged ==
  DepositInv /\ UNCHANGED <<deposits, history>> => DepositInv'
  BY DEF DepositInv, DepositTypeOK, EmptySlots, Authorised, NeverOverSettled,
         MintedWithinWorth, Pending, Amount, deposits, history

LEMMA IdFacts ==
  /\ DepositIds \subseteq Nat
  /\ OnChainIds \subseteq DepositIds
  /\ OffChainIds \subseteq DepositIds
  /\ Users \cap {ZeroAddress} = {}
  BY SubscriptionAssumption, EnvironmentAssumption DEF DepositIds, OnChainIds

LEMMA SubInitOK == SubInit => SubInv /\ FreshSlots /\ Conservation
<1> SUFFICES ASSUME SubInit PROVE SubInv /\ FreshSlots /\ Conservation
  OBVIOUS
<1>1. EnvInv /\ ConfigInv
  BY EnvInitOK, ConfigInitOK DEF SubInit
<1>2. DepositTypeOK
  BY SubscriptionAssumption, EnvironmentAssumption
     DEF SubInit, DepositTypeOK, Depositor, NoDepositor
<1>3. EmptySlots /\ FreshSlots
  BY IdFacts DEF SubInit, EmptySlots, FreshSlots, Pending, NoDepositor
<1>4. Authorised
  BY DEF SubInit, Authorised, NoDepositor
<1>5. NeverOverSettled /\ Conservation
  BY DEF SubInit, NeverOverSettled, Conservation, Amount, NoDepositor
<1>6. MintedWithinWorth
  <2> SUFFICES ASSUME NEW id \in DepositIds, NEW user \in Users,
                      NEW price \in PriceValues \ {0}
               PROVE  minted[id][user] * price <= ScaleUp(settled[id]) * PriceUnit
    BY DEF MintedWithinWorth
  <2>1. minted[id][user] = 0 /\ settled[id] = 0
    BY DEF SubInit
  <2>2. price \in Nat
    BY EnvironmentAssumption
  <2> QED
    BY <2>1, <2>2, ScaleAssumption, PriceUnitAssumption DEF ScaleUp
<1> QED
  BY <1>1, <1>2, <1>3, <1>4, <1>5, <1>6, SubInvParts DEF DepositInv

(* Both kinds of request write a fresh entry and credit it.                *)
LEMMA RegisterOK ==
  ASSUME DepositInv, NEW id \in DepositIds, NEW user \in Users, NEW amount \in Nat,
         Register(id, user, amount),
         UNCHANGED <<depositIdToClaimableTimestamp, recreatedDeposits, settled, minted,
                     released>>,
         subscriptionRequestCounter' \in 1..(MaxSubscriptions + 1),
         feesPaid' \in [DepositIds -> Nat]
  PROVE  DepositInv'
<1> DEFINE entry == [user |-> user, amountDepositedMinusFees |-> amount, priceId |-> 0]
<1>1. entry \in Depositor
  BY DEF Depositor
<1>2. depositIdToDepositor' = [depositIdToDepositor EXCEPT ![id] = entry]
  BY DEF Register
<1>3. /\ credited' = [credited EXCEPT ![id] = @ + amount]
      /\ replaced' = [replaced EXCEPT ![id] = @ + Amount(id)]
      /\ priced' = priced \ {id}
  BY DEF Register
<1>4. DepositTypeOK'
  <2>1. Amount(id) \in Nat
    BY DEF DepositInv, DepositTypeOK, Amount, Depositor
  <2>2. /\ credited' \in [DepositIds -> Nat]
        /\ replaced' \in [DepositIds -> Nat]
    BY <1>3, <2>1 DEF DepositInv, DepositTypeOK
  <2>3. depositIdToDepositor' \in [DepositIds -> Depositor]
    BY <1>1, <1>2 DEF DepositInv, DepositTypeOK
  <2> QED BY <1>3, <2>2, <2>3 DEF DepositInv, DepositTypeOK
<1>5. EmptySlots'
  BY <1>2, IdFacts DEF DepositInv, DepositTypeOK, EmptySlots, Pending
<1>6. Authorised'
  BY <1>2, <1>3 DEF DepositInv, DepositTypeOK, Authorised
<1>7. NeverOverSettled'
  <2> SUFFICES ASSUME NEW i \in DepositIds
               PROVE  credited'[i] >= settled'[i] + Amount(i)'
    BY DEF NeverOverSettled
  <2>1. /\ credited[i] \in Nat /\ settled[i] \in Nat /\ Amount(i) \in Nat
        /\ credited[i] >= settled[i] + Amount(i)
    BY DEF DepositInv, DepositTypeOK, NeverOverSettled, Amount, Depositor
  <2>2. CASE i = id
    <3>1. credited'[i] = credited[i] + amount /\ Amount(i)' = amount
      BY <1>2, <1>3, <2>2 DEF Amount, DepositInv, DepositTypeOK
    <3> QED BY <2>1, <3>1
  <2>3. CASE i # id
    BY <1>2, <1>3, <2>1, <2>3 DEF Amount, DepositInv, DepositTypeOK
  <2> QED BY <2>2, <2>3
<1>8. MintedWithinWorth'
  BY DEF DepositInv, MintedWithinWorth
<1> QED
  BY <1>4, <1>5, <1>6, <1>7, <1>8 DEF DepositInv

LEMMA FeeFacts ==
  ASSUME ConfigInv, NEW amount \in Nat
  PROVE  /\ GetMintFees(amount, amounts["mintFee"]) \in Nat
         /\ amount - GetMintFees(amount, amounts["mintFee"]) \in Nat
<1>1. /\ amounts["mintFee"] \in Nat
      /\ amounts["mintFee"] <= BPS_DENOMINATOR
  BY DEF ConfigInv, ConfigTypeOK, FeesBounded, AmountNames, Fees
<1> QED
  BY <1>1, FeeAtMostAmount

LEMMA RequestOK ==
  ASSUME SubInv, NEW user \in Users, NEW amount \in DepositInputs,
         RequestSubscription(user, amount)
  PROVE  SubInv'
<1>0. EnvInv /\ ConfigInv /\ DepositInv
  BY SubInvParts
<1>1. amount \in Nat
  BY SubscriptionAssumption
<1> DEFINE id == subscriptionRequestCounter
           fees == GetMintFees(amount, amounts["mintFee"])
<1>2. fees \in Nat /\ amount - fees \in Nat
  BY <1>0, <1>1, FeeFacts
<1>3. id \in OnChainIds /\ id \in DepositIds
  BY <1>0, IdFacts, SubscriptionAssumption
     DEF RequestSubscription, DepositInv, DepositTypeOK, OnChainIds
<1>4. subscriptionRequestCounter' \in 1..(MaxSubscriptions + 1)
  BY <1>0, SubscriptionAssumption DEF RequestSubscription, DepositInv, DepositTypeOK
<1>5. feesPaid' \in [DepositIds -> Nat]
  <2>1. feesPaid' = [feesPaid EXCEPT ![id] = @ + fees]
    BY DEF RequestSubscription
  <2> HIDE DEF fees
  <2> QED BY <1>0, <1>2, <1>3, <2>1 DEF DepositInv, DepositTypeOK
<1>6. Register(id, user, amount - fees)
  BY DEF RequestSubscription
<1>7. UNCHANGED <<depositIdToClaimableTimestamp, recreatedDeposits, settled, minted,
                  released>>
  BY DEF RequestSubscription
<1>8. DepositInv'
  <2> HIDE DEF id, fees
  <2> QED BY <1>0, <1>2, <1>3, <1>4, <1>5, <1>6, <1>7, RegisterOK
<1>9. EnvInv' /\ ConfigInv'
  BY <1>0, EnvUnchanged, ConfigUnchanged DEF RequestSubscription
<1> QED
  BY <1>8, <1>9, SubInvParts

LEMMA RequestOffChainOK ==
  ASSUME SubInv, NEW caller \in Accounts, NEW user \in Users,
         NEW amount \in DepositInputs, NEW id \in OffChainIds,
         RequestSubscriptionServicedOffchain(caller, user, amount, id)
  PROVE  SubInv'
<1>0. EnvInv /\ ConfigInv /\ DepositInv
  BY SubInvParts
<1>1. amount \in Nat
  BY SubscriptionAssumption
<1> DEFINE fees == GetMintFees(amount, amounts["mintFee"])
<1>2. amount - fees \in Nat
  BY <1>0, <1>1, FeeFacts
<1>3. /\ Register(id, user, amount - fees)
      /\ UNCHANGED <<environment, config, depositIdToClaimableTimestamp,
                     subscriptionRequestCounter, recreatedDeposits, feesPaid, settled,
                     minted, released>>
  BY DEF RequestSubscriptionServicedOffchain
<1>4. DepositInv'
  <2>1. /\ subscriptionRequestCounter' \in 1..(MaxSubscriptions + 1)
        /\ feesPaid' \in [DepositIds -> Nat]
    BY <1>0, <1>3 DEF DepositInv, DepositTypeOK
  <2>2. id \in DepositIds
    BY IdFacts
  <2> HIDE DEF fees
  <2> QED BY <1>0, <1>2, <1>3, <2>1, <2>2, RegisterOK
<1> QED
  BY <1>0, <1>3, <1>4, EnvUnchanged, ConfigUnchanged, SubInvParts

(* A claim at price p mints at most the worth of the amount at any price   *)
(* that p is not below.                                                    *)
LEMMA OwedWithinWorth ==
  ASSUME NEW amount \in Nat, NEW used \in Nat \ {0}, NEW price \in Nat, price <= used,
         NEW before \in Nat, NEW soFar \in Nat,
         before * price <= ScaleUp(soFar) * PriceUnit
  PROVE  (before + GetMintAmountForPrice(amount, used)) * price
           <= ScaleUp(soFar + amount) * PriceUnit
<1> DEFINE owed == GetMintAmountForPrice(amount, used)
<1>1. /\ owed \in Nat
      /\ owed * used <= ScaleUp(amount) * PriceUnit
  BY MintWorthAtMostDeposit
<1>2. owed * price <= owed * used
  <2> HIDE DEF owed
  <2> QED BY <1>1, SMTT(30)
<1>3. /\ ScaleUp(amount) \in Nat /\ ScaleUp(soFar) \in Nat
      /\ ScaleUp(soFar + amount) = ScaleUp(soFar) + ScaleUp(amount)
  BY ScaleAssumption, SMTT(30) DEF ScaleUp
<1>4. /\ ScaleUp(amount) * PriceUnit \in Nat
      /\ ScaleUp(soFar) * PriceUnit \in Nat
      /\ ScaleUp(soFar + amount) * PriceUnit
           = ScaleUp(soFar) * PriceUnit + ScaleUp(amount) * PriceUnit
  BY <1>3, PriceUnitAssumption, SMTT(30)
<1>5. /\ before * price \in Nat /\ owed * price \in Nat /\ owed * used \in Nat
      /\ (before + owed) * price = before * price + owed * price
  <2> HIDE DEF owed
  <2> QED BY <1>1, SMTT(30)
<1> HIDE DEF owed
<1> QED
  BY <1>1, <1>2, <1>4, <1>5 DEF owed

LEMMA ClaimOK ==
  ASSUME SubInv, NEW depositIds \in Batches, ClaimMint(depositIds)
  PROVE  SubInv'
<1>0. EnvInv /\ ConfigInv /\ DepositInv
  BY SubInvParts
<1>1. depositIds \subseteq DepositIds
  BY DEF Batches
<1>2. \A id \in depositIds :
        /\ depositIdToDepositor[id].priceId \in PriceIds
        /\ GetPrice(depositIdToDepositor[id].priceId) \in PriceValues \ {0}
        /\ Amount(id) \in Nat
        /\ RwaOwed(id) \in Nat
  <2> TAKE id \in depositIds
  <2>1. Claimable(id)
    BY DEF ClaimMint
  <2>2. /\ depositIdToDepositor[id].priceId \in PriceIds
        /\ Amount(id) \in Nat
    BY <1>0, <1>1, <2>1 DEF Claimable, DepositInv, DepositTypeOK, Depositor, Amount
  <2>3. GetPrice(depositIdToDepositor[id].priceId) \in PriceValues \ {0}
    BY <1>0, <2>1, <2>2 DEF Claimable, PriceAvailable, GetPrice, EnvInv, PricesSubmitted
  <2>4. RwaOwed(id) \in Nat
    BY <2>2, <2>3, MintWorthAtMostDeposit, EnvironmentAssumption DEF RwaOwed
  <2> QED BY <2>2, <2>3, <2>4
<1>3. DepositTypeOK'
  <2>1. depositIdToDepositor' \in [DepositIds -> Depositor]
    BY <1>0 DEF ClaimMint, EntriesAfterClaim, DepositInv, DepositTypeOK, Depositor, NoDepositor
  <2>2. depositIdToClaimableTimestamp' \in [DepositIds -> 0..MaxTime]
    BY <1>0, EnvironmentAssumption DEF ClaimMint, TimestampsAfterClaim, DepositInv, DepositTypeOK
  <2>3. settled' \in [DepositIds -> Nat]
    BY <1>0, <1>2 DEF ClaimMint, DepositInv, DepositTypeOK
  <2>4. minted' \in [DepositIds -> [Users -> Nat]]
    BY <1>0, <1>2 DEF ClaimMint, DepositInv, DepositTypeOK
  <2> QED
    BY <1>0, <2>1, <2>2, <2>3, <2>4 DEF ClaimMint, DepositInv, DepositTypeOK
<1>4. EmptySlots'
  BY <1>0, SMTT(30) DEF ClaimMint, EntriesAfterClaim, DepositInv, EmptySlots, Pending
<1>5. Authorised'
  BY <1>0 DEF ClaimMint, EntriesAfterClaim, TimestampsAfterClaim, DepositInv, Authorised,
              NoDepositor
<1>6. NeverOverSettled'
  <2> SUFFICES ASSUME NEW id \in DepositIds
               PROVE  credited'[id] >= settled'[id] + Amount(id)'
    BY DEF NeverOverSettled
  <2>1. /\ credited[id] \in Nat /\ settled[id] \in Nat /\ Amount(id) \in Nat
        /\ credited[id] >= settled[id] + Amount(id)
    BY <1>0 DEF DepositInv, DepositTypeOK, NeverOverSettled, Amount, Depositor
  <2>2. CASE id \in depositIds
    <3>1. Amount(id)' = 0 /\ settled'[id] = settled[id] + Amount(id)
      BY <2>2 DEF ClaimMint, EntriesAfterClaim, Amount, NoDepositor
    <3> QED BY <2>1, <3>1 DEF ClaimMint
  <2>3. CASE id \notin depositIds
    BY <2>1, <2>3 DEF ClaimMint, EntriesAfterClaim, Amount
  <2> QED BY <2>2, <2>3
<1>7. MintedWithinWorth'
  <2> SUFFICES ASSUME NEW id \in DepositIds, NEW user \in Users,
                      NEW price \in PriceValues \ {0},
                      \A p \in PriceValues \ {0} : price <= p
               PROVE  minted'[id][user] * price <= ScaleUp(settled'[id]) * PriceUnit
    BY DEF MintedWithinWorth
  <2>1. minted[id][user] * price <= ScaleUp(settled[id]) * PriceUnit
    BY <1>0 DEF DepositInv, MintedWithinWorth
  <2>2. /\ minted[id][user] \in Nat /\ settled[id] \in Nat /\ price \in Nat
    BY <1>0, EnvironmentAssumption DEF DepositInv, DepositTypeOK
  <2>3. CASE id \in depositIds
    <3> DEFINE used == GetPrice(depositIdToDepositor[id].priceId)
    <3>1. used \in Nat \ {0} /\ price <= used /\ Amount(id) \in Nat
      BY <1>2, <2>3, EnvironmentAssumption
    <3>2. settled'[id] = settled[id] + Amount(id)
      BY <2>3 DEF ClaimMint
    <3>3. (minted[id][user] + RwaOwed(id)) * price
            <= ScaleUp(settled[id] + Amount(id)) * PriceUnit
      <4> HIDE DEF used
      <4>1. RwaOwed(id) = GetMintAmountForPrice(Amount(id), used)
        BY DEF RwaOwed, used
      <4> QED BY <2>1, <2>2, <3>1, <4>1, OwedWithinWorth
    <3>4. CASE user = depositIdToDepositor[id].user
      <4>1. minted'[id][user] = minted[id][user] + RwaOwed(id)
        BY <2>3, <3>4 DEF ClaimMint
      <4> QED BY <3>2, <3>3, <4>1
    <3>5. CASE user # depositIdToDepositor[id].user
      <4>1. minted'[id][user] = minted[id][user]
        BY <2>3, <3>5 DEF ClaimMint
      <4>2. RwaOwed(id) \in Nat
        BY <1>2, <2>3
      <4>3. minted[id][user] * price <= (minted[id][user] + RwaOwed(id)) * price
        BY <2>2, <4>2, ProductMonotone
      <4>4. /\ minted[id][user] * price \in Nat
            /\ (minted[id][user] + RwaOwed(id)) * price \in Nat
            /\ ScaleUp(settled[id] + Amount(id)) * PriceUnit \in Nat
        BY <2>2, <3>1, <4>2, ProductNat, ScaleAssumption, PriceUnitAssumption DEF ScaleUp
      <4> QED BY <3>2, <3>3, <4>1, <4>3, <4>4
    <3> QED BY <3>4, <3>5
  <2>4. CASE id \notin depositIds
    BY <2>1, <2>4 DEF ClaimMint
  <2> QED BY <2>3, <2>4
<1>8. EnvInv' /\ ConfigInv'
  BY <1>0, EnvUnchanged, ConfigUnchanged DEF ClaimMint
<1> QED
  BY <1>3, <1>4, <1>5, <1>6, <1>7, <1>8, SubInvParts DEF DepositInv

LEMMA SetPriceOK ==
  ASSUME SubInv, NEW caller \in Accounts, NEW depositIds \in Batches,
         NEW priceIds \in [depositIds -> PriceIds \cup {0}],
         SetPriceIdForDeposits(caller, depositIds, priceIds)
  PROVE  SubInv'
<1>0. EnvInv /\ ConfigInv /\ DepositInv
  BY SubInvParts
<1>1. depositIds \subseteq DepositIds
  BY DEF Batches
<1>2. \A id \in DepositIds :
        depositIdToDepositor'[id] =
          IF id \in depositIds
            THEN [depositIdToDepositor[id] EXCEPT !.priceId = priceIds[id]]
            ELSE depositIdToDepositor[id]
  BY DEF SetPriceIdForDeposits
<1>3. \A id \in DepositIds :
        /\ depositIdToDepositor'[id].user = depositIdToDepositor[id].user
        /\ Amount(id)' = Amount(id)
        /\ depositIdToDepositor'[id] \in Depositor
  BY <1>0, <1>2 DEF DepositInv, DepositTypeOK, Depositor, Amount
<1>4. DepositTypeOK'
  <2>1. depositIdToDepositor' \in [DepositIds -> Depositor]
    BY <1>3 DEF SetPriceIdForDeposits
  <2>2. priced' \subseteq DepositIds
    BY <1>0, <1>1 DEF SetPriceIdForDeposits, DepositInv, DepositTypeOK
  <2> QED
    BY <1>0, <2>1, <2>2 DEF SetPriceIdForDeposits, DepositInv, DepositTypeOK
<1>5. EmptySlots'
  <2> SUFFICES ASSUME NEW id \in DepositIds, ~Pending(id)'
               PROVE  depositIdToDepositor'[id] = NoDepositor
    BY DEF EmptySlots
  <2>1. ~Pending(id)
    BY <1>3 DEF Pending
  <2>2. id \notin depositIds
    BY <2>1 DEF AcceptsPrice, SetPriceIdForDeposits
  <2> QED BY <1>0, <1>2, <2>1, <2>2 DEF DepositInv, EmptySlots
<1>6. Authorised'
  <2> SUFFICES ASSUME NEW id \in DepositIds
               PROVE  /\ depositIdToDepositor'[id].priceId # 0 => id \in priced'
                      /\ depositIdToClaimableTimestamp'[id] # 0 => id \in released'
    BY DEF Authorised
  <2>1. CASE id \in depositIds
    <3>1. depositIdToDepositor'[id].priceId = priceIds[id]
      BY <1>0, <1>2, <2>1 DEF DepositInv, DepositTypeOK, Depositor
    <3> QED BY <1>0, <2>1, <3>1 DEF SetPriceIdForDeposits, DepositInv, Authorised
  <2>2. CASE id \notin depositIds
    BY <1>0, <1>2, <2>2 DEF SetPriceIdForDeposits, DepositInv, Authorised
  <2> QED BY <2>1, <2>2
<1>7. NeverOverSettled' /\ MintedWithinWorth'
  BY <1>0, <1>3 DEF SetPriceIdForDeposits, DepositInv, NeverOverSettled, MintedWithinWorth
<1>8. EnvInv' /\ ConfigInv'
  BY <1>0, EnvUnchanged, ConfigUnchanged DEF SetPriceIdForDeposits
<1> QED
  BY <1>4, <1>5, <1>6, <1>7, <1>8, SubInvParts DEF DepositInv

LEMMA SetTimestampOK ==
  ASSUME SubInv, NEW caller \in Accounts, NEW depositIds \in Batches,
         NEW claimTimestamp \in 1..MaxTime,
         SetClaimableTimestamp(caller, claimTimestamp, depositIds)
  PROVE  SubInv'
<1>0. EnvInv /\ ConfigInv /\ DepositInv
  BY SubInvParts
<1>1. depositIds \subseteq DepositIds
  BY DEF Batches
<1>2. DepositTypeOK'
  BY <1>0, <1>1, EnvironmentAssumption DEF SetClaimableTimestamp, DepositInv, DepositTypeOK
<1>3. Authorised'
  BY <1>0 DEF SetClaimableTimestamp, DepositInv, Authorised
<1>4. EmptySlots' /\ NeverOverSettled' /\ MintedWithinWorth'
  BY <1>0 DEF SetClaimableTimestamp, DepositInv, EmptySlots, NeverOverSettled,
              MintedWithinWorth, Pending, Amount
<1>5. EnvInv' /\ ConfigInv'
  BY <1>0, EnvUnchanged, ConfigUnchanged DEF SetClaimableTimestamp
<1> QED
  BY <1>2, <1>3, <1>4, <1>5, SubInvParts DEF DepositInv

LEMMA OverwriteOK ==
  ASSUME SubInv, NEW caller \in Accounts, NEW id \in DepositIds,
         NEW user \in OverwriteUsers, NEW amount \in OverwriteInputs,
         NEW priceId \in PriceIds \cup {0},
         OverwriteDepositor(caller, id, user, amount, priceId)
  PROVE  SubInv'
<1>0. EnvInv /\ ConfigInv /\ DepositInv
  BY SubInvParts
<1> DEFINE entry == [user |-> user, amountDepositedMinusFees |-> amount, priceId |-> priceId]
<1>1. entry \in Depositor /\ user # ZeroAddress /\ amount \in Nat
  BY SubscriptionAssumption, IdFacts DEF Depositor
<1>2. /\ depositIdToDepositor' = [depositIdToDepositor EXCEPT ![id] = entry]
      /\ credited' = [credited EXCEPT ![id] = (@ - Amount(id)) + amount]
      /\ recreatedDeposits' =
           [recreatedDeposits EXCEPT ![id] = TimesRecreatedDeposit(id)]
      /\ priced' = IF priceId = 0 THEN priced \ {id} ELSE priced \cup {id}
      /\ UNCHANGED <<depositIdToClaimableTimestamp, subscriptionRequestCounter,
                     replaced, feesPaid, settled, minted, released>>
  BY DEF OverwriteDepositor
<1>3. /\ credited[id] \in Nat /\ settled[id] \in Nat /\ Amount(id) \in Nat
      /\ credited[id] >= settled[id] + Amount(id)
  BY <1>0 DEF DepositInv, DepositTypeOK, NeverOverSettled, Amount, Depositor
<1>4. (credited[id] - Amount(id)) + amount \in Nat
  BY <1>1, <1>3
<1>5. DepositTypeOK'
  <2> HIDE DEF entry
  <2>1. depositIdToDepositor' \in [DepositIds -> Depositor]
    BY <1>0, <1>1, <1>2 DEF DepositInv, DepositTypeOK
  <2>2. credited' \in [DepositIds -> Nat]
    BY <1>0, <1>2, <1>4 DEF DepositInv, DepositTypeOK
  <2>3. recreatedDeposits' \in [DepositIds -> Nat]
    BY <1>0, <1>2 DEF DepositInv, DepositTypeOK, TimesRecreatedDeposit
  <2> QED BY <1>0, <1>2, <2>1, <2>2, <2>3 DEF DepositInv, DepositTypeOK
<1>6. EmptySlots'
  BY <1>0, <1>1, <1>2 DEF DepositInv, DepositTypeOK, EmptySlots, Pending
<1>7. Authorised'
  BY <1>0, <1>2 DEF DepositInv, DepositTypeOK, Authorised
<1>8. NeverOverSettled'
  <2> SUFFICES ASSUME NEW i \in DepositIds
               PROVE  credited'[i] >= settled'[i] + Amount(i)'
    BY DEF NeverOverSettled
  <2>1. CASE i = id
    <3>1. /\ credited'[i] = (credited[id] - Amount(id)) + amount
          /\ Amount(i)' = amount
      BY <1>0, <1>2, <2>1 DEF Amount, DepositInv, DepositTypeOK
    <3> QED BY <1>1, <1>2, <1>3, <2>1, <3>1
  <2>2. CASE i # id
    BY <1>0, <1>2, <2>2 DEF Amount, DepositInv, DepositTypeOK, NeverOverSettled
  <2> QED BY <2>1, <2>2
<1>9. MintedWithinWorth'
  BY <1>0, <1>2 DEF DepositInv, MintedWithinWorth
<1>10. EnvInv' /\ ConfigInv'
  BY <1>0, EnvUnchanged, ConfigUnchanged DEF OverwriteDepositor
<1> QED
  BY <1>5, <1>6, <1>7, <1>8, <1>9, <1>10, SubInvParts DEF DepositInv

(* SubInv is inductive: one case per operation of the hub, and the steps   *)
(* of the setters and of the environment.                                  *)
LEMMA SubInvInductive == SubInv /\ [SubNext]_subVars => SubInv'
<1> SUFFICES ASSUME SubInv, [SubNext]_subVars PROVE SubInv'
  OBVIOUS
<1>0. EnvInv /\ ConfigInv /\ DepositInv
  BY SubInvParts
<1>1. CASE RequestStep
  BY <1>1, RequestOK, RequestOffChainOK DEF RequestStep
<1>2. CASE ClaimStep
  BY <1>2, ClaimOK DEF ClaimStep
<1>3. CASE OperatorStep
  <2>1. PICK caller \in Accounts :
          PriceIdStep(caller) \/ TimestampStep(caller) \/ OverwriteStep(caller)
    BY <1>3 DEF OperatorStep
  <2>2. CASE PriceIdStep(caller)
    <3>1. PICK depositIds \in Batches :
            \E priceIds \in [depositIds -> PriceIds \cup {0}] :
              SetPriceIdForDeposits(caller, depositIds, priceIds)
      BY <2>2 DEF PriceIdStep
    <3> QED BY <3>1, SetPriceOK
  <2>3. CASE TimestampStep(caller)
    BY <2>3, SetTimestampOK DEF TimestampStep
  <2>4. CASE OverwriteStep(caller)
    BY <2>4, OverwriteOK DEF OverwriteStep
  <2> QED BY <2>1, <2>2, <2>3, <2>4
<1>4. CASE ConfigNext /\ UNCHANGED <<environment, deposits, history>>
  <2>1. ConfigInv'
    BY <1>0, <1>4, ConfigStep
  <2> QED BY <1>0, <1>4, <2>1, EnvUnchanged, DepositUnchanged, SubInvParts
<1>5. CASE EnvNext /\ UNCHANGED <<config, deposits, history>>
  <2>1. EnvInv'
    BY <1>0, <1>5, EnvStep
  <2> QED BY <1>0, <1>5, <2>1, ConfigUnchanged, DepositUnchanged, SubInvParts
<1>6. CASE UNCHANGED subVars
  BY <1>0, <1>6, EnvUnchanged, ConfigUnchanged, DepositUnchanged, SubInvParts DEF subVars
<1> QED
  BY <1>1, <1>2, <1>3, <1>4, <1>5, <1>6 DEF SubNext

THEOREM SubInvariance == SubSpec => []SubInv
<1>1. SubInit => SubInv
  BY SubInitOK
<1>2. SubInv /\ [SubNext]_subVars => SubInv'
  BY SubInvInductive
<1> QED
  BY <1>1, <1>2, PTL DEF SubSpec

(* Type correctness of the subscription state.                             *)
THEOREM SubTypeCorrect == SubSpec => []SubTypeOK
<1>1. SubInv => SubTypeOK
  BY DEF SubInv
<1> QED
  BY <1>1, SubInvariance, PTL

(* No claim ever settles more than was credited, whatever ids the relayer  *)
(* chooses: a coincidence of ids loses deposits, it cannot mint twice.     *)
THEOREM NeverOverSettledHolds == SubSpec => []NeverOverSettled
<1>1. SubInv => NeverOverSettled
  BY DEF SubInv
<1> QED
  BY <1>1, SubInvariance, PTL

(* The tokens minted for an id stay within the worth of what it settled.   *)
THEOREM MintedWithinWorthHolds == SubSpec => []MintedWithinWorth
<1>1. SubInv => MintedWithinWorth
  BY DEF SubInv
<1> QED
  BY <1>1, SubInvariance, PTL

-----------------------------------------------------------------------------

(* Only a claim empties the slot of a pending deposit.                     *)
LEMMA OnlyClaimsRemove ==
  ASSUME SubInv, [SubNext]_subVars, NEW id \in DepositIds, Pending(id), ~Pending(id)'
  PROVE  \E depositIds \in Batches : id \in depositIds /\ ClaimMint(depositIds)
<1>0. depositIdToDepositor \in [DepositIds -> Depositor]
  BY DEF SubInv, SubTypeOK, DepositTypeOK
<1>1. CASE RequestStep
  <2>1. PICK user \in Users, i \in DepositIds :
          \E amount : Register(i, user, amount)
    <3>1. PICK user \in Users, amount \in DepositInputs :
            \/ RequestSubscription(user, amount)
            \/ \E caller \in Accounts, i \in OffChainIds :
                 RequestSubscriptionServicedOffchain(caller, user, amount, i)
      BY <1>1 DEF RequestStep
    <3>2. CASE RequestSubscription(user, amount)
      <4>1. subscriptionRequestCounter \in DepositIds
        BY <3>2, IdFacts, SubscriptionAssumption
           DEF RequestSubscription, SubInv, SubTypeOK, DepositTypeOK, OnChainIds
      <4> QED BY <3>2, <4>1 DEF RequestSubscription
    <3>3. CASE \E caller \in Accounts, i \in OffChainIds :
                 RequestSubscriptionServicedOffchain(caller, user, amount, i)
      BY <3>3, IdFacts DEF RequestSubscriptionServicedOffchain
    <3> QED BY <3>1, <3>2, <3>3
  <2> QED BY <1>0, <2>1, IdFacts DEF Register, Pending
<1>2. CASE ClaimStep
  <2>1. PICK depositIds \in Batches : ClaimMint(depositIds)
    BY <1>2 DEF ClaimStep
  <2>2. id \in depositIds
    BY <2>1 DEF ClaimMint, EntriesAfterClaim, Pending
  <2> QED BY <2>1, <2>2
<1>3. CASE OperatorStep
  <2>1. PICK caller \in Accounts :
          PriceIdStep(caller) \/ TimestampStep(caller) \/ OverwriteStep(caller)
    BY <1>3 DEF OperatorStep
  <2>2. ~PriceIdStep(caller)
    BY <1>0, SMTT(30) DEF PriceIdStep, SetPriceIdForDeposits, Pending, Depositor
  <2>3. ~TimestampStep(caller)
    BY DEF TimestampStep, SetClaimableTimestamp, Pending
  <2>4. ~OverwriteStep(caller)
    BY <1>0, SubscriptionAssumption, IdFacts DEF OverwriteStep, OverwriteDepositor, Pending
  <2> QED BY <2>1, <2>2, <2>3, <2>4
<1>4. CASE UNCHANGED deposits
  BY <1>4 DEF deposits, Pending
<1> QED
  BY <1>1, <1>2, <1>3, <1>4 DEF SubNext, subVars

(* No deposit is minted on the word of one operator only, nor on a price   *)
(* id or a timestamp left behind by an earlier claim of the same id.       *)
THEOREM MintNeedsBothOperatorsHolds == SubSpec => MintNeedsBothOperators
<1>1. ASSUME SubInv, [SubNext]_subVars, NEW id \in DepositIds, Pending(id), ~Pending(id)'
      PROVE  id \in priced /\ id \in released
  <2>1. PICK depositIds \in Batches : id \in depositIds /\ ClaimMint(depositIds)
    BY <1>1, OnlyClaimsRemove
  <2>2. Claimable(id)
    BY <2>1 DEF ClaimMint
  <2> QED BY <1>1, <2>2 DEF Claimable, SubInv, Authorised
<1>2. SubInv /\ [SubNext]_subVars =>
        [\A id \in DepositIds :
           Pending(id) /\ ~Pending(id)' => id \in priced /\ id \in released]_subVars
  BY <1>1
<1> QED
  BY <1>2, SubInvariance, PTL DEF SubSpec, MintNeedsBothOperators

-----------------------------------------------------------------------------

(* Tokens are minted for an id only to the depositor on record, whom the   *)
(* token accepts at that moment, and the entry goes in the same step, in   *)
(* batches of any size.                                                    *)
THEOREM MintGoesToDepositorHolds == SubSpec => MintGoesToDepositor
<1>1. ASSUME SubInv, [SubNext]_subVars, NEW id \in DepositIds, NEW user \in Users,
             minted'[id][user] # minted[id][user]
      PROVE  /\ depositIdToDepositor[id].user = user
             /\ user \in holders
             /\ ~Pending(id)'
  <2>1. ClaimStep
    <3>1. CASE RequestStep
      BY <1>1, <3>1 DEF RequestStep, RequestSubscription, RequestSubscriptionServicedOffchain
    <3>2. CASE OperatorStep
      BY <1>1, <3>2 DEF OperatorStep, PriceIdStep, SetPriceIdForDeposits, TimestampStep,
         SetClaimableTimestamp, OverwriteStep, OverwriteDepositor
    <3>3. CASE UNCHANGED history
      BY <1>1, <3>3 DEF history
    <3> QED BY <1>1, <3>1, <3>2, <3>3 DEF SubNext, subVars
  <2>2. PICK depositIds \in Batches : ClaimMint(depositIds)
    BY <2>1 DEF ClaimStep
  <2>3. id \in depositIds /\ depositIdToDepositor[id].user = user
    BY <1>1, <2>2 DEF ClaimMint, SubInv, SubTypeOK, DepositTypeOK
  <2>4. user \in holders
    BY <2>2, <2>3 DEF ClaimMint, Claimable, TokenAccepts
  <2>5. ~Pending(id)'
    BY <2>2, <2>3 DEF ClaimMint, EntriesAfterClaim, NoDepositor, Pending
  <2> QED BY <2>3, <2>4, <2>5
<1>2. SubInv /\ [SubNext]_subVars =>
        [\A id \in DepositIds, user \in Users :
           minted'[id][user] # minted[id][user] =>
             /\ depositIdToDepositor[id].user = user
             /\ user \in holders
             /\ ~Pending(id)']_subVars
  BY <1>1
<1> QED
  BY <1>2, SubInvariance, PTL DEF SubSpec, MintGoesToDepositor

-----------------------------------------------------------------------------

(* The counter only meets an entry under an id that was taken early: that  *)
(* is what conservation needs.                                             *)
ConservationInv == SubInv /\ FreshSlots /\ Conservation

LEMMA ConservationFacts ==
  ASSUME ConservationInv, NEW id \in DepositIds
  PROVE  /\ credited[id] \in Nat /\ settled[id] \in Nat /\ replaced[id] \in Nat
         /\ recreatedDeposits[id] \in Nat /\ Amount(id) \in Nat
         /\ credited[id] = settled[id] + Amount(id) + replaced[id]
         /\ replaced[id] > 0 => TakenEarly(id)
         /\ ~Pending(id) => Amount(id) = 0
  BY DEF ConservationInv, SubInv, SubTypeOK, DepositTypeOK, Conservation, EmptySlots,
         Amount, Depositor, NoDepositor

(* A request adds one entry to the books, and moves to `replaced` what it  *)
(* finds in the slot, which is something only if the id was taken early.   *)
LEMMA RegisterConserves ==
  ASSUME ConservationInv, NEW id \in DepositIds, NEW user \in Users,
         NEW amount \in Nat, Pending(id) => TakenEarly(id), Register(id, user, amount),
         UNCHANGED <<recreatedDeposits, settled>>
  PROVE  Conservation'
<1> SUFFICES ASSUME NEW i \in DepositIds
             PROVE  /\ credited'[i] = settled'[i] + Amount(i)' + replaced'[i]
                    /\ replaced'[i] > 0 => TakenEarly(i)'
  BY DEF Conservation
<1>1. /\ credited[i] \in Nat /\ settled[i] \in Nat /\ replaced[i] \in Nat
      /\ Amount(i) \in Nat
      /\ credited[i] = settled[i] + Amount(i) + replaced[i]
      /\ replaced[i] > 0 => TakenEarly(i)
      /\ ~Pending(i) => Amount(i) = 0
  BY ConservationFacts
<1>2. TakenEarly(i)' = TakenEarly(i)
  BY DEF TakenEarly
<1>3. CASE i = id
  <2>1. /\ credited'[i] = credited[i] + amount
        /\ Amount(i)' = amount
        /\ replaced'[i] = replaced[i] + Amount(i)
    BY <1>3 DEF Register, Amount, ConservationInv, SubInv, SubTypeOK, DepositTypeOK
  <2> QED BY <1>1, <1>2, <1>3, <2>1
<1>4. CASE i # id
  <2>1. /\ credited'[i] = credited[i]
        /\ Amount(i)' = Amount(i)
        /\ replaced'[i] = replaced[i]
    BY <1>4 DEF Register, Amount, ConservationInv, SubInv, SubTypeOK, DepositTypeOK
  <2> QED BY <1>1, <1>2, <2>1
<1> QED
  BY <1>3, <1>4

(* A request writes to a slot that no deposit is pending in, or to the one *)
(* of an id that was taken early and is now handed out by the counter.     *)
LEMMA RequestTakesFreeSlot ==
  ASSUME ConservationInv, RequestStep
  PROVE  \E taken \in DepositIds :
           /\ \E user \in Users, amount \in Nat : Register(taken, user, amount)
           /\ \A id \in DepositIds \ {taken} :
                depositIdToDepositor'[id] = depositIdToDepositor[id]
           /\ UNCHANGED <<recreatedDeposits, settled>>
           /\ \/ /\ taken = subscriptionRequestCounter
                 /\ subscriptionRequestCounter' = subscriptionRequestCounter + 1
                 /\ subscriptionRequestCounter' # taken
                 /\ Pending(taken) => TakenEarly(taken)
              \/ /\ taken \in OffChainIds
                 /\ UNCHANGED subscriptionRequestCounter
                 /\ ~Pending(taken)
<1>0. /\ depositIdToDepositor \in [DepositIds -> Depositor]
      /\ subscriptionRequestCounter \in 1..(MaxSubscriptions + 1)
      /\ ConfigInv
  BY SubInvParts DEF ConservationInv, SubInv, SubTypeOK, DepositTypeOK
<1>1. PICK user \in Users, amount \in DepositInputs :
        \/ RequestSubscription(user, amount)
        \/ \E caller \in Accounts, i \in OffChainIds :
             RequestSubscriptionServicedOffchain(caller, user, amount, i)
  BY DEF RequestStep
<1> DEFINE net == amount - GetMintFees(amount, amounts["mintFee"])
<1>2. net \in Nat
  BY <1>0, FeeFacts, SubscriptionAssumption
<1>3. \A i \in DepositIds : Register(i, user, net) =>
        \A id \in DepositIds \ {i} : depositIdToDepositor'[id] = depositIdToDepositor[id]
  BY <1>0 DEF Register
<1>4. CASE RequestSubscription(user, amount)
  <2> DEFINE id == subscriptionRequestCounter
  <2>1. /\ id \in OnChainIds /\ id \in DepositIds
        /\ id' = id + 1
        /\ Register(id, user, net)
        /\ UNCHANGED <<recreatedDeposits, settled>>
    BY <1>0, <1>4, IdFacts, SubscriptionAssumption DEF RequestSubscription, OnChainIds
  <2>2. id' # id
    BY <1>0, <2>1
  <2>3. Pending(id) => TakenEarly(id)
    BY <1>0, <2>1 DEF ConservationInv, FreshSlots
  <2> HIDE DEF net
  <2> QED BY <1>2, <1>3, <2>1, <2>2, <2>3
<1>5. CASE \E caller \in Accounts, i \in OffChainIds :
             RequestSubscriptionServicedOffchain(caller, user, amount, i)
  <2>1. PICK i \in OffChainIds :
          /\ Register(i, user, net) /\ ~Pending(i)
          /\ UNCHANGED <<subscriptionRequestCounter, recreatedDeposits, settled>>
    BY <1>5 DEF AcceptsProof, RequestSubscriptionServicedOffchain
  <2> HIDE DEF net
  <2> QED BY <1>2, <1>3, <2>1, IdFacts
<1> QED
  BY <1>1, <1>4, <1>5

LEMMA RequestConserves ==
  ASSUME ConservationInv, RequestStep
  PROVE  FreshSlots' /\ Conservation'
<1>0. subscriptionRequestCounter \in Nat
  BY DEF ConservationInv, SubInv, SubTypeOK, DepositTypeOK
<1>1. PICK taken \in DepositIds :
           /\ \E user \in Users, amount \in Nat : Register(taken, user, amount)
           /\ \A id \in DepositIds \ {taken} :
                depositIdToDepositor'[id] = depositIdToDepositor[id]
           /\ UNCHANGED <<recreatedDeposits, settled>>
           /\ \/ /\ taken = subscriptionRequestCounter
                 /\ subscriptionRequestCounter' = subscriptionRequestCounter + 1
                 /\ subscriptionRequestCounter' # taken
                 /\ Pending(taken) => TakenEarly(taken)
              \/ /\ taken \in OffChainIds
                 /\ UNCHANGED subscriptionRequestCounter
                 /\ ~Pending(taken)
  BY RequestTakesFreeSlot
<1>2. Conservation'
  BY <1>1, RegisterConserves
<1>3. FreshSlots'
  <2> SUFFICES ASSUME NEW id \in OnChainIds, id >= subscriptionRequestCounter',
                      ~TakenEarly(id)'
               PROVE  ~Pending(id)'
    BY DEF FreshSlots
  <2>1. id \in Nat /\ id \in DepositIds
    BY IdFacts
  <2>2. ~TakenEarly(id) /\ id \notin OffChainIds
    BY <1>1 DEF TakenEarly
  <2>3. id >= subscriptionRequestCounter /\ id # taken
    BY <1>0, <1>1, <2>1, <2>2
  <2>4. ~Pending(id)
    BY <2>2, <2>3 DEF ConservationInv, FreshSlots
  <2> QED BY <1>1, <2>1, <2>3, <2>4 DEF Pending
<1> QED
  BY <1>2, <1>3

(* Steps that neither request nor correct leave the sum of what is settled *)
(* and pending as it was, and open no new slot.                            *)
LEMMA ClaimConserves ==
  ASSUME ConservationInv, ClaimStep
  PROVE  FreshSlots' /\ Conservation'
<1>1. PICK depositIds \in Batches : ClaimMint(depositIds)
  BY DEF ClaimStep
<1>2. \A id \in DepositIds : TakenEarly(id)' = TakenEarly(id)
  BY <1>1 DEF ClaimMint, TakenEarly
<1>3. FreshSlots'
  BY <1>1, <1>2, IdFacts, SMTT(30)
     DEF ClaimMint, EntriesAfterClaim, ConservationInv, FreshSlots, Pending, NoDepositor
<1>4. Conservation'
  <2> SUFFICES ASSUME NEW id \in DepositIds
               PROVE  /\ credited'[id] = settled'[id] + Amount(id)' + replaced'[id]
                      /\ replaced'[id] > 0 => TakenEarly(id)'
    BY DEF Conservation
  <2>1. /\ credited[id] = settled[id] + Amount(id) + replaced[id]
        /\ settled[id] \in Nat /\ Amount(id) \in Nat /\ replaced[id] \in Nat
        /\ replaced[id] > 0 => TakenEarly(id)
    BY ConservationFacts
  <2>2. settled'[id] + Amount(id)' = settled[id] + Amount(id)
    BY <1>1, <2>1 DEF ClaimMint, EntriesAfterClaim, Amount, NoDepositor
  <2> QED BY <1>1, <1>2, <2>1, <2>2 DEF ClaimMint
<1> QED
  BY <1>3, <1>4

(* A correction that creates an entry marks its id as taken early, if the  *)
(* counter can hand it out.                                                *)
LEMMA OverwriteConserves ==
  ASSUME ConservationInv, NEW caller \in Accounts, NEW id \in DepositIds,
         NEW user \in OverwriteUsers, NEW amount \in OverwriteInputs,
         NEW priceId \in PriceIds \cup {0},
         OverwriteDepositor(caller, id, user, amount, priceId)
  PROVE  FreshSlots' /\ Conservation'
<1>0. /\ depositIdToDepositor \in [DepositIds -> Depositor]
      /\ credited \in [DepositIds -> Nat]
      /\ recreatedDeposits \in [DepositIds -> Nat]
      /\ amount \in Nat
  BY SubscriptionAssumption DEF ConservationInv, SubInv, SubTypeOK, DepositTypeOK
<1>1. /\ \A i \in DepositIds \ {id} :
           /\ depositIdToDepositor'[i] = depositIdToDepositor[i]
           /\ credited'[i] = credited[i]
           /\ recreatedDeposits'[i] = recreatedDeposits[i]
      /\ Amount(id)' = amount
      /\ credited'[id] = (credited[id] - Amount(id)) + amount
      /\ recreatedDeposits'[id] = TimesRecreatedDeposit(id)
      /\ UNCHANGED <<subscriptionRequestCounter, replaced, settled>>
  BY <1>0 DEF OverwriteDepositor, Amount
<1>2. ASSUME NEW i \in DepositIds, TakenEarly(i) PROVE TakenEarly(i)'
  <2>1. recreatedDeposits'[i] >= recreatedDeposits[i]
    BY <1>0, <1>1 DEF TimesRecreatedDeposit
  <2> QED BY <1>0, <1>1, <1>2, <2>1 DEF TakenEarly, TimesRecreatedDeposit
<1>3. FreshSlots'
  <2> SUFFICES ASSUME NEW i \in OnChainIds, i >= subscriptionRequestCounter,
                      ~TakenEarly(i)'
               PROVE  ~Pending(i)'
    BY <1>1 DEF FreshSlots
  <2>1. i \in DepositIds /\ ~TakenEarly(i)
    BY <1>2, IdFacts
  <2>2. ~Pending(i)
    BY <2>1 DEF ConservationInv, FreshSlots
  <2>3. i # id
    BY <1>0, <1>1, <2>2 DEF TakenEarly, TimesRecreatedDeposit
  <2> QED BY <1>1, <2>1, <2>2, <2>3 DEF Pending
<1>4. Conservation'
  <2> SUFFICES ASSUME NEW i \in DepositIds
               PROVE  /\ credited'[i] = settled'[i] + Amount(i)' + replaced'[i]
                      /\ replaced'[i] > 0 => TakenEarly(i)'
    BY DEF Conservation
  <2>1. /\ credited[i] = settled[i] + Amount(i) + replaced[i]
        /\ settled[i] \in Nat /\ Amount(i) \in Nat /\ replaced[i] \in Nat
        /\ replaced[i] > 0 => TakenEarly(i)
    BY ConservationFacts
  <2>2. credited'[i] = settled[i] + Amount(i)' + replaced[i]
    BY <1>0, <1>1, <2>1 DEF Amount
  <2> QED BY <1>1, <1>2, <2>1, <2>2
<1> QED
  BY <1>3, <1>4

LEMMA OperatorConserves ==
  ASSUME ConservationInv, OperatorStep
  PROVE  FreshSlots' /\ Conservation'
<1>0. depositIdToDepositor \in [DepositIds -> Depositor]
  BY DEF ConservationInv, SubInv, SubTypeOK, DepositTypeOK
<1>1. PICK caller \in Accounts :
        PriceIdStep(caller) \/ TimestampStep(caller) \/ OverwriteStep(caller)
  BY DEF OperatorStep
<1>2. CASE PriceIdStep(caller)
  <2>1. PICK depositIds \in Batches :
          \E priceIds \in [depositIds -> PriceIds \cup {0}] :
            SetPriceIdForDeposits(caller, depositIds, priceIds)
    BY <1>2 DEF PriceIdStep
  <2>2. \A id \in DepositIds :
          /\ depositIdToDepositor'[id].user = depositIdToDepositor[id].user
          /\ Amount(id)' = Amount(id)
    BY <1>0, <2>1 DEF SetPriceIdForDeposits, Depositor, Amount
  <2> QED
    BY <2>1, <2>2, IdFacts
       DEF SetPriceIdForDeposits, ConservationInv, FreshSlots, Conservation, Pending,
           TakenEarly
<1>3. CASE TimestampStep(caller)
  BY <1>3 DEF TimestampStep, SetClaimableTimestamp, ConservationInv, FreshSlots,
              Conservation, Pending, Amount, TakenEarly
<1>4. CASE OverwriteStep(caller)
  BY <1>4, OverwriteConserves DEF OverwriteStep
<1> QED
  BY <1>1, <1>2, <1>3, <1>4

LEMMA ConservationInvariance == SubSpec => []ConservationInv
<1>1. SubInit => ConservationInv
  BY SubInitOK DEF ConservationInv
<1>2. ConservationInv /\ [SubNext]_subVars => ConservationInv'
  <2> SUFFICES ASSUME ConservationInv, [SubNext]_subVars PROVE ConservationInv'
    OBVIOUS
  <2>1. SubInv'
    BY SubInvInductive DEF ConservationInv
  <2>2. FreshSlots' /\ Conservation'
    <3>1. CASE UNCHANGED <<deposits, history>>
      BY <3>1 DEF deposits, history, ConservationInv, FreshSlots, Conservation,
                  Pending, Amount, TakenEarly
    <3> QED
      BY <3>1, RequestConserves, ClaimConserves, OperatorConserves DEF SubNext, subVars
  <2> QED BY <2>1, <2>2 DEF ConservationInv
<1> QED
  BY <1>1, <1>2, PTL DEF SubSpec

(* Every unit credited is pending, settled exactly once, or in an entry    *)
(* that a request replaced, for every number of deposits, users, prices    *)
(* and operators; and nothing is replaced but under an id of the counter   *)
(* that the relayer or the manager used before the counter did.            *)
THEOREM ConservationHolds == SubSpec => []Conservation
<1>1. ConservationInv => Conservation
  BY DEF ConservationInv
<1> QED
  BY <1>1, ConservationInvariance, PTL

(* What a depositor may rely on while the deposit is pending, for every    *)
(* number of users and operators and any choice of ids: nobody but the     *)
(* manager changes its terms, unless it is pending under an id of the      *)
(* counter that was taken early and is now handed out.                     *)
THEOREM PendingTermsStableHolds == SubSpec => PendingTermsStable
<1>1. ASSUME ConservationInv, [SubNext]_subVars, NEW id \in DepositIds, Pending(id),
             depositIdToDepositor'[id] # depositIdToDepositor[id]
      PROVE  LET old == depositIdToDepositor[id]
                 new == depositIdToDepositor'[id]
             IN  \/ new = NoDepositor
                 \/ new = [old EXCEPT !.priceId = new.priceId] /\ old.priceId = 0
                 \/ \E caller \in Accounts : OverwriteStep(caller)
                 \/ /\ TakenEarly(id)
                    /\ subscriptionRequestCounter = id /\ subscriptionRequestCounter' # id
  <2>0. depositIdToDepositor[id] \in Depositor
    BY <1>1 DEF ConservationInv, SubInv, SubTypeOK, DepositTypeOK
  <2>1. CASE RequestStep
    BY <1>1, <2>1, RequestTakesFreeSlot
  <2>2. CASE ClaimStep
    BY <1>1, <2>2 DEF ClaimStep, ClaimMint, EntriesAfterClaim
  <2>3. CASE OperatorStep
    <3>1. PICK caller \in Accounts :
            PriceIdStep(caller) \/ TimestampStep(caller) \/ OverwriteStep(caller)
      BY <2>3 DEF OperatorStep
    <3>2. CASE PriceIdStep(caller)
      <4>1. PICK depositIds \in Batches :
              \E priceIds \in [depositIds -> PriceIds \cup {0}] :
                SetPriceIdForDeposits(caller, depositIds, priceIds)
        BY <3>2 DEF PriceIdStep
      <4>2. PICK priceIds \in [depositIds -> PriceIds \cup {0}] :
                SetPriceIdForDeposits(caller, depositIds, priceIds)
        BY <4>1
      <4>3. /\ depositIdToDepositor'[id]
                 = [depositIdToDepositor[id] EXCEPT !.priceId = priceIds[id]]
            /\ depositIdToDepositor[id].priceId = 0
        BY <1>1, <4>2 DEF SetPriceIdForDeposits, AcceptsPrice
      <4>4. depositIdToDepositor'[id].priceId = priceIds[id]
        BY <2>0, <4>3 DEF Depositor
      <4> QED BY <4>3, <4>4
    <3>3. CASE TimestampStep(caller)
      BY <1>1, <3>3 DEF TimestampStep, SetClaimableTimestamp
    <3> QED BY <3>1, <3>2, <3>3
  <2>4. CASE UNCHANGED deposits
    BY <1>1, <2>4 DEF deposits
  <2> QED BY <1>1, <2>1, <2>2, <2>3, <2>4 DEF SubNext, subVars
<1>2. ConservationInv /\ [SubNext]_subVars =>
        [\A id \in DepositIds :
           LET old == depositIdToDepositor[id]
               new == depositIdToDepositor'[id]
           IN  Pending(id) /\ new # old =>
                 \/ new = NoDepositor
                 \/ new = [old EXCEPT !.priceId = new.priceId] /\ old.priceId = 0
                 \/ \E caller \in Accounts : OverwriteStep(caller)
                 \/ /\ TakenEarly(id)
                    /\ subscriptionRequestCounter = id /\ subscriptionRequestCounter' # id]_subVars
  BY <1>1
<1> QED
  BY <1>2, ConservationInvariance, PTL DEF SubSpec, PendingTermsStable

-----------------------------------------------------------------------------

(* Every subscription accepted under a mint fee pays at least one unit of  *)
(* it, as long as the constructor was given minimums the setters would     *)
(* accept: the setters keep the floor, and FeeNeverRoundsToZero does the   *)
(* rest.                                                                   *)
THEOREM NoFreeSubscriptionHolds ==
  ASSUME ConstructorFloors
  PROVE  SubSpec => NoFreeSubscription
<1>1. SubInit => SubInv /\ MinimumsFloored
  BY SubInitOK, FloorsInit DEF SubInit
<1>2. SubInv /\ MinimumsFloored /\ [SubNext]_subVars => (SubInv /\ MinimumsFloored)'
  <2> SUFFICES ASSUME SubInv, MinimumsFloored, [SubNext]_subVars
               PROVE  SubInv' /\ MinimumsFloored'
    OBVIOUS
  <2>1. SubInv'
    BY SubInvInductive
  <2>2. CASE UNCHANGED amounts
    BY <2>1, <2>2 DEF MinimumsFloored
  <2>3. CASE ConfigNext
    BY <2>1, <2>3, ConfigStep, SubInvParts
  <2>4. UNCHANGED amounts \/ ConfigNext
    BY DEF SubNext, subVars, config, RequestStep, RequestSubscription,
       RequestSubscriptionServicedOffchain, ClaimStep, ClaimMint, OperatorStep,
       PriceIdStep, SetPriceIdForDeposits, TimestampStep, SetClaimableTimestamp,
       OverwriteStep, OverwriteDepositor
  <2> QED BY <2>2, <2>3, <2>4
<1>3. ASSUME SubInv, MinimumsFloored, [SubNext]_subVars, NEW id \in DepositIds,
             subscriptionRequestCounter = id, subscriptionRequestCounter' # id,
             amounts["mintFee"] > 0
      PROVE  feesPaid'[id] > feesPaid[id]
  <2>1. PICK user \in Users, amount \in DepositInputs : RequestSubscription(user, amount)
    BY <1>3 DEF SubNext, subVars, deposits, RequestStep,
       RequestSubscriptionServicedOffchain, ClaimStep, ClaimMint, OperatorStep,
       PriceIdStep, SetPriceIdForDeposits, TimestampStep, SetClaimableTimestamp,
       OverwriteStep, OverwriteDepositor
  <2> DEFINE fees == GetMintFees(amount, amounts["mintFee"])
  <2>2. /\ amount \in Nat /\ amount >= BPS_DENOMINATOR
        /\ amounts["mintFee"] \in Nat \ {0}
    BY <1>3, <2>1, SubscriptionAssumption, BpsAssumption
       DEF RequestSubscription, MinimumsFloored, SubInv, SubTypeOK, ConfigTypeOK,
           AmountNames, OnChainAmounts, Fees
  <2>3. fees \in Nat /\ fees >= 1
    BY <1>3, <2>2, FeeNeverRoundsToZero, FeeFacts, SubInvParts
  <2>4. feesPaid' = [feesPaid EXCEPT ![id] = @ + fees]
    BY <1>3, <2>1 DEF RequestSubscription
  <2> HIDE DEF fees
  <2> QED BY <1>3, <2>3, <2>4 DEF SubInv, SubTypeOK, DepositTypeOK
<1>4. SubInv /\ MinimumsFloored /\ [SubNext]_subVars =>
        [\A id \in DepositIds :
           subscriptionRequestCounter = id /\ subscriptionRequestCounter' # id
             /\ amounts["mintFee"] > 0
             => feesPaid'[id] > feesPaid[id]]_subVars
  BY <1>3
<1> QED
  BY <1>1, <1>2, <1>4, PTL DEF SubSpec, NoFreeSubscription

=============================================================================
