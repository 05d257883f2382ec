---------------------------- MODULE Redemptions ----------------------------
(***************************************************************************)
(* The redemption half of the hub: a user burns `rwa` and is given a       *)
(* redemption id, an operator attaches a price id to it, and anyone claims *)
(* the collateral for the user.  A redemption serviced off chain burns and *)
(* takes an id of the same counter, and leaves no entry behind.  The       *)
(* manager corrects an entry by writing it anew; nothing asks whether the  *)
(* id has an entry, so a correction may also create one: for an id claimed *)
(* before the correction lands, for an id serviced off chain, or for an id *)
(* that has not been handed out.                                           *)
(*                                                                         *)
(* Arrays of ids are sets, and a batch is one step, as in Subscriptions.   *)
(* Transfers of collateral revert the call when assetSender lacks balance  *)
(* or allowance: then the step is not taken.                               *)
(***************************************************************************)
EXTENDS HubConfig

CONSTANTS
  MaxRedemptions,    \* bound on redemption requests of both kinds
  RedemptionInputs,  \* amounts of `rwa` that users submit
  RedeemerIds,       \* ids the manager writes an entry for
  RedeemerAmounts,   \* amounts the manager writes when correcting an entry
  RedeemerUsers,     \* users the manager writes when correcting an entry
  MaxRecreated       \* bound on the corrections of an id that find no entry

ASSUME RedemptionAssumption ==
  /\ MaxRedemptions \in Nat
  /\ RedemptionInputs \subseteq Nat
  /\ RedeemerIds \subseteq 1..MaxRedemptions
  /\ RedeemerAmounts \subseteq Nat
  /\ RedeemerUsers \subseteq Users
  /\ MaxRecreated \in Nat

RedemptionIds == 1..MaxRedemptions

VARIABLES
  redemptionIdToRedeemer,
  redemptionRequestCounter,
  (* History: what was burned, written and paid, by redemption id. *)
  redemptionRequests,  \* the request the id was handed out to (see RedemptionRequest)
  recreated,           \* number of corrections that found no entry under the id
  owed,                \* tokens to redeem: burned on chain, then as corrected
  payments,            \* number of claims of the id
  redeemed,            \* token amount of the claims of the id
  paid,                \* paid[id][u]: collateral sent to u by claims of the id
  redemptionFees,      \* collateral sent to feeRecipient by claims of the id
  pricedRedemptions    \* ids given a price id since they were requested

redemptions == <<redemptionIdToRedeemer, redemptionRequestCounter>>
redemptionHistory == <<redemptionRequests, recreated, owed, payments, redeemed, paid,
                       redemptionFees, pricedRedemptions>>
redVars == <<environment, config, redemptions, redemptionHistory>>

Redeemer == [user: Users \cup {ZeroAddress},
             amountRwaTokenBurned: Nat,
             priceId: PriceIds \cup {0}]
NoRedeemer == [user |-> ZeroAddress, amountRwaTokenBurned |-> 0, priceId |-> 0]

\* Who burned how much, and the amount of an early entry the request replaced.
RedemptionRequest == [kind: {"none", "onChain", "offChain"},
                      user: Users \cup {ZeroAddress},
                      amount: Nat,
                      replaced: Nat]
NoRequest == [kind |-> "none", user |-> ZeroAddress, amount |-> 0, replaced |-> 0]

RedemptionTypeOK ==
  /\ redemptionIdToRedeemer \in [RedemptionIds -> Redeemer]
  /\ redemptionRequestCounter \in 1..(MaxRedemptions + 1)
  /\ redemptionRequests \in [RedemptionIds -> RedemptionRequest]
  /\ recreated \in [RedemptionIds -> Nat]
  /\ owed \in [RedemptionIds -> Nat]
  /\ payments \in [RedemptionIds -> Nat]
  /\ redeemed \in [RedemptionIds -> Nat]
  /\ paid \in [RedemptionIds -> [Users -> Nat]]
  /\ redemptionFees \in [RedemptionIds -> Nat]
  /\ pricedRedemptions \subseteq RedemptionIds

RedTypeOK == EnvTypeOK /\ ConfigTypeOK /\ RedemptionTypeOK

RedInit ==
  /\ EnvInit
  /\ ConfigInit
  /\ redemptionIdToRedeemer = [id \in RedemptionIds |-> NoRedeemer]
  /\ redemptionRequestCounter = 1
  /\ redemptionRequests = [id \in RedemptionIds |-> NoRequest]
  /\ recreated = [id \in RedemptionIds |-> 0]
  /\ owed = [id \in RedemptionIds |-> 0]
  /\ payments = [id \in RedemptionIds |-> 0]
  /\ redeemed = [id \in RedemptionIds |-> 0]
  /\ paid = [id \in RedemptionIds |-> [user \in Users |-> 0]]
  /\ redemptionFees = [id \in RedemptionIds |-> 0]
  /\ pricedRedemptions = {}

Outstanding(id) == redemptionIdToRedeemer[id].user # ZeroAddress
AmountBurned(id) == redemptionIdToRedeemer[id].amountRwaTokenBurned

RecordRequest(id, kind, user, amount, replaced) ==
  redemptionRequests' = [redemptionRequests EXCEPT ![id] =
    [kind |-> kind, user |-> user, amount |-> amount, replaced |-> replaced]]

\* Mutant: the counter stands still.
SameRedemptionId == redemptionRequestCounter

NextRedemptionId == redemptionRequestCounter + 1

\* Mutant: the price id found in the slot is kept.
RedeemerInSlot(id, user, amount) ==
  [redemptionIdToRedeemer[id] EXCEPT !.user = user, !.amountRwaTokenBurned = amount]

NewRedeemer(id, user, amount) ==
  [user |-> user, amountRwaTokenBurned |-> amount, priceId |-> 0]

\* No restriction check of the hub's own: the burn asks the token.  The slot
\* is overwritten, whatever was put there early.
RequestRedemption(user, amount) ==
  LET id == redemptionRequestCounter
  IN  /\ ~paused["redemption"]
      /\ amount >= amounts["minimumRedemptionAmount"]
      /\ amount <= amounts["maximumRedemptionAmount"]
      /\ id <= MaxRedemptions
      /\ TokenAccepts(user)
      /\ redemptionRequestCounter' = NextRedemptionId
      /\ redemptionIdToRedeemer' =
           [redemptionIdToRedeemer EXCEPT ![id] = NewRedeemer(id, user, amount)]
      /\ RecordRequest(id, "onChain", user, amount, AmountBurned(id))
      /\ owed' = [owed EXCEPT ![id] = @ + amount]
      /\ pricedRedemptions' = pricedRedemptions \ {id}
      /\ UNCHANGED <<environment, config, recreated, payments, redeemed, paid,
                     redemptionFees>>

\* The destination of the wire is only logged.
RequestRedemptionServicedOffchain(user, amount) ==
  LET id == redemptionRequestCounter
  IN  /\ ~paused["offChainRedemption"]
      /\ amount >= amounts["minimumOffChainRedemptionAmount"]
      /\ amount <= amounts["maximumOffChainRedemptionAmount"]
      /\ id <= MaxRedemptions
      /\ TokenAccepts(user)
      /\ redemptionRequestCounter' = NextRedemptionId
      /\ RecordRequest(id, "offChain", user, amount, 0)
      /\ UNCHANGED <<environment, config, redemptionIdToRedeemer, recreated, owed,
                     payments, redeemed, paid, redemptionFees, pricedRedemptions>>

CollateralDue(id) ==
  GetRedemptionAmountForRwa(AmountBurned(id),
                            GetPrice(redemptionIdToRedeemer[id].priceId))
FeeDue(id) == GetRedemptionFees(CollateralDue(id), amounts["redemptionFee"])

\* Mutant: the fee is paid on top of the collateral due.
CollateralDueUnreduced(id) == CollateralDue(id)

CollateralDuePostFees(id) == CollateralDue(id) - FeeDue(id)

\* Mutant: the redeemer is not checked again at the claim.
RedeemableUnchecked(id) ==
  LET member == redemptionIdToRedeemer[id]
  IN  member.priceId # 0 /\ PriceAvailable /\ Payable(member.user)

\* An undefined price is 0 and nothing here refuses it.
Redeemable(id) ==
  LET member == redemptionIdToRedeemer[id]
  IN  /\ ~Restricted(member.user)
      /\ member.priceId # 0
      /\ PriceAvailable
      /\ Payable(member.user)

\* Mutant: the claim does not delete the entries.
RedeemersKept(redemptionIds) == redemptionIdToRedeemer

RedeemersAfterClaim(redemptionIds) ==
  [id \in RedemptionIds |-> IF id \in redemptionIds THEN NoRedeemer
                                                    ELSE redemptionIdToRedeemer[id]]

\* The fees of a batch leave assetSender in one transfer after the loop.
ClaimRedemption(redemptionIds) ==
  /\ ~paused["redemption"]
  /\ \A id \in redemptionIds : Redeemable(id)
  /\ (\E id \in redemptionIds : FeeDue(id) > 0) => Payable(pointers["feeRecipient"])
  /\ Payable(pointers["assetSender"])
  /\ redemptionIdToRedeemer' = RedeemersAfterClaim(redemptionIds)
  /\ payments' = [id \in RedemptionIds |->
       IF id \in redemptionIds THEN payments[id] + 1 ELSE payments[id]]
  /\ redeemed' = [id \in RedemptionIds |->
       IF id \in redemptionIds THEN redeemed[id] + AmountBurned(id) ELSE redeemed[id]]
  /\ paid' = [id \in RedemptionIds |-> [user \in Users |->
       IF id \in redemptionIds /\ user = redemptionIdToRedeemer[id].user
         THEN paid[id][user] + CollateralDuePostFees(id)
         ELSE paid[id][user]]]
  /\ redemptionFees' = [id \in RedemptionIds |->
       IF id \in redemptionIds THEN redemptionFees[id] + FeeDue(id)
                               ELSE redemptionFees[id]]
  /\ pricedRedemptions' = pricedRedemptions \ redemptionIds
  /\ UNCHANGED <<environment, config, redemptionRequestCounter, redemptionRequests,
                 recreated, owed>>

\* No check that the ids exist: a price id can be attached to a redemption
\* serviced off chain, to a claimed one, or to one not requested yet.
SetPriceIdForRedemptions(caller, redemptionIds, priceIds) ==
  /\ OnlyRole("PRICE_ID_SETTER_ROLE", caller)
  /\ \A id \in redemptionIds : redemptionIdToRedeemer[id].priceId = 0
  /\ redemptionIdToRedeemer' = [id \in RedemptionIds |->
       IF id \in redemptionIds
         THEN [redemptionIdToRedeemer[id] EXCEPT !.priceId = priceIds[id]]
         ELSE redemptionIdToRedeemer[id]]
  /\ pricedRedemptions' =
       pricedRedemptions \cup {id \in redemptionIds : priceIds[id] # 0}
  /\ UNCHANGED <<environment, config, redemptionRequestCounter, redemptionRequests,
                 recreated, owed, payments, redeemed, paid, redemptionFees>>

TimesRecreated(id) == IF Outstanding(id) THEN recreated[id] ELSE recreated[id] + 1

\* No check that the id has an entry, or what has become of it.
OverwriteRedeemer(caller, id, user, amountBurned, priceId) ==
  /\ OnlyRole("MANAGER_ADMIN", caller)
  /\ ~Restricted(user)
  /\ redemptionIdToRedeemer' = [redemptionIdToRedeemer EXCEPT ![id] =
       [user |-> user, amountRwaTokenBurned |-> amountBurned, priceId |-> priceId]]
  /\ recreated' = [recreated EXCEPT ![id] = TimesRecreated(id)]
  /\ recreated'[id] <= MaxRecreated
  /\ owed' = [owed EXCEPT ![id] = (@ - AmountBurned(id)) + amountBurned]
  /\ pricedRedemptions' = IF priceId = 0 THEN pricedRedemptions \ {id}
                                         ELSE pricedRedemptions \cup {id}
  /\ UNCHANGED <<environment, config, redemptionRequestCounter, redemptionRequests,
                 payments, redeemed, paid, redemptionFees>>

RedemptionBatches == SUBSET RedemptionIds \ {{}}

RedemptionRequestStep ==
  \E user \in Users, amount \in RedemptionInputs :
    \/ RequestRedemption(user, amount)
    \/ RequestRedemptionServicedOffchain(user, amount)

RedemptionClaimStep ==
  \E redemptionIds \in RedemptionBatches : ClaimRedemption(redemptionIds)

RedemptionPriceStep(caller) ==
  \E redemptionIds \in RedemptionBatches :
    \E priceIds \in [redemptionIds -> PriceIds \cup {0}] :
      SetPriceIdForRedemptions(caller, redemptionIds, priceIds)

\* The manager corrects any id, with users that exist.
OverwriteRedeemerStep(caller) ==
  \E id \in RedeemerIds, user \in RedeemerUsers, amount \in RedeemerAmounts,
     priceId \in PriceIds \cup {0} :
       OverwriteRedeemer(caller, id, user, amount, priceId)

RedemptionOperatorStep ==
  \E caller \in Accounts :
    RedemptionPriceStep(caller) \/ OverwriteRedeemerStep(caller)

RedNext ==
  \/ RedemptionRequestStep
  \/ RedemptionClaimStep
  \/ RedemptionOperatorStep
  \/ ConfigNext /\ UNCHANGED <<environment, redemptions, redemptionHistory>>
  \/ EnvNext /\ UNCHANGED <<config, redemptions, redemptionHistory>>

RedSpec == RedInit /\ [][RedNext]_redVars

(***************************************************************************)
(* The operators do their work: prices are published, outstanding          *)
(* redemptions are priced, a paused hub is unpaused in the end, and a      *)
(* redemption that keeps becoming claimable is claimed.                    *)
(***************************************************************************)
PriceRedemption(id) ==
  \E caller \in Accounts, priceId \in PriceIds :
    Outstanding(id) /\ SetPriceIdForRedemptions(caller, {id}, [i \in {id} |-> priceId])

RedemptionServicing ==
  /\ WF_redVars(\E caller \in Accounts, pricer \in Pricers :
       pointers["pricer"] = ZeroAddress /\ SetPointer(caller, "pricer", pricer)
         /\ UNCHANGED <<environment, redemptions, redemptionHistory>>)
  /\ WF_redVars(\E caller \in Accounts : Unpause(caller, "redemption")
         /\ UNCHANGED <<environment, redemptions, redemptionHistory>>)
  /\ \A id \in RedemptionIds :
       /\ WF_redVars(PriceRedemption(id))
       /\ SF_redVars(ClaimRedemption({id}))

FairRedSpec == RedSpec /\ RedemptionServicing

-----------------------------------------------------------------------------
(* Properties. *)

(* Every token owed under an id, burned for it on chain or written by the  *)
(* manager's corrections, is still outstanding, has been redeemed exactly  *)
(* once, or stood in an entry that the request of the id replaced.  Only   *)
(* the manager can have written such an entry, ahead of the request: no    *)
(* interleaving of requests, pricings and batched claims loses or repeats  *)
(* a redemption.                                                           *)
RedemptionConservation ==
  \A id \in RedemptionIds :
    /\ owed[id] = redeemed[id] + AmountBurned(id) + redemptionRequests[id].replaced
    /\ redemptionRequests[id].replaced > 0 => recreated[id] > 0

RequestedOnChain(id) == IF redemptionRequests[id].kind = "onChain" THEN 1 ELSE 0
ToPay(id) == IF Outstanding(id) THEN 1 ELSE 0
NothingPaid(id) ==
  /\ redeemed[id] = 0
  /\ redemptionFees[id] = 0
  /\ \A user \in Users : paid[id][user] = 0

(* An id is paid at most once for its on-chain request, and once more for  *)
(* each correction by which the manager created an entry where there was   *)
(* none; an entry that is outstanding still has its payment to come.  So   *)
(* an id that the manager never gave a new entry is paid at most once, and *)
(* never before it is requested; a correction that lands after the claim   *)
(* of its id is the one way to a second payment.                           *)
PaidOnce ==
  \A id \in RedemptionIds :
    /\ payments[id] + ToPay(id) <= RequestedOnChain(id) + recreated[id]
    /\ payments[id] = 0 => NothingPaid(id)

(* The two kinds of redemption share one counter and stay apart: unless    *)
(* the manager writes an entry for it, tokens burned to be serviced off    *)
(* chain never come out as collateral on chain, even though the price      *)
(* setter may price their id, and even if it was priced early.             *)
OffChainNeverPaid ==
  \A id \in RedemptionIds :
    redemptionRequests[id].kind = "offChain" /\ recreated[id] = 0 =>
      /\ owed[id] = 0
      /\ ~Outstanding(id)
      /\ NothingPaid(id)

(* The collateral that leaves assetSender for an id, fee included, is worth *)
(* no more than the tokens redeemed, even at the highest price submitted:   *)
(* truncation and the fee both work against the redeemer.                   *)
PaidWithinWorth ==
  \A id \in RedemptionIds, user \in Users, price \in PriceValues :
    (\A p \in PriceValues : p <= price)
      => (paid[id][user] + redemptionFees[id]) * DecimalsMultiplier * PriceUnit
           <= redeemed[id] * price

(* A redemption is only paid at a price id attached after it was requested *)
(* (or written by the manager): a price id put on its id beforehand does   *)
(* not survive the request.                                                *)
PricedAfterRequest ==
  [][\A id \in RedemptionIds :
       Outstanding(id) /\ ~Outstanding(id)' => id \in pricedRedemptions]_redVars

(* Collateral only goes to the redeemer on record, in a batch too, and     *)
(* never to an account that the hub's blocklist names at that moment,      *)
(* whenever it was put there.                                              *)
PayoutGoesToRedeemer ==
  [][\A id \in RedemptionIds, user \in Users :
       paid'[id][user] # paid[id][user] =>
         /\ redemptionIdToRedeemer[id].user = user
         /\ user \notin blocked[pointers["blocklist"]]
         /\ ~Outstanding(id)']_redVars

(* When the operators do their work, every on-chain redemption is paid in  *)
(* the end.                                                                *)
RedemptionEventuallyPaid ==
  \A id \in RedemptionIds : Outstanding(id) ~> ~Outstanding(id)

=============================================================================
