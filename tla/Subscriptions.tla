--------------------------- MODULE Subscriptions ---------------------------
(***************************************************************************)
(* The subscription half of the hub: a deposit is requested (on chain, or  *)
(* off chain through the relayer), is given a price id and a claimable     *)
(* timestamp by two different operators, and is claimed, which mints the   *)
(* `rwa` it is worth.  RWAHub, RWAHubOffChainRedemptions and the           *)
(* _claimMint of USDYManager, with the epoch limits left to USDYManager.   *)
(*                                                                         *)
(* An array of ids is a set here: in claimMint and setPriceIdForDeposits a *)
(* repeated id reverts the call (its entry is already deleted, its price   *)
(* already set) or changes nothing, and an empty array does nothing.       *)
(* A batch is one step: the call commits or reverts as a whole.            *)
(***************************************************************************)
EXTENDS HubConfig

CONSTANTS
  MaxSubscriptions,  \* bound on on-chain requests; ids 1..MaxSubscriptions
  OffChainIds,       \* deposit proofs the relayer may submit as deposit ids
  DepositInputs,     \* amounts users and the relayer submit
  OverwriteInputs,   \* amounts the manager writes when correcting an entry
  OverwriteUsers,    \* users the manager writes when correcting an entry
  MaxCredited        \* bound on the collateral credited to one id

\* Off-chain ids are bytes32 like the counter's, so they may coincide.
ASSUME SubscriptionAssumption ==
  /\ MaxSubscriptions \in Nat
  /\ OffChainIds \subseteq Nat \ {0}
  /\ DepositInputs \subseteq Nat
  /\ OverwriteInputs \subseteq Nat
  /\ OverwriteUsers \subseteq Users
  /\ MaxCredited \in Nat

OnChainIds == 1..MaxSubscriptions
DepositIds == OnChainIds \cup OffChainIds

VARIABLES
  depositIdToDepositor,
  depositIdToClaimableTimestamp,
  subscriptionRequestCounter,
  (* History: what the hub took and gave, by deposit id. *)
  credited,  \* collateral after fees acknowledged for the id, then as corrected
  replaced,  \* collateral in pending entries that a request replaced
  recreatedDeposits,  \* number of corrections that found no deposit pending
  feesPaid,  \* fees paid by on-chain requests for the id
  settled,   \* collateral amount of the claims of the id
  minted,    \* minted[id][u]: tokens minted to u by claims of the id
  priced,    \* ids given a price id since they were last requested or claimed
  released   \* ids given a claimable timestamp since they were last claimed

deposits == <<depositIdToDepositor, depositIdToClaimableTimestamp,
              subscriptionRequestCounter>>
history == <<credited, replaced, recreatedDeposits, feesPaid, settled, minted, priced,
             released>>
subVars == <<environment, config, deposits, history>>

Depositor == [user: Users \cup {ZeroAddress},
              amountDepositedMinusFees: Nat,
              priceId: PriceIds \cup {0}]
NoDepositor == [user |-> ZeroAddress, amountDepositedMinusFees |-> 0, priceId |-> 0]

DepositTypeOK ==
  /\ depositIdToDepositor \in [DepositIds -> Depositor]
  /\ depositIdToClaimableTimestamp \in [DepositIds -> 0..MaxTime]
  /\ subscriptionRequestCounter \in 1..(MaxSubscriptions + 1)
  /\ credited \in [DepositIds -> Nat]
  /\ replaced \in [DepositIds -> Nat]
  /\ recreatedDeposits \in [DepositIds -> Nat]
  /\ feesPaid \in [DepositIds -> Nat]
  /\ settled \in [DepositIds -> Nat]
  /\ minted \in [DepositIds -> [Users -> Nat]]
  /\ priced \subseteq DepositIds
  /\ released \subseteq DepositIds

SubTypeOK == EnvTypeOK /\ ConfigTypeOK /\ DepositTypeOK

SubInit ==
  /\ EnvInit
  /\ ConfigInit
  /\ depositIdToDepositor = [id \in DepositIds |-> NoDepositor]
  /\ depositIdToClaimableTimestamp = [id \in DepositIds |-> 0]
  /\ subscriptionRequestCounter = 1
  /\ credited = [id \in DepositIds |-> 0]
  /\ replaced = [id \in DepositIds |-> 0]
  /\ recreatedDeposits = [id \in DepositIds |-> 0]
  /\ feesPaid = [id \in DepositIds |-> 0]
  /\ settled = [id \in DepositIds |-> 0]
  /\ minted = [id \in DepositIds |-> [user \in Users |-> 0]]
  /\ priced = {}
  /\ released = {}

Pending(id) == depositIdToDepositor[id].user # ZeroAddress
Amount(id) == depositIdToDepositor[id].amountDepositedMinusFees

\* A new entry for `id`, whatever the slot held before.
Register(id, user, amountAfterFee) ==
  /\ depositIdToDepositor' = [depositIdToDepositor EXCEPT ![id] =
       [user |-> user, amountDepositedMinusFees |-> amountAfterFee, priceId |-> 0]]
  /\ credited[id] + amountAfterFee <= MaxCredited
  /\ credited' = [credited EXCEPT ![id] = @ + amountAfterFee]
  /\ replaced' = [replaced EXCEPT ![id] = @ + Amount(id)]
  /\ priced' = priced \ {id}

\* The request compares with maximumRedemptionAmount, as the code does.
RequestSubscription(user, amount) ==
  LET id == subscriptionRequestCounter
      feesInCollateral == GetMintFees(amount, amounts["mintFee"])
  IN  /\ ~paused["subscription"]
      /\ ~Restricted(user)
      /\ amount >= amounts["minimumDepositAmount"]
      /\ amount <= amounts["maximumRedemptionAmount"]
      /\ id <= MaxSubscriptions
      /\ feesInCollateral > 0 => Payable(pointers["feeRecipient"])
      /\ Payable(pointers["assetRecipient"])
      /\ subscriptionRequestCounter' = subscriptionRequestCounter + 1
      /\ Register(id, user, amount - feesInCollateral)
      /\ feesPaid' = [feesPaid EXCEPT ![id] = @ + feesInCollateral]
      /\ UNCHANGED <<environment, config, depositIdToClaimableTimestamp,
                     recreatedDeposits, settled, minted, released>>

\* Mutant: a proof that is still pending is accepted again.
AcceptsAnyProof(id) == TRUE

AcceptsProof(id) == ~Pending(id)

\* No collateral moves: the relayer vouches for a deposit made elsewhere.
RequestSubscriptionServicedOffchain(caller, user, amount, offChainDestination) ==
  LET feesInCollateral == GetMintFees(amount, amounts["mintFee"])
  IN  /\ OnlyRole("RELAYER_ROLE", caller)
      /\ ~paused["offChainSubscription"]
      /\ ~Restricted(user)
      /\ AcceptsProof(offChainDestination)
      /\ amount >= amounts["minimumOffChainSubscriptionAmount"]
      /\ amount <= amounts["maximumOffChainRedemptionAmount"]
      /\ Register(offChainDestination, user, amount - feesInCollateral)
      /\ UNCHANGED <<environment, config, depositIdToClaimableTimestamp,
                     subscriptionRequestCounter, recreatedDeposits, feesPaid, settled,
                     minted, released>>

\* _claimMint of USDYManager, then of RWAHub, then the mint of the token.
Claimable(id) ==
  LET depositor == depositIdToDepositor[id]
  IN  /\ depositIdToClaimableTimestamp[id] # 0
      /\ depositIdToClaimableTimestamp[id] <= blockTimestamp
      /\ depositor.priceId # 0
      /\ PriceAvailable
      /\ GetPrice(depositor.priceId) # 0
      /\ TokenAccepts(depositor.user)

RwaOwed(id) ==
  GetMintAmountForPrice(Amount(id), GetPrice(depositIdToDepositor[id].priceId))

\* Mutant: the claim does not delete the entries.
EntriesKept(depositIds) == depositIdToDepositor

\* Mutant: the claim does not delete the claimable timestamps.
TimestampsKept(depositIds) == depositIdToClaimableTimestamp

EntriesAfterClaim(depositIds) ==
  [id \in DepositIds |-> IF id \in depositIds THEN NoDepositor
                                              ELSE depositIdToDepositor[id]]

TimestampsAfterClaim(depositIds) ==
  [id \in DepositIds |-> IF id \in depositIds THEN 0
                                              ELSE depositIdToClaimableTimestamp[id]]

ClaimMint(depositIds) ==
  /\ ~paused["subscription"]
  /\ \A id \in depositIds : Claimable(id)
  /\ depositIdToDepositor' = EntriesAfterClaim(depositIds)
  /\ depositIdToClaimableTimestamp' = TimestampsAfterClaim(depositIds)
  /\ settled' = [id \in DepositIds |->
       IF id \in depositIds THEN settled[id] + Amount(id) ELSE settled[id]]
  /\ minted' = [id \in DepositIds |-> [user \in Users |->
       IF id \in depositIds /\ user = depositIdToDepositor[id].user
         THEN minted[id][user] + RwaOwed(id) ELSE minted[id][user]]]
  /\ priced' = priced \ depositIds
  /\ released' = released \ depositIds
  /\ UNCHANGED <<environment, config, subscriptionRequestCounter, credited,
                 replaced, recreatedDeposits, feesPaid>>

\* Mutant: a price id already set is replaced.
AcceptsPriceAgain(id) == Pending(id)

AcceptsPrice(id) == Pending(id) /\ depositIdToDepositor[id].priceId = 0

\* priceIds[id] is the price id submitted with id; 0 is accepted.
SetPriceIdForDeposits(caller, depositIds, priceIds) ==
  /\ OnlyRole("PRICE_ID_SETTER_ROLE", caller)
  /\ \A id \in depositIds : AcceptsPrice(id)
  /\ depositIdToDepositor' = [id \in DepositIds |->
       IF id \in depositIds
         THEN [depositIdToDepositor[id] EXCEPT !.priceId = priceIds[id]]
         ELSE depositIdToDepositor[id]]
  /\ priced' = priced \cup {id \in depositIds : priceIds[id] # 0}
  /\ UNCHANGED <<environment, config, depositIdToClaimableTimestamp,
                 subscriptionRequestCounter, credited, replaced,
                 recreatedDeposits, feesPaid, settled, minted, released>>

\* No check that the ids exist or that their timestamp is not already set.
SetClaimableTimestamp(caller, claimTimestamp, depositIds) ==
  /\ OnlyRole("TIMESTAMP_SETTER_ROLE", caller)
  /\ claimTimestamp >= blockTimestamp
  /\ depositIdToClaimableTimestamp' = [id \in DepositIds |->
       IF id \in depositIds THEN claimTimestamp
                            ELSE depositIdToClaimableTimestamp[id]]
  /\ released' = released \cup depositIds
  /\ UNCHANGED <<environment, config, depositIdToDepositor,
                 subscriptionRequestCounter, credited, replaced,
                 recreatedDeposits, feesPaid, settled, minted, priced>>

TimesRecreatedDeposit(id) ==
  IF Pending(id) THEN recreatedDeposits[id] ELSE recreatedDeposits[id] + 1

\* The manager's correction replaces the whole entry, or creates one: no
\* check that the id has one, or what has become of it.  The history follows
\* the amount it puts in the place of the old one.
OverwriteDepositor(caller, id, user, amountAfterFee, priceId) ==
  /\ OnlyRole("MANAGER_ADMIN", caller)
  /\ ~Restricted(user)
  /\ depositIdToDepositor' = [depositIdToDepositor EXCEPT ![id] =
       [user |-> user, amountDepositedMinusFees |-> amountAfterFee,
        priceId |-> priceId]]
  /\ credited[id] - Amount(id) + amountAfterFee <= MaxCredited
  /\ credited' = [credited EXCEPT ![id] = (@ - Amount(id)) + amountAfterFee]
  /\ recreatedDeposits' = [recreatedDeposits EXCEPT ![id] = TimesRecreatedDeposit(id)]
  /\ priced' = IF priceId = 0 THEN priced \ {id} ELSE priced \cup {id}
  /\ UNCHANGED <<environment, config, depositIdToClaimableTimestamp,
                 subscriptionRequestCounter, replaced, feesPaid, settled, minted,
                 released>>

Batches == SUBSET DepositIds \ {{}}

RequestStep ==
  \E user \in Users, amount \in DepositInputs :
    \/ RequestSubscription(user, amount)
    \/ \E caller \in Accounts, id \in OffChainIds :
         RequestSubscriptionServicedOffchain(caller, user, amount, id)

PriceIdStep(caller) ==
  \E depositIds \in Batches :
    \E priceIds \in [depositIds -> PriceIds \cup {0}] :
      SetPriceIdForDeposits(caller, depositIds, priceIds)

TimestampStep(caller) ==
  \E claimTimestamp \in 1..MaxTime, depositIds \in Batches :
    SetClaimableTimestamp(caller, claimTimestamp, depositIds)

\* The manager corrects any id, with users that exist.
OverwriteStep(caller) ==
  \E id \in DepositIds, user \in OverwriteUsers, amount \in OverwriteInputs,
     priceId \in PriceIds \cup {0} :
       OverwriteDepositor(caller, id, user, amount, priceId)

OperatorStep ==
  \E caller \in Accounts :
    PriceIdStep(caller) \/ TimestampStep(caller) \/ OverwriteStep(caller)

ClaimStep == \E depositIds \in Batches : ClaimMint(depositIds)

SubNext ==
  \/ RequestStep
  \/ ClaimStep
  \/ OperatorStep
  \/ ConfigNext /\ UNCHANGED <<environment, deposits, history>>
  \/ EnvNext /\ UNCHANGED <<config, deposits, history>>

SubSpec == SubInit /\ [][SubNext]_subVars

(***************************************************************************)
(* The operators do their work: prices are published, every pending        *)
(* deposit is given a price id and a claimable timestamp, a paused hub is  *)
(* unpaused in the end, and a deposit that keeps becoming claimable is     *)
(* claimed (by anyone: claimMint has no role).                             *)
(***************************************************************************)
HubIdle == UNCHANGED <<config, deposits, history>>

PriceDeposit(id) ==
  \E caller \in Accounts, priceId \in PriceIds :
    SetPriceIdForDeposits(caller, {id}, [i \in {id} |-> priceId])

ReleaseDeposit(id) ==
  /\ Pending(id) /\ depositIdToClaimableTimestamp[id] = 0
  /\ \E caller \in Accounts, claimTimestamp \in 1..MaxTime :
       SetClaimableTimestamp(caller, claimTimestamp, {id})

Servicing ==
  /\ WF_subVars(Tick /\ HubIdle)
  /\ \A pricer \in Pricers, priceId \in PriceIds :
       WF_subVars(\E price \in PriceValues : AddPrice(pricer, priceId, price) /\ HubIdle)
  /\ WF_subVars(\E caller \in Accounts, pricer \in Pricers :
       pointers["pricer"] = ZeroAddress /\ SetPointer(caller, "pricer", pricer)
         /\ UNCHANGED <<environment, deposits, history>>)
  /\ WF_subVars(\E caller \in Accounts : Unpause(caller, "subscription")
         /\ UNCHANGED <<environment, deposits, history>>)
  /\ \A id \in DepositIds :
       /\ WF_subVars(PriceDeposit(id))
       /\ WF_subVars(ReleaseDeposit(id))
       /\ SF_subVars(ClaimMint({id}))

FairSubSpec == SubSpec /\ Servicing

-----------------------------------------------------------------------------
(* Properties. *)

(* An id of the counter that another hand may have used before the counter *)
(* reaches it: the relayer's, as a proof, or the manager's.                *)
TakenEarly(id) ==
  id \in OnChainIds /\ (id \in OffChainIds \/ recreatedDeposits[id] > 0)

(* Every unit of collateral credited to a deposit id, by a request or by   *)
(* the manager's correction, is still pending under that id, has been      *)
(* claimed exactly once, or stood in an entry that a request replaced.     *)
(* That takes an id of the counter which the relayer also submitted as a   *)
(* proof, or which the manager wrote an entry for when none was pending:   *)
(* otherwise no request, claim, price or correction in any order loses or  *)
(* duplicates a deposit.                                                   *)
Conservation ==
  \A id \in DepositIds :
    /\ credited[id] = settled[id] + Amount(id) + replaced[id]
    /\ replaced[id] > 0 => TakenEarly(id)

(* Whatever ids the relayer and the manager choose, the claims of an id    *)
(* never settle more collateral than was credited to it, with what is      *)
(* pending counted too: a coincidence of ids can lose a deposit, it cannot *)
(* mint one twice.                                                         *)
NeverOverSettled ==
  \A id \in DepositIds : credited[id] >= settled[id] + Amount(id)

(* The tokens minted for an id are worth no more than the collateral its   *)
(* claims settled, even at the lowest price the updater ever submitted.    *)
MintedWithinWorth ==
  \A id \in DepositIds, user \in Users, price \in PriceValues \ {0} :
    (\A p \in PriceValues \ {0} : price <= p)
      => minted[id][user] * price <= ScaleUp(settled[id]) * PriceUnit

(* A deposit is only minted on the word of two operators: a price id and a *)
(* claimable timestamp were both given to this id since it was last        *)
(* claimed, so neither survives a claim to serve a second deposit that     *)
(* reuses the id (an off-chain proof submitted again).                     *)
MintNeedsBothOperators ==
  [][\A id \in DepositIds :
       Pending(id) /\ ~Pending(id)' => id \in priced /\ id \in released]_subVars

(* While a deposit is pending, its user and amount change only by the      *)
(* manager's correction, and a price id once set is never replaced by the  *)
(* price setter, by a second request or by another claim.  The one         *)
(* exception is an entry under an id that the counter has yet to hand out: *)
(* the request that takes the id replaces it.                              *)
PendingTermsStable ==
  [][\A id \in DepositIds :
       LET old == depositIdToDepositor[id]
           new == depositIdToDepositor'[id]
       IN  Pending(id) /\ new # old =>
             \/ new = NoDepositor
             \/ new = [old EXCEPT !.priceId = new.priceId] /\ old.priceId = 0
             \/ \E caller \in Accounts : OverwriteStep(caller)
             \/ /\ TakenEarly(id)
                /\ subscriptionRequestCounter = id /\ subscriptionRequestCounter' # id]_subVars

(* A claim pays the depositor on record, in a batch too: a step that mints *)
(* tokens for an id to a user consumes the entry of that id, the entry     *)
(* named that user, and the token accepted the user at that moment.        *)
MintGoesToDepositor ==
  [][\A id \in DepositIds, user \in Users :
       minted'[id][user] # minted[id][user] =>
         /\ depositIdToDepositor[id].user = user
         /\ user \in holders
         /\ ~Pending(id)']_subVars

(* Every on-chain subscription accepted while a mint fee is in force pays  *)
(* a fee: the floor the setters put under minimumDepositAmount keeps the   *)
(* truncated fee from being zero.                                          *)
NoFreeSubscription ==
  [][\A id \in DepositIds :
       subscriptionRequestCounter = id /\ subscriptionRequestCounter' # id
         /\ amounts["mintFee"] > 0
         => feesPaid'[id] > feesPaid[id]]_subVars

(* When the operators do their work, every deposit is minted in the end,   *)
(* however pauses, clock, price updates and timestamp changes interleave:  *)
(* no reachable state of a pending deposit is a dead end.                  *)
DepositEventuallyMinted ==
  \A id \in DepositIds : Pending(id) ~> ~Pending(id)

(* The facts the proofs of these properties rest on (SubscriptionsProofs). *)
EmptySlots ==
  \A id \in DepositIds : ~Pending(id) => depositIdToDepositor[id] = NoDepositor

FreshSlots ==
  \A id \in OnChainIds :
    id >= subscriptionRequestCounter /\ ~TakenEarly(id) => ~Pending(id)

Authorised ==
  \A id \in DepositIds :
    /\ depositIdToDepositor[id].priceId # 0 => id \in priced
    /\ depositIdToClaimableTimestamp[id] # 0 => id \in released

SubInv ==
  /\ SubTypeOK
  /\ PricesSubmitted
  /\ FeesBounded
  /\ EmptySlots
  /\ Authorised
  /\ NeverOverSettled
  /\ MintedWithinWorth

(***************************************************************************)
(* What documents and comments of the repository say and the code does not *)
(* do.  Each is checked by a run of its own that expects a violation.      *)
(***************************************************************************)

(* "Maximum amount that can be deposited to mint the RWA token", and       *)
(* "Maximum off chain subscription amount": a subscription above the       *)
(* maximum of its kind is refused.                                         *)
DepositWithinMaximum ==
  [][\A user \in Users, amount \in DepositInputs :
       /\ RequestSubscription(user, amount) => amount <= amounts["maximumDepositAmount"]
       /\ \A caller \in Accounts, id \in OffChainIds :
            RequestSubscriptionServicedOffchain(caller, user, amount, id)
              => amount <= amounts["maximumOffChainSubscriptionAmount"]]_subVars

(* "Function to pause off chain scriptions": it switches off the feature   *)
(* that requestSubscriptionServicedOffchain asks about.                    *)
OffChainSubscriptionPauses ==
  [][\A caller \in Accounts :
       PauseOffChainSubscription(caller) => paused'["offChainSubscription"]]_subVars

(* "Each deposit and redemption is given a unique subscription or          *)
(* redemption Id": a proof whose deposit was minted is not registered      *)
(* again.                                                                  *)
ProofServedOnce ==
  [][\A id \in OffChainIds : Pending(id)' /\ ~Pending(id) => settled[id] = 0]_subVars

=============================================================================
