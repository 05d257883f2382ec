# TLA+ models of the USDY contracts

This directory models USDY in TLA+: the hub that takes deposits and redemptions of the
token, its off-chain variants and the epoch limits of `USDYManager`; the price books with
their oracles and the lists that decide whose tokens move; and the scripts and tasks that
deploy and verify all of it. TLC checks the modules on small instances, TLAPS proves the
theorems listed below for every value of the constants. `PROJECT.json` lists components,
runs, hazards, findings and theorems, and the source lines each definition models.

## The system

| Component | State | Operations | Made correct by |
|---|---|---|---|
| `RWAHub` | entries by deposit id and by redemption id, two counters, limits, fees, address pointers, two pauses | request, claim, price ids, corrections, setters | conservation per id, no double claim, value never leaves in excess, terms of a pending entry stable |
| `RWAHubOffChainRedemptions` | two more pauses, four more limits | relayed subscriptions, wired redemptions, setters | proofs served once, off-chain redemptions never paid on chain |
| `USDYManager` | claimable timestamps, epoch schedule, maximums, tally records | timestamps, epoch setters, four request overrides | two operators per mint, maximum per epoch, limits and books agree on every request |
| `Pricer` | price by id, `currentPriceId`, `latestPriceId` | `addPrice`, `updatePrice` | ids in order, never a price of 0, the latest price is the one with the latest timestamp |
| `PricerWithOracle` | the same plus an oracle | `addPrice`, `addLatestOraclePrice`, `updatePrice` | book and oracle stay in step or the call reverts |
| `RWAOracleRateCheck` | price, timestamp | `setPrice` | bounded change per window |
| `RWAOracleExternalComparisonCheck` | price, timestamp, last round | `setPrice` | bounded change, bounded deviation from Chainlink, no reuse of a round |
| `USDY` | balances, roles, pause, list pointers | mint, burn, transfer, pointer setters | no transfer touches a blocked or disallowed account |
| `Blocklist`, `AggregatorBlocklist` | members, owner; array and map of lists | add, remove | array and map agree |
| `AllowlistUpgradeable`, `Allowlist` | terms, valid terms, statuses; a set of addresses | add terms, add accounts | only accounts with a valid term are allowed; a new term admits nobody until it is made valid |
| `USDYFactory`, `AllowlistFactory`, proxies | deployed addresses | deploy | every role handed over, none kept |
| `deploy/usdy/production` | deployment records | five scripts, run by hand, possibly again | what they announce is true; a run stopped half-way can be completed |
| `scripts/usdy` and the Safe | proposals, deployment records | five tasks that propose or save, execution by the Safe | no order of execution gives a token a second manager or admin, or a minter that is no manager |
| `scripts/usdy/verification-scripts` | none, they read | four checking tasks | they report a completed deployment as such |
| OpenZeppelin `AccessControl`, `Ownable2Step`, `ReentrancyGuard` | roles, owners | grant, revoke | vendored |
| `test`, `forge-tests` | none | | read as intent |

How they interact. A user calls `requestSubscription` and collateral moves to the custodian,
or sends collateral to a watched address and the relayer registers the transaction hash. A
price-id setter and a timestamp setter, two different roles, each attach their part; then
anyone calls `claimMint`, which asks the pricer for the price and the token to mint; the
token asks its blocklist and allowlist. Redemption is the mirror image: the request burns,
a price id is attached, and anyone claims the collateral, which leaves `assetSender`. The
manager and the pauser change amounts, pointers and switches at any time between these
transactions; pricer, oracle, lists and token are changed by their own owners. All of them
are put in place by scripts that send transactions, by tasks that only propose calls to a
Safe, and by deployment records that both read and write.

What is hard. Each transaction is atomic (`nonReentrant`, and a revert undoes all of it), so
the difficulty is not in one call but in the order of many calls by many roles: an id used
again after its deposit was claimed, a price id that arrives before its request, a correction
that arrives after the claim of the entry it was meant for, a schedule
moved under records that hold offsets of the old one, pointers and lists replaced between
request and claim, prices that arrive out of the order of their timestamps, an oracle set
behind the book's back, and integer division at small amounts. Deployment is not atomic at
all: a script may stop between two transactions, be run again over its own records, and
race proposals that the Safe executes days later.

## Modules

| Module | Content | Models |
|---|---|---|
| `HubMath` | fees and conversions as operators | `RWAHub.sol:698-766` |
| `HubEnvironment` | what the hub reads and does not own, abstractly: clock, price books, blocklists, accounts the token accepts | `Pricer.sol`, `Blocklist.sol`, the hook of `USDY.sol`, as the hub sees them |
| `HubConfig` | amounts, pointers, pauses and every setter | `RWAHub.sol:466-684`, `RWAHubOffChainRedemptions.sol`, `USDYManager.sol:91-128` |
| `Subscriptions` | deposits on and off chain, EXTENDS `HubConfig` | `RWAHub.sol:157-250, 341-359, 399-422`, the off-chain request, `USDYManager.sol:106-149` |
| `Redemptions` | redemptions on and off chain, EXTENDS `HubConfig` | `RWAHub.sol:258-326, 367-382, 435-458`, the off-chain request |
| `EpochLimits` | schedule, maximums, records | `USDYManager.sol:151-363` |
| `EpochTally` | what the limits promise, abstractly | refined by `EpochLimits` |
| `USDYManager` | `Subscriptions` and `Redemptions` on one configuration, with an instance of `EpochLimits` in front of the four requests | `USDYManager.sol` |
| `PriceBook` | a pricer, alone or with either oracle and its Chainlink feed | `Pricer.sol`, `PricerWithOracle.sol`, `rwaOracles/*` |
| `TransferLists` | blocklists, the aggregator, both allowlists, pointers and pause of the token, its transfer hook | `usdy/blocklist/*`, `usdy/allowlist/*`, `USDY.sol` |
| `Environment` | `PriceBook` and `TransferLists`, shown to implement `HubEnvironment` | |
| `Deployment` | production scripts, Defender tasks, factories, the Safe | `deploy/usdy/production/*`, `scripts/usdy/*.ts`, `scripts/utils/defender-helper.ts`, the factories |
| `Verification` | the checking tasks, over the state of `Deployment` | `scripts/usdy/verification-scripts/*` |
| `MC*` | values of the constants for TLC | |
| `*Proofs` | theorems and proofs | |

The composition, from the bottom: `HubEnvironment` is extended by `HubConfig`, `HubConfig` by
the two halves of the hub, and both halves by `USDYManager`, which puts `EpochLimits` in
front of them. `Environment` replaces `HubEnvironment` by the detailed contracts under a
refinement mapping. `Deployment` stands beside these: it models how the contracts come to
point at one another and who holds which role, which the others take as given.

State. The mappings of the contracts are functions with the same names over a finite set of
ids. `amounts`, `pointers` and `paused` are records of the scalar parameters by name, so that
one action stands for the setters that differ only in the field they write (four amount
setters with a floor, two fee setters with a ceiling, four pointer setters). In `PriceBook`
the two mappings of a pricer are one sequence, `book`, since ids are handed out one by one.
In `Deployment` an address is the kind of a contract and a number, a role assignment is a
triple in `grants`, `records` are the files under `deployments/<network>`, `proposals` what
the Safe has been asked, and `job` the script under way with its next step. History
variables (`credited`, `settled`, `minted`, `redemptionRequests`, `owed`, `payments`, `recreated`,
`accepted`, `announced`, `toldTheFuture`, ...) record what happened; no guard reads them except
the bounds `MaxCredited` and `MaxRecreated`.

Actions. One per external function, with every check of the code as a conjunct, modifiers
included. A call that reverts changes nothing, so a revert is an action that is not enabled. A
batch is one step. Arrays of ids are sets: in the two claims and in the pricing of deposits a
repeated id either reverts the call or changes nothing. The checks of `_claimMint` do not depend
on earlier entries of the batch. In `Deployment` one action is one transaction, saved record or
proposal of a script, because a script can stop between any two of them; the records a script
reads in between change under nobody else. A contract deployed by `deploy()` of hardhat-deploy and
the record of it are one action (`DeployOnce`, `DeployManager`): hardhat-deploy keeps the pending
transaction in a file, and a run stopped between the two resumes with the same contract. What the
scripts save themselves, and every other transaction, is a step of its own. A step whose record is
missing or whose transaction reverts throws and ends the script there.

What the models take as given:

* Collateral and allowance suffice: `safeTransferFrom` fails only at the zero address, which
  the pointer setters accept. An insufficient balance would only disable steps.
* Roles of the hub are a constant, `RoleMembers`; they change in `Deployment` only.
* For the hub, whether the token accepts an account is one set, `holders`, which may change
  at any time; the hub's own address keeps being accepted. `Environment` derives the set from
  the lists.
* A pricer is its price book. Ids are handed out in order from 1, and a price is never 0 once
  defined. A hub whose pricer is not set reverts on every claim.
* Integers are unbounded: a product beyond `uint256` reverts.
* The manager corrects any id, whether it has an entry or not, as in the code; the users it
  writes exist. The code also lets it write the zero address, which destroys a claim by fiat.
* An oracle was constructed with a positive price, which the constructor of the rate check
  requires and that of the comparison does not, and the feed answers no round with 0. An
  oracle that had stored 0 as its price or as the feed's answer could not be set again,
  because `setPrice` divides by both.
* The aggregator is not added to itself; its query would call itself until it reverts.
* Guardian, manager admin and deployer are one account in the runs, as in
  `deploy/mainnet_constants.ts` (the scripts could not call `onlyGuardian` functions
  otherwise), and the pauser is another, as in `config.ts`; the proofs allow any accounts.

Operators whose comment begins with "Mutant" are single defects (a dropped check, a field not
deleted, a division rounded up). Nothing uses them; they are listed in `PROJECT.json` beside
the property that fails when they replace the operator after them.

## What TLC checks

Runs that pass:

| Run | Instance | Shows |
|---|---|---|
| `subscriptions_core` | 2 users, one on and off the lists, 1 counter id, 2 proofs of which one equals that id, prices 2 and 3, fee on and off, minimums moving, corrections of any id | `Conservation`, `PendingTermsStable`, `NeverOverSettled`, `MintedWithinWorth`, `MintNeedsBothOperators`, `MintGoesToDepositor`, `NoFreeSubscription`, `SubTypeOK` |
| `redemptions_core` | 2 users, 2 ids of either kind, fees, corrections of the second id before, during and after its redemption; two blocklists, token and pointers change | `RedemptionConservation`, `PaidOnce`, `OffChainNeverPaid`, `PaidWithinWorth`, `PricedAfterRequest`, `PayoutGoesToRedeemer`, `RedTypeOK` |
| `manager_limits` | 2 users, of whom one is also the relayer; all four requests behind the limits; maximums, minimums, fee, start and interval change | `RequestsCounted`, `ManagerTypeOK` |
| `hub_liveness` | deposits and redemptions side by side, pauses, fair operators | `DepositEventuallyMinted`, `RedemptionEventuallyPaid` |
| `epoch_tally` | 2 users, deposits, from deployment on: starts 1 and 2, intervals 0, 1 and 2, moved while no limited request is on record | refinement of `EpochTally`, `NoRecordFromTheFuture`, `WithinEpochMaximum`, `FreshEpochFreshAllowance` |
| `environment` | three kinds of pricer, a feed of 3 rounds, another setter of the oracle; two blocklists, aggregator, both allowlists with 2 terms | `ActsAsHubEnvironment`, `LatestIsNewest`, `PriceDriftBounded`, `AggregatorAgrees`, `NewTermAdmitsNobody`, `EnvironmentTypeOK` |
| `deployment_tokens` | two tokens, one interruption, every script and task again at any time | `OneManagerPerToken`, `OnlyManagersMint`, `DoneMeansWired`, `TokensHaveLists`, `CompleteReports`, `DepTypeOK` |
| `deployment_completes` | one token, one interruption, the procedure followed to its end | `DeploymentCompletes` |

Corrections. `overwriteDepositor` and `overwriteRedeemer` check nothing about the id, so they may
also create an entry: for an id whose claim landed first, for one serviced off chain, for one the
counter has not handed out. The properties say what such a correction is worth. `recreated`
counts the corrections of an id that found no entry: `PaidOnce` allows one payment for the
on-chain request and one for each of these, and none for anything else; `OffChainNeverPaid`
is about ids without one. An entry written early is replaced by the request that takes its id
(`replaced` in `Conservation` and `RedemptionConservation`), and that only happens to an id of the
counter that the relayer submitted as a proof or the manager wrote to (`TakenEarly`).

`ActsAsHubEnvironment` asks much of the price books (ids in order, no price taken back or turned
into 0) and little of the lists, which to the hub may change in any way; what is asked of the
lists themselves is in `AggregatorAgrees` and `NewTermAdmitsNobody`.

No run disables the deadlock check: an admin setter, a change of the environment or the start
of a script is always possible.

Runs that find a violation, each of a sentence of the repository (`findings` quotes them):
`deposit_maximum` (the maximum compared is the one of redemptions, on chain and off chain),
`off_chain_pause` (the wrong switch is written), `proof_replay` (a claimed proof is accepted
again) and `epoch_moved_earlier` (a moved schedule forgets what was accepted). The property of the
last one holds in `epoch_tally`, where the schedule moves only while no limited request is on
record (`ScheduleSettled`); so does `FreshEpochFreshAllowance`, which a schedule moved later would
break in the same way, by charging a fresh epoch with the amount of an old one. Nothing in the
code refuses a redemption at a price id that the pricer does not know: it settles for nothing, in
the model as in the code.

### Bounds

Hub. `MaxSubscriptions`, `MaxRedemptions` and `OffChainIds` bound the ids: two ids suffice
for the properties, which relate one id to its own history or one id to the rest of its batch.
`MaxCredited` bounds what one id may be credited; in `hub_liveness` and `proof_replay` it
admits a second use of one proof. `RedeemerIds` are the redemption ids that are corrected: the
second, which is taken by either kind of request after the first, and is also early or late.
`MaxRecreated` is 1: one correction that finds no entry leads to the second payment; more of them
add one payment each, which the proof covers. `MaxTime` bounds the clock: two instants separate a
timestamp in the future from one that has passed. In `epoch_tally` five instants hold a
schedule that is set, moved, switched off and set again, and up to four epochs after it. In
`manager_limits` two instants, starts of 1 and 3 and intervals of 1 and 2 make a second
epoch, a start that is refused because it lies ahead, and a record that has to be reset;
nobody prices or claims there, so no pricer is set and no price submitted.
`DepositInputs`, `OverwriteInputs`, `RedemptionInputs`,
`RedeemerAmounts`, `OverwriteUsers`, `RedeemerUsers`, `AmountInputs`, `PointerInputs`,
`ListedUsers`, `MaximumInputs`, `StartInputs`, `IntervalInputs` and `Requests` are the inputs
tried. `BPS_DENOMINATOR` is 2 in the runs, so that a fee of 1 is one half and an amount of 1
is under the floor; `DecimalsMultiplier` is 1 and `PriceUnit` is 1 in
subscriptions and 2 in `redemptions_core`, where a price of 3 makes the conversion truncate;
the effect of other values is proved in `HubMathProofs`.

Environment. The oracle starts at 199 with bounds of 1 and 2 in 100, so that 200 and 201 lie on
either side of a bound once a change is rounded up by the rate check or towards zero by the
comparison; 0 is refused. Windows of 2 within 5 instants allow two updates and refuse one that
comes early. Timestamps 1, 2 and 5 arrive in order, out of order, twice, and ahead of the block.
`MaxPriceId`, `MaxRounds`, `MaxTerms` and `MaxValidIndexes` bound the book, the feed and the
terms, of which two let a term be current while the other is valid; two blocklists are what the
aggregator needs for the swap in its removal, and one holder besides the hub what the hook needs
for its checks of sender and receiver. The two blocklists are interchangeable, and the run treats
them so (`MCSymmetry`; it checks no liveness). `FollowedParts`: prices and lists share no
variable, so a behaviour that follows one of them while the other stands still reaches every state
of either that the interleaving reaches, and the property compares them with the hub's environment
step by step.

Deployment. `MaxTokens` is 2, because what can go wrong is a record of one token used for the
other; `MaxAborts` is 1, since an interrupted script that is run again is interrupted in the
state the first interruption left. `FollowedRoles` is `MINTER_ROLE`: the other grants of
`5-usdyManager-prod` differ from it in the role only, and following them all multiplies the
states by the subsets of proposals executed. The proofs follow any set of roles. The bound
on tokens keeps a third from being deployed, not from being wanted.

### Fairness

`FairManagerSpec` says what the protocol needs from its operators and no more: weak fairness
of publishing prices, of setting a missing pricer, of pricing a pending entry, of giving a
timestamp to one that has none, of unpausing and of the clock; strong fairness of claiming,
because pauses keep interrupting it and because anyone may claim. No fairness is asked of
users, setters, pauses or lists, and none of the setters of the limits. The contracts do not
schedule these calls; the README of the repository describes them as what the operators do.
The manager may keep postponing a timestamp in the code for as long as it likes; in the run
`MaxTime` ends that, so the result is about deposits whose timestamp is not postponed for
ever. `hub_liveness` has accounts that the lists let through: a blocked redeemer waits until
it is unblocked.

`FairDepSpec` says that the procedure is followed: a script under way takes its next step
unless it is stopped; each script and task of the USDY procedure is started again and again
(strong fairness, because starting needs that no other script is under way), the one that
deploys a token only until there is one; and the Safe executes some proposal as long as one
would change something. Interruptions are limited by `MaxAborts`, as an operator who is
interrupted for ever completes nothing.

### Met while modelling

These are remarks on what the code does; no sentence of the repository says otherwise, or the
models leave that part out.

* `check-usdy` stops at `LIST_CONFIGURER_ROLE`: `config.ts:72` expects the guardian, but
  nobody grants that role on the token (`5-usdyManager-prod.ts:131-139` grants it on the
  manager), and `getRoleMember` reverts. Minters and list pointers, which come after, are
  never compared. `CompleteReports` states where each task ends.
* `check-usdy` and `check-usdy-manager` call `sanctionsList`, which the contracts do not have;
  the call throws, as the last one of its task. `check-blocklist` asks for a name that the
  aggregator does not have. `check-allowlist` fits the factory's proxy only; on the plain
  `Allowlist` that `Prod-USDY-1` deploys it ends at `getProxyAdmin`.
* The plain `Allowlist` does not allow the manager by itself, which `AllowlistUpgradeable` in
  effect does: until the owner adds the manager no mint or burn through it passes the hook.
* `3-usdy-prod` encodes `deployUSDY` with a tuple of three members, so what the Safe is asked
  to execute always reverts. Tokens come from `Prod-USDY-3`.
* `Prod-USDY-5` can print "All has done." while the aggregator lists no blocklist: a
  `Prod-USDY-2` stopped before its last step leaves the records that the others ask for.
  `DoneMeansWired` says what does hold then; `DeploymentCompletes` that running the script
  again repairs it.
* `overwriteRedeemer` and `overwriteDepositor` do not look at the entry they replace. A correction
  of a redemption that someone claims first is paid a second time, and a correction of an id
  serviced off chain can be claimed on chain. Redemptions can be paused during a correction; the
  event `RedeemerOverwritten` shows afterwards what stood in the slot. `PaidOnce` counts these
  payments.
* `5-usdyManager-prod` reads two records, so after a second `Prod-USDY-3` or `Prod-USDY-5` it
  may propose the newest manager as minter of an older token, or the manager of an older token as
  minter of the newest. `OnlyManagersMint` allows both: it says that a minter is some manager.
* The comment at `PricerWithOracle.sol:101-102` holds for an updater that submits no timestamp
  ahead of the block; `LatestIsNewest` has that proviso. A timestamp of 0 in an empty `Pricer`
  leaves `latestPriceId` at 0.
* The two oracles round differently: the rate check rounds a change up, the comparison towards
  zero, so that it accepts a change just short of one more basis point than its bound.
  `PriceDriftBounded` has the one basis point.

## What is proved

The proofs rest on the named assumptions about the constants (`ASSUME` in the modules that
declare them), which TLC evaluates in every run. They are what the constructors and constants
of the code establish: `ChangesAssumption` of `PriceBook`, for one, says that a bounded change
is less than the whole price; the bounds in the code are 1%, 0.74% and 2%.

`HubMathProofs`: truncating division bounded from both sides, and from it that a fee never
exceeds its amount (`FeeAtMostAmount`, no underflow), is never 0 above the floor
(`FeeNeverRoundsToZero`), that a mint is worth at most its deposit (`MintWorthAtMostDeposit`)
and that mint and redemption at one price never profit (`RoundTripNeverProfits`).
`HubConfigProofs`: what setters and environment preserve.

`SubscriptionsProofs`: `SubInv` is inductive. Its parts beyond the types:

* `PricesSubmitted` and `FeesBounded`: without them a claim could divide by a price nobody
  submitted and a fee could exceed its deposit.
* `EmptySlots`: an entry without a user holds no amount and no price id, so that a new request
  starts from nothing.
* `Authorised`: a price id or timestamp on record was given since the id was last claimed. This
  is what `MintNeedsBothOperators` needs in the state before the claim.
* `NeverOverSettled`, `MintedWithinWorth`: the properties themselves.

`SubTypeCorrect`, `NeverOverSettledHolds`, `MintedWithinWorthHolds`, `MintNeedsBothOperatorsHolds`
and `MintGoesToDepositorHolds` follow for all constants. `ConservationHolds` and
`PendingTermsStableHolds` need one more conjunct, `FreshSlots`: the counter finds an entry under
the id it hands out only if that id was taken early, by the relayer's proof or the manager's
correction. So what a request replaces is accounted for. `NoFreeSubscriptionHolds` assumes
`ConstructorFloors`, since the constructor, unlike the setters, does not check the minimums.

`RedemptionsProofs`: `RedInv` is inductive. Its parts beyond the types, for each id:

* `SlotInv`: a slot that is not outstanding holds no amount, and an id not handed out was requested
  by nobody (the price setter and the manager may have written to its slot).
* `Conserved`: what is owed is redeemed, outstanding, or stood in an entry the request replaced.
* `PaidForEntries`: payments made and to come number at most the on-chain request and the
  corrections that created an entry. A claim turns one to come into one made, because it deletes
  the entry. `OffChainNeverPaid` follows: without a request or a correction there is none to come.
* `WithinWorth`: what was paid against what was redeemed, at the highest price ever submitted.
* `PriceIdsRecorded`: the price id of an outstanding entry was given after its request, which
  is what `PricedAfterRequest` needs in the state before the claim.

`EpochLimitsProofs`: `EpochTypeCorrect` and `StartStaysInPast` for the full specification.
The other results are about `SettledSpec`, in which the schedule moves only while no limited
request is on record. `NoRecordFromTheFutureHolds` needs that the current epoch never moves
back, which is a fact about `(a \div b) * b`. `SettledInv` adds that each record agrees with
what was accepted in the calendar epoch; a move of the schedule keeps it because records and
calendar are then both empty, and no other step touches the schedule. On it rest
`WithinEpochMaximumHolds`, `FreshEpochFreshAllowanceHolds` and `LimitsImplementTallyHolds`: the
refinement mapping reads a record as its amount if it is dated with the current epoch and as 0
otherwise; `Tick` maps to `NextEpoch` or a stutter, a request to `Accept`, or to a stutter while
the interval is 0, a setter of a maximum to `ChangeMaximums`, and a setter of the schedule to
`LayOutEpochs`, which `EpochTally` allows until something is tallied: hence the lemma that no
request empties a record.

`USDYManagerProofs`: every step of the manager is a step or a stutter of each of its three
parts, hence `ManagerSpec => SubSpec`, `ManagerSpec => RedSpec` and `ManagerSpec =>
Limits!EpochSpec`: whatever is proved of a part holds of the manager. `ManagerConserves` and
`ManagerTypeCorrect` are drawn from that, as are `ManagerKeepsPromises`, which collects the
properties of the two halves, and `ManagerKeepsMaximum`: the epoch limits hold in the composed
contract if every step satisfies `ScheduleSettled`. `RequestsCountedHolds` is what no part
could state alone: the records grow by what the hub registers.

`EnvironmentProofs`: `LatestIsNewestHolds` from `NewestInv`, which adds that with an oracle
the latest timestamp is never ahead of the oracle's unless the updater told the future;
`AggregatorAgreesHolds` from `AggregatorInv`, which adds that no list is in the array twice,
without which removal by swapping would leave one behind. `NewTermAdmitsNobodyHolds` needs from the
types that valid indexes are those of terms that exist. `EnvironmentTypeCorrect` is the type
invariant. `PriceDriftBoundedHolds` rests on `DriftInv`: the price of each accepted update is
within as many changes of the first price as windows had ended by then, because an update needs
a whole window since the one before, and one change more multiplies both sides by one factor
more. `Powers` is a recursive function, not an operator; that it is what its equation says, and
that its values are positive, is shown for every exponent from the least one that fails
(`WFMin` over the natural numbers). `ActsAsHubEnvironmentHolds` is the refinement: what the
three kinds of pricer and the lists do is, seen through the prices and the accounts refused,
a step of `HubEnvironment` or a stutter. It needs that ids beyond the last hold no price
(`PricesKnown`), so that an id handed out is the hub's next one.

`DeploymentProofs`: `DepInv` is inductive, for any accounts, bounds and set of followed roles.
`RecordsOK` says what a record may name, `ProposalsOK` that the Safe is never asked to make
anyone admin nor anyone but a manager minter, `GrantsOK` who holds roles on a token,
`ManagersOK` that managers were deployed for tokens in the order of the tokens, `JobOK` what
the steps behind a script under way have established, and `AnnouncedOK` that an announcement
stays true. `OneManagerPerTokenHolds`, `OnlyManagersMintHolds`, `DoneMeansWiredHolds`,
`TokensHaveListsHolds` and `DepTypeCorrect` follow. `RolesInv` adds who holds the roles of a
manager: what `5-usdyManager-prod` may propose, that a manager's roles go to its administrator
and pauser alone, and that no token has one of them. From both follows `CompleteReportsHolds`,
with the checks of each task worked out one by one up to the first that cannot be made. It
assumes that the guardian is the manager's administrator, as in `mainnet_constants.ts`:
`config.ts` expects the guardian in the roles the constructor gives to the administrator.

Only model-checked: the liveness properties `DepositEventuallyMinted`,
`RedemptionEventuallyPaid` and `DeploymentCompletes` (liveness under fairness is beyond the
proof system). Every safety and action property of a passing run has its theorem. The
sentences that the violation runs refute stay with TLC, which shows the behaviour.

## Not modelled

* Token balances, `burn` by `BURNER_ROLE` and transfers between users: they change nothing the
  hub or the lists read. The transfer hook is modelled for mints and burns of the hub.
* `multiexcall` of the factories, which lets the guardian make any call; upgrades of proxies;
  ownership in two steps, which is vendored.
* Signatures of the allowlist (a signature is the account's consent), events and names. One
  name differs between the scripts and `config.ts`; nothing depends on it.
* `MockERC20`, a test double, and `AllowlistClient`, which no contract here uses.
* `scripts/ommf`: the contracts it deploys are not in the repository.
* `deploy/usdy/local`: it calls constructors the contracts no longer have.
  `deploy/usdy/production/1_deploy_allowlistFactory.ts` exports nothing that would run.
* `check-usdy-pricer` and `check-rwaOracle`: they compare constants of a constructor with
  constants of `config.ts`, where the oracle's address is the empty string.
* `scripts/ci/event_coverage_usdy.ts` calls `setSanctionsList`, which no contract has;
  `utils/util.ts`, `shell.ts`, `deploy.ts` and the configuration of hardhat are tooling.
