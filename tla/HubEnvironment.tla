--------------------------- MODULE HubEnvironment ---------------------------
(***************************************************************************)
(* What the hub reads and does not own: the block timestamp, the price     *)
(* books of the pricers it may point to, the blocklists it may point to,   *)
(* and the accounts the `rwa` token lets hold tokens.  Every step here is  *)
(* a transaction of another contract (or of time), taken between two       *)
(* transactions of the hub.                                                *)
(***************************************************************************)
EXTENDS HubMath, FiniteSets

CONSTANTS
  Users,         \* accounts that subscribe and redeem
  Pricers,       \* addresses of Pricer contracts
  Blocklists,    \* addresses of Blocklist contracts
  ZeroAddress,   \* address(0)
  PriceIds,      \* the price ids of the model, an initial segment of 1, 2, ...
  PriceValues,   \* prices the price updater submits; 0 is rejected
  ListedUsers,   \* bound: users whose list membership changes in a run
  MaxTime        \* bound on the block timestamp

ASSUME EnvironmentAssumption ==
  /\ ZeroAddress \notin Users \cup Pricers \cup Blocklists
  /\ PriceIds \subseteq Nat \ {0}
  /\ PriceValues \subseteq Nat
  /\ ListedUsers \subseteq Users
  /\ MaxTime \in Nat \ {0}

VARIABLES
  blockTimestamp,  \* block.timestamp
  prices,          \* prices[p][i]: price of id i in pricer p, 0 if undefined
  blocked,         \* blocked[b]: accounts on blocklist b
  holders          \* accounts the token's transfer hook accepts

environment == <<blockTimestamp, prices, blocked, holders>>

EnvTypeOK ==
  /\ blockTimestamp \in 1..MaxTime
  /\ prices \in [Pricers -> [PriceIds -> Nat]]
  /\ blocked \in [Blocklists -> SUBSET Users]
  /\ holders \in SUBSET Users

EnvInit ==
  /\ blockTimestamp = 1
  /\ prices = [p \in Pricers |-> [i \in PriceIds |-> 0]]
  /\ blocked = [b \in Blocklists |-> {}]
  /\ \E refused \in SUBSET ListedUsers : holders = Users \ refused

\* Blocks are mined and their timestamps grow.
Tick ==
  /\ blockTimestamp < MaxTime
  /\ blockTimestamp' = blockTimestamp + 1
  /\ UNCHANGED <<prices, blocked, holders>>

\* Pricer.addPrice: ids are handed out in order, one past the last.
AddPrice(pricer, priceId, price) ==
  /\ price # 0
  /\ prices[pricer][priceId] = 0
  /\ \A i \in PriceIds : i < priceId => prices[pricer][i] # 0
  /\ prices' = [prices EXCEPT ![pricer][priceId] = price]
  /\ UNCHANGED <<blockTimestamp, blocked, holders>>

\* Pricer.updatePrice: only an existing price, and never to 0.
UpdatePrice(pricer, priceId, price) ==
  /\ price # 0
  /\ prices[pricer][priceId] # 0
  /\ prices' = [prices EXCEPT ![pricer][priceId] = price]
  /\ UNCHANGED <<blockTimestamp, blocked, holders>>

\* A transaction on the lists.  The token and the hub may read the same list,
\* and an aggregator reads others, so what one transaction changes for an
\* account may show in several blocklists and in the token's hook at once.
ListsChange(listed, accepted) ==
  /\ blocked' = [b \in Blocklists |-> (blocked[b] \ ListedUsers) \cup listed[b]]
  /\ holders' = (holders \ ListedUsers) \cup accepted
  /\ blocked' # blocked \/ holders' # holders
  /\ UNCHANGED <<blockTimestamp, prices>>

EnvNext ==
  \/ Tick
  \/ \E pricer \in Pricers, priceId \in PriceIds, price \in PriceValues :
       \/ AddPrice(pricer, priceId, price)
       \/ UpdatePrice(pricer, priceId, price)
  \/ \E listed \in [Blocklists -> SUBSET ListedUsers], accepted \in SUBSET ListedUsers :
       ListsChange(listed, accepted)

\* A defined price is one the updater submitted, never 0.
PricesSubmitted ==
  \A pricer \in Pricers, priceId \in PriceIds :
    prices[pricer][priceId] \in {0} \cup PriceValues

\* _beforeTokenTransfer of the token, for a mint to or a burn from `account`.
TokenAccepts(account) == account \in holders

=============================================================================
