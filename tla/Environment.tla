----------------------------- MODULE Environment -----------------------------
(***************************************************************************)
(* What surrounds the hub in detail: the price book of PriceBook and the   *)
(* lists of TransferLists.  The hub's modules were checked against         *)
(* HubEnvironment, which knows no oracle, no terms and no aggregator; here *)
(* the detailed contracts are shown to be such an environment.             *)
(***************************************************************************)
EXTENDS PriceBook, TransferLists

CONSTANTS
  Pricer,           \* the address of the book
  NoAddress,        \* address(0)
  FollowedParts     \* bound: the parts, "prices" or "lists", a run follows

ASSUME EnvironmentPartsAssumption ==
  /\ FollowedParts \subseteq {"prices", "lists"}
  /\ NoAddress \notin Holders \cup AllBlocklists \cup {Pricer}

VARIABLE followed  \* bound: the part this behaviour follows

environmentVars == <<bookVars, listVars, followed>>

\* The parts share no state, so a behaviour that interleaves them reaches
\* nothing in either that one following a single part does not; nor does it
\* matter in which state the part that is not followed stands still.
EnvironmentInit ==
  /\ BookInit /\ ListInit
  /\ followed \in FollowedParts
  /\ followed = "lists" =>
       /\ kind = CHOOSE any \in OracleKinds : TRUE
       /\ round.answer = CHOOSE any \in RoundAnswers : TRUE

EnvironmentNext ==
  \/ followed = "prices" /\ BookNext /\ UNCHANGED <<listVars, followed>>
  \/ followed = "lists" /\ ListNext /\ UNCHANGED <<bookVars, followed>>

EnvironmentSpec == EnvironmentInit /\ [][EnvironmentNext]_environmentVars

EnvironmentTypeOK == BookTypeOK /\ ListTypeOK

-----------------------------------------------------------------------------
(* As HubEnvironment sees it. *)

\* Pricer.getPrice of every id, which is 0 past the end of the book.
PriceOf == [priceId \in 1..MaxPriceId |->
              IF priceId <= currentPriceId THEN book[priceId].price ELSE 0]
BlockedBy(blocklist) == {account \in Holders : IsBlocked(blocklist, account)}

Hubs == INSTANCE HubEnvironment WITH
  BPS_DENOMINATOR <- ORACLE_BPS_DENOMINATOR, DecimalsMultiplier <- 1, PriceUnit <- 1,
  Users <- Holders, ListedUsers <- Holders, Pricers <- {Pricer},
  Blocklists <- AllBlocklists, ZeroAddress <- NoAddress,
  PriceIds <- 1..MaxPriceId, PriceValues <- PriceInputs \cup {InitialPrice},
  MaxTime <- MaxBookTime,
  blockTimestamp <- bookTime,
  prices <- [pricer \in {Pricer} |-> PriceOf],
  blocked <- [blocklist \in AllBlocklists |-> BlockedBy(blocklist)],
  holders <- {account \in Holders : Accepts(account)}

\* To the hub, pricers with and without an oracle hand out ids one by one and
\* never take a price back or turn one into 0.  For lists, pointers, terms and
\* the pause switch it asks less: they may change in any way which accounts
\* are blocked and which the token accepts, but nothing else.
\* Code: Pricer.sol:74-116, PricerWithOracle.sol:68-130,
\* AggregatorBlocklist.sol:17-62, USDY.sol:70-98.
ActsAsHubEnvironment ==
  Hubs!EnvInit /\ [][Hubs!EnvNext]_(Hubs!environment)

=============================================================================
