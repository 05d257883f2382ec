------------------------------ MODULE PriceBook ------------------------------
(***************************************************************************)
(* The price book the hub reads.  It is a Pricer, whose prices come from   *)
(* its updater alone, or a PricerWithOracle, which also moves an oracle:   *)
(* a RWAOracleRateCheck, or a RWAOracleExternalComparisonCheck that        *)
(* compares each change with the rounds of a Chainlink feed.  Others may   *)
(* hold SETTER_ROLE on the oracle and set its price behind the book.       *)
(* Time is counted in a unit of which the windows are multiples.           *)
(***************************************************************************)
EXTENDS Integers, Sequences

CONSTANTS
  OracleKinds,             \* bound: the kinds of oracle, "none" for a Pricer
  InitialPrice,            \* initialprice and _initialPrice of the oracles
  PriceInputs,             \* prices submitted; one that is not positive is refused
  TimestampInputs,         \* timestamps submitted with them
  RoundAnswers,            \* answers of the Chainlink feed
  ORACLE_BPS_DENOMINATOR,
  MAX_CHANGE_DIFF_BPS,     \* [kind -> bound on a change of the price]
  MAX_ABSOLUTE_DIFF_BPS,
  MIN_PRICE_UPDATE_WINDOW,
  MAX_CL_WINDOW,
  MaxBookTime,             \* bound on the block timestamp
  MaxPriceId,              \* bound on the length of the book
  MaxRounds                \* bound on the rounds of the feed

Kinds == {"none", "rateCheck", "comparison"}

ASSUME PriceBookAssumption ==
  /\ OracleKinds \subseteq Kinds
  /\ InitialPrice \in Nat \ {0}
  /\ PriceInputs \subseteq Nat
  /\ TimestampInputs \subseteq Nat
  /\ RoundAnswers \subseteq Nat \ {0}
  /\ ORACLE_BPS_DENOMINATOR \in Nat \ {0}
  /\ MAX_CHANGE_DIFF_BPS \in [{"rateCheck", "comparison"} -> Nat]
  /\ MAX_ABSOLUTE_DIFF_BPS \in Nat
  /\ MIN_PRICE_UPDATE_WINDOW \in Nat \ {0}
  /\ MAX_CL_WINDOW \in Nat
  /\ MaxBookTime \in Nat \ {0} /\ MaxPriceId \in Nat /\ MaxRounds \in Nat

\* The oracles' constants are 100, 74 and 200 of 10 000: one change takes off
\* no more than the price.
ASSUME ChangesAssumption ==
  /\ MAX_CHANGE_DIFF_BPS["rateCheck"] <= ORACLE_BPS_DENOMINATOR
  /\ MAX_ABSOLUTE_DIFF_BPS < ORACLE_BPS_DENOMINATOR

VARIABLES
  bookTime,       \* block.timestamp
  kind,           \* which contracts these are, fixed
  book,           \* prices and priceIds: the ids are 1..currentPriceId
  latestPriceId,
  oracle,         \* rwaPrice and priceTimestamp
  round,          \* the feed's latest round
  lastSetRound,   \* the round of the oracle's last accepted price
  toldTheFuture   \* History: addPrice got a timestamp ahead of the block's

bookVars == <<bookTime, kind, book, latestPriceId, oracle, round, lastSetRound,
              toldTheFuture>>

PriceInfo == [price: Nat, timestamp: Nat]
currentPriceId == Len(book)
HasOracle == kind # "none"

\* prices[latestPriceId].timestamp; prices[0] is never written.
LatestTimestamp == IF latestPriceId = 0 THEN 0 ELSE book[latestPriceId].timestamp

BookTypeOK ==
  /\ bookTime \in 1..MaxBookTime
  /\ kind \in OracleKinds
  /\ book \in Seq(PriceInfo)
  /\ latestPriceId \in 0..currentPriceId
  /\ oracle \in [price: Nat \ {0}, timestamp: 1..bookTime]
  /\ round \in [roundId: Nat \ {0}, answer: Nat, updatedAt: 1..bookTime]
  /\ lastSetRound.roundId \in 1..round.roundId
  /\ toldTheFuture \in BOOLEAN

\* The oracle has been constructed, in the block and with the round at hand.
BookInit ==
  /\ bookTime = 1
  /\ kind \in OracleKinds
  /\ book = <<>>
  /\ latestPriceId = 0
  /\ oracle = [price |-> InitialPrice, timestamp |-> 1]
  /\ \E answer \in RoundAnswers :
       round = [roundId |-> 1, answer |-> answer, updatedAt |-> 1]
  /\ lastSetRound = round
  /\ toldTheFuture = FALSE

BookTick ==
  /\ bookTime < MaxBookTime
  /\ bookTime' = bookTime + 1
  /\ UNCHANGED <<kind, book, latestPriceId, oracle, round, lastSetRound, toldTheFuture>>

\* The feed reports a new round.  While it reports a corrupted one setPrice
\* reverts, and the constructor did.
NewRound(answer) ==
  /\ kind = "comparison" /\ round.roundId < MaxRounds
  /\ round' = [roundId |-> round.roundId + 1, answer |-> answer, updatedAt |-> bookTime]
  /\ UNCHANGED <<bookTime, kind, book, latestPriceId, oracle, lastSetRound, toldTheFuture>>

-----------------------------------------------------------------------------
(* The oracles. *)

AbsoluteDifference(a, b) == IF a > b THEN a - b ELSE b - a

\* Mutant: solmate's mulDivDown.
MulDivDown(x, y, denominator) == (x * y) \div denominator

MulDivUp(x, y, denominator) == (x * y + denominator - 1) \div denominator

\* RWAOracleRateCheck._getPriceChangeBps, without a sign and rounded up.
RateChangeBps(previousPrice, newPrice) ==
  MulDivUp(AbsoluteDifference(previousPrice, newPrice), ORACLE_BPS_DENOMINATOR,
           previousPrice)

\* RWAOracleExternalComparisonCheck._getPriceChangeBps: Solidity divides
\* towards zero.
SignedChangeBps(previousPrice, newPrice) ==
  LET size == (AbsoluteDifference(previousPrice, newPrice) * ORACLE_BPS_DENOMINATOR)
                \div previousPrice
  IN IF newPrice >= previousPrice THEN size ELSE -size

WithinRate(newPrice) ==
  RateChangeBps(oracle.price, newPrice) <= MAX_CHANGE_DIFF_BPS["rateCheck"]

\* A change of the feed that is itself too large is ignored.
WithinComparison(newPrice) ==
  LET change == SignedChangeBps(oracle.price, newPrice)
      feedChange == SignedChangeBps(lastSetRound.answer, round.answer)
      allowance == MAX_CHANGE_DIFF_BPS["comparison"]
  IN /\ bookTime <= round.updatedAt + MAX_CL_WINDOW
     /\ round.roundId # lastSetRound.roundId
     /\ AbsoluteDifference(change, 0) <= MAX_ABSOLUTE_DIFF_BPS
     /\ AbsoluteDifference(feedChange, 0) <= MAX_ABSOLUTE_DIFF_BPS + allowance
          => AbsoluteDifference(change, feedChange) <= allowance

\* setPrice of the oracle at hand.
SetPrice(newPrice) ==
  /\ HasOracle
  /\ newPrice > 0
  /\ bookTime - oracle.timestamp >= MIN_PRICE_UPDATE_WINDOW
  /\ IF kind = "rateCheck" THEN WithinRate(newPrice) ELSE WithinComparison(newPrice)
  /\ oracle' = [price |-> newPrice, timestamp |-> bookTime]
  /\ lastSetRound' = IF kind = "comparison" THEN round ELSE lastSetRound

\* Another holder of SETTER_ROLE.
SetPriceDirectly(newPrice) ==
  /\ SetPrice(newPrice)
  /\ UNCHANGED <<bookTime, kind, book, latestPriceId, round, toldTheFuture>>

-----------------------------------------------------------------------------
(* The pricers. *)

Push(price, timestamp) ==
  /\ currentPriceId < MaxPriceId
  /\ book' = Append(book, [price |-> price, timestamp |-> timestamp])

\* Mutant: the latest price is the last one added.
NewerAlways(timestamp) == TRUE

Newer(timestamp) == timestamp > LatestTimestamp

\* The constructor of PricerWithOracle takes the oracle's price for id 1.
ConstructPricerWithOracle ==
  /\ HasOracle /\ book = <<>>
  /\ Push(oracle.price, oracle.timestamp)
  /\ latestPriceId' = 1
  /\ UNCHANGED <<bookTime, kind, oracle, round, lastSetRound, toldTheFuture>>

Constructed == HasOracle => book # <<>>

\* addPrice; PricerWithOracle's reverts as a whole when the newer price does
\* not follow the oracle's or the oracle refuses it.
AddPriceInfo(price, timestamp) ==
  /\ Constructed
  /\ price # 0
  /\ Push(price, timestamp)
  /\ IF Newer(timestamp)
       THEN /\ latestPriceId' = currentPriceId + 1
            /\ IF HasOracle
                 THEN book[latestPriceId].price = oracle.price /\ SetPrice(price)
                 ELSE UNCHANGED <<oracle, lastSetRound>>
       ELSE UNCHANGED <<latestPriceId, oracle, lastSetRound>>
  /\ toldTheFuture' = (toldTheFuture \/ timestamp > bookTime)
  /\ UNCHANGED <<bookTime, kind, round>>

AddLatestOraclePrice ==
  /\ HasOracle /\ Constructed
  /\ book[latestPriceId] # oracle
  /\ Push(oracle.price, oracle.timestamp)
  /\ latestPriceId' = currentPriceId + 1
  /\ UNCHANGED <<bookTime, kind, oracle, round, lastSetRound, toldTheFuture>>

\* Mutant: a price may be set to 0, which for the hub is no price.
UpdatePriceInfoUnchecked(priceId, price) ==
  /\ priceId \in 1..currentPriceId
  /\ book' = [book EXCEPT ![priceId].price = price]
  /\ UNCHANGED <<bookTime, kind, latestPriceId, oracle, round, lastSetRound, toldTheFuture>>

UpdatePriceInfo(priceId, price) ==
  /\ price # 0
  /\ priceId \in 1..currentPriceId
  /\ book' = [book EXCEPT ![priceId].price = price]
  /\ UNCHANGED <<bookTime, kind, latestPriceId, oracle, round, lastSetRound, toldTheFuture>>

BookNext ==
  \/ BookTick
  \/ \E answer \in RoundAnswers : NewRound(answer)
  \/ ConstructPricerWithOracle
  \/ AddLatestOraclePrice
  \/ \E price \in PriceInputs :
       \/ SetPriceDirectly(price)
       \/ \E timestamp \in TimestampInputs : AddPriceInfo(price, timestamp)
       \/ \E priceId \in 1..currentPriceId : UpdatePriceInfo(priceId, price)

-----------------------------------------------------------------------------

\* latestPriceId is the id of a price that no other in the book is newer
\* than, in whatever order prices arrive.  A PricerWithOracle skips the
\* comparison when it takes over the oracle's price, because its latest price
\* is never newer than that; this needs an updater that submits no timestamp
\* ahead of the block's.  Code: Pricer.sol:87-90, PricerWithOracle.sol:91-93.
LatestIsNewest ==
  ~(HasOracle /\ toldTheFuture) =>
    \A priceId \in 1..currentPriceId : book[priceId].timestamp <= LatestTimestamp

\* A function of n that proofs can unfold, where `^` is built in.
Powers(base) == LET power[n \in Nat] == IF n = 0 THEN 1 ELSE base * power[n - 1] IN power

\* The change that setPrice lets through, in whole basis points: the
\* comparison divides towards zero, so a change may come short of one more.
LargestChangeBps == IF kind = "rateCheck" THEN MAX_CHANGE_DIFF_BPS["rateCheck"]
                                          ELSE MAX_ABSOLUTE_DIFF_BPS + 1

\* The price is within `changes` changes of the first, up or down.
PriceWithin(changes) ==
  LET scaled == oracle.price * Powers(ORACLE_BPS_DENOMINATOR)[changes]
  IN /\ scaled <= InitialPrice * Powers(ORACLE_BPS_DENOMINATOR + LargestChangeBps)[changes]
     /\ scaled >= InitialPrice * Powers(ORACLE_BPS_DENOMINATOR - LargestChangeBps)[changes]

\* However often and by whomever it is set, the oracle's price moves by no
\* more than one bounded change for each window that has passed since its
\* construction.  Code: RWAOracleRateCheck.sol:85-93,
\* RWAOracleExternalComparisonCheck.sol:139-152.
PriceDriftBounded == PriceWithin((bookTime - 1) \div MIN_PRICE_UPDATE_WINDOW)

=============================================================================
