------------------------- MODULE EnvironmentProofs -------------------------
(***************************************************************************)
(* The contracts around the hub, for every book, feed, list and account:   *)
(* the latest price of a pricer is its newest, the oracle's price drifts   *)
(* by no more than its windows allow, the aggregator blocks what the lists *)
(* it knows block, a new term admits nobody, and to the hub they all are   *)
(* an environment of the kind its own modules assume.                      *)
(***************************************************************************)
EXTENDS Environment, TLAPS, WellFoundedInduction

(* A behaviour follows one part; the other stands still.                   *)
LEMMA StepOfPart ==
  [EnvironmentNext]_environmentVars => [BookNext]_bookVars /\ [ListNext]_listVars
  BY DEF EnvironmentNext, environmentVars

-----------------------------------------------------------------------------
(* The price book: types. *)

(* The book, the oracle and the feed keep their types.                     *)
LEMMA BookTypeInit == BookInit => BookTypeOK
<1> SUFFICES ASSUME BookInit PROVE BookTypeOK
  OBVIOUS
<1>1. /\ bookTime \in 1..MaxBookTime
      /\ oracle \in [price: Nat \ {0}, timestamp: 1..bookTime]
  BY PriceBookAssumption DEF BookInit
<1>2. PICK answer \in RoundAnswers :
        round = [roundId |-> 1, answer |-> answer, updatedAt |-> 1]
  BY DEF BookInit
<1>3. /\ round \in [roundId: Nat \ {0}, answer: Nat, updatedAt: 1..bookTime]
      /\ lastSetRound.roundId \in 1..round.roundId
  BY <1>2, PriceBookAssumption DEF BookInit
<1>4. book \in Seq(PriceInfo) /\ latestPriceId \in 0..currentPriceId
  BY DEF BookInit, currentPriceId
<1> QED
  BY <1>1, <1>3, <1>4 DEF BookInit, BookTypeOK

LEMMA BookTypeStep == BookTypeOK /\ [BookNext]_bookVars => BookTypeOK'
<1> SUFFICES ASSUME BookTypeOK, [BookNext]_bookVars PROVE BookTypeOK'
  OBVIOUS
<1>0. /\ PriceInputs \subseteq Nat /\ TimestampInputs \subseteq Nat
      /\ RoundAnswers \subseteq Nat \ {0} /\ MaxBookTime \in Nat
  BY PriceBookAssumption
<1>a. ASSUME NEW price \in Nat, NEW timestamp \in Nat, Push(price, timestamp)
      PROVE  book' \in Seq(PriceInfo) /\ Len(book') = Len(book) + 1 /\ Len(book) \in Nat
  BY <1>a DEF BookTypeOK, Push, PriceInfo
<1>b. ASSUME NEW price \in PriceInputs, SetPrice(price), UNCHANGED <<bookTime, round>>
      PROVE  /\ oracle' \in [price: Nat \ {0}, timestamp: 1..bookTime']
             /\ lastSetRound'.roundId \in 1..round'.roundId
  BY <1>0, <1>b DEF SetPrice, BookTypeOK
<1>1. CASE BookTick
  BY <1>0, <1>1 DEF BookTick, BookTypeOK, currentPriceId
<1>2. ASSUME NEW answer \in RoundAnswers, NewRound(answer) PROVE BookTypeOK'
  BY <1>0, <1>2 DEF NewRound, BookTypeOK, currentPriceId
<1>3. CASE ConstructPricerWithOracle
  <2>1. Push(oracle.price, oracle.timestamp) /\ oracle.price \in Nat /\ oracle.timestamp \in Nat
    BY <1>3 DEF ConstructPricerWithOracle, BookTypeOK
  <2> QED BY <1>3, <1>a, <2>1 DEF ConstructPricerWithOracle, BookTypeOK, currentPriceId
<1>4. CASE AddLatestOraclePrice
  <2>1. Push(oracle.price, oracle.timestamp) /\ oracle.price \in Nat /\ oracle.timestamp \in Nat
    BY <1>4 DEF AddLatestOraclePrice, BookTypeOK
  <2> QED BY <1>4, <1>a, <2>1 DEF AddLatestOraclePrice, BookTypeOK, currentPriceId
<1>5. ASSUME NEW price \in PriceInputs, SetPriceDirectly(price) PROVE BookTypeOK'
  BY <1>5, <1>b DEF SetPriceDirectly, BookTypeOK, currentPriceId
<1>6. ASSUME NEW price \in PriceInputs, NEW timestamp \in TimestampInputs,
             AddPriceInfo(price, timestamp)
      PROVE  BookTypeOK'
  <2>1. /\ Push(price, timestamp) /\ price \in Nat /\ timestamp \in Nat
        /\ UNCHANGED <<bookTime, kind, round>>
        /\ toldTheFuture' \in BOOLEAN
        /\ latestPriceId' = currentPriceId + 1 \/ latestPriceId' = latestPriceId
    BY <1>0, <1>6 DEF AddPriceInfo, BookTypeOK
  <2>2. SetPrice(price) \/ UNCHANGED <<oracle, lastSetRound>>
    BY <1>6 DEF AddPriceInfo
  <2>3. /\ oracle' \in [price: Nat \ {0}, timestamp: 1..bookTime']
        /\ lastSetRound'.roundId \in 1..round'.roundId
    BY <1>b, <2>1, <2>2 DEF BookTypeOK
  <2> QED BY <1>a, <2>1, <2>3 DEF BookTypeOK, currentPriceId
<1>7. ASSUME NEW price \in PriceInputs, NEW priceId \in 1..currentPriceId,
             UpdatePriceInfo(priceId, price)
      PROVE  BookTypeOK'
  <2>1. book' \in Seq(PriceInfo) /\ Len(book') = Len(book)
    <3>0. book[priceId] \in PriceInfo
      BY DEF BookTypeOK, currentPriceId
    <3>1. [book[priceId] EXCEPT !.price = price] \in PriceInfo
      BY <1>0, <3>0 DEF PriceInfo
    <3>2. book' = [book EXCEPT ![priceId] = [book[priceId] EXCEPT !.price = price]]
      BY <1>7 DEF UpdatePriceInfo
    <3> HIDE DEF PriceInfo
    <3> QED BY <3>1, <3>2 DEF BookTypeOK, currentPriceId
  <2> QED BY <1>7, <2>1 DEF UpdatePriceInfo, BookTypeOK, currentPriceId
<1>8. CASE UNCHANGED bookVars
  BY <1>8 DEF bookVars, BookTypeOK, currentPriceId
<1> QED
  BY <1>1, <1>2, <1>3, <1>4, <1>5, <1>6, <1>7, <1>8 DEF BookNext

-----------------------------------------------------------------------------
(* The price book: the latest price. *)

(* While no updater was ahead of the block, the oracle is at least as new  *)
(* as the latest price: the fact a PricerWithOracle rests on when it takes *)
(* over the oracle's price without a comparison.                           *)
NewestInv ==
  /\ bookTime \in Nat
  /\ book \in Seq(PriceInfo)
  /\ latestPriceId \in 0..currentPriceId
  /\ oracle \in PriceInfo
  /\ oracle.timestamp <= bookTime
  /\ toldTheFuture \in BOOLEAN
  /\ LatestIsNewest
  /\ HasOracle /\ ~toldTheFuture => LatestTimestamp <= oracle.timestamp

LEMMA NewestInit == BookInit => NewestInv
<1> SUFFICES ASSUME BookInit PROVE NewestInv
  OBVIOUS
<1>1. toldTheFuture \in BOOLEAN
  BY DEF BookInit
<1>2. LatestTimestamp = 0 /\ currentPriceId = 0
  BY DEF BookInit, LatestTimestamp, currentPriceId
<1>3. oracle \in PriceInfo /\ oracle.timestamp = 1
  BY PriceBookAssumption DEF BookInit, PriceInfo
<1> QED
  BY <1>1, <1>2, <1>3 DEF BookInit, NewestInv, LatestIsNewest

LEMMA BookFacts ==
  ASSUME NewestInv
  PROVE  /\ currentPriceId \in Nat /\ bookTime \in Nat
         /\ oracle.timestamp \in Nat /\ oracle.price \in Nat
         /\ \A i \in 1..currentPriceId : book[i] \in PriceInfo
         /\ \A i \in 1..currentPriceId : book[i].timestamp \in Nat
         /\ LatestTimestamp \in Nat
<1>1. currentPriceId \in Nat /\ \A i \in 1..currentPriceId : book[i] \in PriceInfo
  BY DEF NewestInv, currentPriceId
<1>2. \A i \in 1..currentPriceId : book[i].timestamp \in Nat
  BY <1>1 DEF PriceInfo
<1>3. LatestTimestamp \in Nat
  BY <1>1, <1>2 DEF NewestInv, LatestTimestamp
<1> QED
  BY <1>1, <1>2, <1>3 DEF NewestInv, PriceInfo

(* The book after a price is pushed.                                       *)
LEMMA Pushed ==
  ASSUME book \in Seq(PriceInfo), NEW price \in Nat, NEW timestamp \in Nat,
         Push(price, timestamp)
  PROVE  /\ currentPriceId \in Nat /\ currentPriceId < MaxPriceId
         /\ book' \in Seq(PriceInfo)
         /\ currentPriceId' = currentPriceId + 1
         /\ \A i \in 1..currentPriceId : book'[i] = book[i]
         /\ book'[currentPriceId + 1] = [price |-> price, timestamp |-> timestamp]
  BY DEF Push, PriceInfo, currentPriceId

(* A price that becomes the latest, no older than any other.               *)
LEMMA PushedLatest ==
  ASSUME NewestInv, NEW price \in Nat, NEW timestamp \in Nat, Push(price, timestamp),
         latestPriceId' = currentPriceId + 1, UNCHANGED <<bookTime, kind>>,
         oracle' \in PriceInfo, oracle'.timestamp <= bookTime',
         toldTheFuture => toldTheFuture', toldTheFuture' \in BOOLEAN,
         ~(HasOracle /\ toldTheFuture') => timestamp >= LatestTimestamp,
         HasOracle /\ ~toldTheFuture' => timestamp <= oracle'.timestamp
  PROVE  NewestInv'
<1>1. /\ book' \in Seq(PriceInfo)
      /\ currentPriceId' = currentPriceId + 1
      /\ \A i \in 1..currentPriceId : book'[i] = book[i]
      /\ book'[currentPriceId + 1] = [price |-> price, timestamp |-> timestamp]
  BY Pushed DEF NewestInv
<1>2. currentPriceId \in Nat /\ latestPriceId' # 0
  BY DEF NewestInv, currentPriceId
<1>3. LatestTimestamp' = timestamp
  BY <1>1, <1>2 DEF LatestTimestamp
<1>4. LatestTimestamp \in Nat /\ \A i \in 1..currentPriceId : book[i].timestamp \in Nat
  BY BookFacts
<1>5. LatestIsNewest'
  <2> SUFFICES ASSUME ~(HasOracle /\ toldTheFuture'), NEW i \in 1..(currentPriceId + 1)
               PROVE  book'[i].timestamp <= timestamp
    BY <1>1, <1>3 DEF LatestIsNewest, HasOracle
  <2>1. CASE i = currentPriceId + 1
    BY <1>1, <2>1
  <2>2. CASE i \in 1..currentPriceId
    <3>1. book[i].timestamp <= LatestTimestamp /\ LatestTimestamp <= timestamp
      BY <2>2 DEF NewestInv, LatestIsNewest
    <3> QED BY <1>1, <1>4, <2>2, <3>1
  <2> QED BY <1>2, <2>1, <2>2
<1> QED
  BY <1>1, <1>2, <1>3, <1>5 DEF NewestInv, HasOracle

LEMMA NewestStep == NewestInv /\ [BookNext]_bookVars => NewestInv'
<1> SUFFICES ASSUME NewestInv, [BookNext]_bookVars PROVE NewestInv'
  OBVIOUS
<1>0. /\ LatestTimestamp \in Nat /\ oracle.timestamp \in Nat /\ oracle.price \in Nat
      /\ currentPriceId \in Nat /\ bookTime \in Nat
      /\ \A i \in 1..currentPriceId : book[i].timestamp \in Nat
  BY BookFacts
<1>a. ASSUME UNCHANGED <<kind, book, latestPriceId, toldTheFuture>>,
             bookTime' \in Nat, oracle' \in PriceInfo, oracle'.timestamp <= bookTime',
             oracle.timestamp <= oracle'.timestamp
      PROVE  NewestInv'
  BY <1>0, <1>a DEF NewestInv, LatestIsNewest, LatestTimestamp, HasOracle, currentPriceId,
                    PriceInfo
<1>b. ASSUME NEW price \in PriceInputs, SetPrice(price), UNCHANGED bookTime
      PROVE  /\ oracle' \in PriceInfo
             /\ oracle'.timestamp = bookTime
  BY <1>0, <1>b, PriceBookAssumption DEF SetPrice, PriceInfo
<1>1. CASE BookTick
  BY <1>0, <1>1, <1>a DEF BookTick, NewestInv
<1>2. ASSUME NEW answer \in RoundAnswers, NewRound(answer) PROVE NewestInv'
  BY <1>0, <1>2, <1>a DEF NewRound, NewestInv
<1>3. CASE ConstructPricerWithOracle
  <2>1. latestPriceId' = currentPriceId + 1 /\ LatestTimestamp = 0
    BY <1>3 DEF ConstructPricerWithOracle, NewestInv, LatestTimestamp, currentPriceId
  <2> QED
    BY <1>0, <1>3, <2>1, PushedLatest DEF ConstructPricerWithOracle, NewestInv
<1>4. CASE AddLatestOraclePrice
  BY <1>0, <1>4, PushedLatest DEF AddLatestOraclePrice, NewestInv
<1>5. ASSUME NEW price \in PriceInputs, SetPriceDirectly(price) PROVE NewestInv'
  BY <1>0, <1>5, <1>a, <1>b DEF SetPriceDirectly, NewestInv
<1>6. ASSUME NEW price \in PriceInputs, NEW timestamp \in TimestampInputs,
             AddPriceInfo(price, timestamp)
      PROVE  NewestInv'
  <2>1. price \in Nat /\ timestamp \in Nat
    BY PriceBookAssumption
  <2>2. /\ Push(price, timestamp) /\ UNCHANGED <<bookTime, kind>>
    BY <1>6 DEF AddPriceInfo
  <2>f. /\ toldTheFuture' \in BOOLEAN
        /\ toldTheFuture => toldTheFuture'
        /\ ~toldTheFuture' => timestamp <= bookTime
    <3>1. toldTheFuture' = (toldTheFuture \/ timestamp > bookTime)
      BY <1>6 DEF AddPriceInfo
    <3>2. ~(timestamp > bookTime) => timestamp <= bookTime
      BY <1>0, <2>1
    <3> QED BY <3>1, <3>2, Zenon
  <2>3. CASE Newer(timestamp)
    <3>1. /\ latestPriceId' = currentPriceId + 1
          /\ HasOracle => SetPrice(price)
          /\ ~HasOracle => UNCHANGED oracle
      BY <1>6, <2>3 DEF AddPriceInfo
    <3>2. oracle' \in PriceInfo /\ oracle'.timestamp <= bookTime'
      BY <1>0, <1>b, <2>2, <3>1 DEF NewestInv
    <3>3. HasOracle /\ ~toldTheFuture' => timestamp <= oracle'.timestamp
      BY <1>b, <2>2, <2>f, <3>1
    <3> QED
      <4>1. timestamp >= LatestTimestamp
        BY <1>0, <2>1, <2>3 DEF Newer
      <4> QED BY <2>1, <2>2, <2>f, <3>1, <3>2, <3>3, <4>1, PushedLatest
  <2>4. CASE ~Newer(timestamp)
    <3>1. UNCHANGED <<latestPriceId, oracle>>
      BY <1>6, <2>4 DEF AddPriceInfo
    <3>2. /\ book' \in Seq(PriceInfo)
          /\ currentPriceId' = currentPriceId + 1
          /\ \A i \in 1..currentPriceId : book'[i] = book[i]
          /\ book'[currentPriceId + 1] = [price |-> price, timestamp |-> timestamp]
      BY <2>1, <2>2, Pushed DEF NewestInv
    <3>3. LatestTimestamp' = LatestTimestamp
      BY <3>1, <3>2 DEF LatestTimestamp, NewestInv
    <3>4. LatestIsNewest'
      <4> SUFFICES ASSUME ~(HasOracle /\ toldTheFuture'), NEW i \in 1..(currentPriceId + 1)
                   PROVE  book'[i].timestamp <= LatestTimestamp
        BY <2>2, <3>2, <3>3 DEF LatestIsNewest, HasOracle
      <4>1. CASE i = currentPriceId + 1
        BY <1>0, <2>1, <2>4, <3>2, <4>1 DEF Newer
      <4>2. CASE i \in 1..currentPriceId
        BY <2>2, <2>f, <3>2, <4>2 DEF NewestInv, LatestIsNewest
      <4> QED BY <1>0, <4>1, <4>2
    <3> QED
      BY <1>0, <2>2, <2>f, <3>1, <3>2, <3>3, <3>4 DEF NewestInv, HasOracle
  <2> QED BY <2>3, <2>4
<1>7. ASSUME NEW price \in PriceInputs, NEW priceId \in 1..currentPriceId,
             UpdatePriceInfo(priceId, price)
      PROVE  NewestInv'
  <2>1. price \in Nat
    BY PriceBookAssumption
  <2>2. book' = [book EXCEPT ![priceId].price = price]
    BY <1>7 DEF UpdatePriceInfo
  <2>3. /\ book' \in Seq(PriceInfo)
        /\ currentPriceId' = currentPriceId
        /\ \A i \in 1..currentPriceId : book'[i].timestamp = book[i].timestamp
    <3>1. book[priceId] \in PriceInfo
      BY BookFacts
    <3>2. [book[priceId] EXCEPT !.price = price] \in PriceInfo
      BY <2>1, <3>1 DEF PriceInfo
    <3>3. [book[priceId] EXCEPT !.price = price].timestamp = book[priceId].timestamp
      BY <3>1 DEF PriceInfo
    <3> HIDE DEF PriceInfo
    <3> QED BY <2>2, <3>2, <3>3 DEF NewestInv, currentPriceId
  <2>4. LatestTimestamp' = LatestTimestamp
    BY <1>7, <2>3 DEF UpdatePriceInfo, LatestTimestamp, NewestInv
  <2> QED
    BY <1>7, <2>3, <2>4 DEF UpdatePriceInfo, NewestInv, LatestIsNewest, HasOracle
<1>8. CASE UNCHANGED bookVars
  BY <1>0, <1>8, <1>a DEF bookVars, NewestInv
<1> QED
  BY <1>1, <1>2, <1>3, <1>4, <1>5, <1>6, <1>7, <1>8 DEF BookNext

(* latestPriceId names a newest price in every reachable state, as long as *)
(* the updater of a PricerWithOracle is never ahead of the block.          *)
THEOREM LatestIsNewestHolds == EnvironmentSpec => []LatestIsNewest
<1>1. EnvironmentInit => NewestInv
  BY NewestInit DEF EnvironmentInit
<1>2. NewestInv /\ [EnvironmentNext]_environmentVars => NewestInv'
  BY NewestStep, StepOfPart
<1>3. NewestInv => LatestIsNewest
  BY DEF NewestInv
<1> QED
  BY <1>1, <1>2, <1>3, PTL DEF EnvironmentSpec

-----------------------------------------------------------------------------
(* Arithmetic: quotients, products and powers. *)

(* Truncating division, in the form the bounds need.                       *)
LEMMA Quotient ==
  ASSUME NEW a \in Nat, NEW b \in Nat \ {0}
  PROVE  a \div b \in Nat /\ (a \div b) * b <= a /\ a < (a \div b + 1) * b
  BY SMTT(30)

LEMMA QuotientMonotone ==
  ASSUME NEW a \in Nat, NEW b \in Nat \ {0}, NEW c \in Nat, a <= c
  PROVE  a \div b <= c \div b
  BY SMTT(30)

LEMMA QuotientGrows ==
  ASSUME NEW a \in Nat, NEW b \in Nat \ {0}, NEW c \in Nat, c >= a + b
  PROVE  c \div b >= a \div b + 1
  BY SMTT(30)

(* Both sides of a bound, scaled.                                          *)
LEMMA ScaledUp ==
  ASSUME NEW a \in Nat, NEW b \in Nat, NEW c \in Nat, a <= b
  PROVE  a * c \in Nat /\ b * c \in Nat /\ a * c <= b * c
  BY SMTT(30)

(* Induction, for a set. *)
LEMMA SetInduction ==
  ASSUME NEW T \in SUBSET Nat, 0 \in T, \A n \in T : n + 1 \in T
  PROVE  T = Nat
<1> SUFFICES ASSUME Nat \ T # {} PROVE FALSE
  OBVIOUS
<1>1. IsWellFoundedOn(OpToRel(<, Nat), Nat)
  BY NatLessThanWellFounded, Zenon
<1>2. Nat \ T \subseteq Nat
  OBVIOUS
<1>3. PICK least \in Nat \ T : \A n \in Nat \ T : ~(<<n, least>> \in OpToRel(<, Nat))
  BY <1>1, <1>2, WFMin, Zenon
<1>4. \A n \in Nat \ T : ~(n < least)
  BY <1>3, Zenon DEF OpToRel
<1>a. least \in Nat /\ least \notin T
  BY <1>3
<1>5. least # 0 /\ least - 1 \in Nat /\ least - 1 < least
  BY <1>a
<1>6. least - 1 \in T
  BY <1>4, <1>5
<1>7. (least - 1) + 1 = least
  BY <1>a
<1> QED
  BY <1>a, <1>6, <1>7

(* A table of the first powers of a base. *)
IsTable(base, table, n) ==
  /\ table \in [0..n -> Nat]
  /\ table[0] = 1
  /\ \A k \in 1..n : table[k] = base * table[k - 1]

(* Tables of every length exist, and agree where both are defined.         *)
LEMMA TableExists ==
  ASSUME NEW base \in Nat, NEW n \in Nat
  PROVE  \E table : IsTable(base, table, n)
<1> DEFINE T == {m \in Nat : \E table : IsTable(base, table, m)}
<1>1. 0 \in T
  <2>1. IsTable(base, [k \in 0..0 |-> 1], 0)
    BY DEF IsTable
  <2> QED BY <2>1
<1>2. ASSUME NEW m \in T PROVE m + 1 \in T
  <2>1. m \in Nat
    OBVIOUS
  <2>2. PICK table : IsTable(base, table, m)
    OBVIOUS
  <2> DEFINE longer == [k \in 0..(m + 1) |-> IF k = m + 1 THEN base * table[m] ELSE table[k]]
  <2>3. table[m] \in Nat /\ base * table[m] \in Nat
    <3>1. table[m] \in Nat
      BY <2>1, <2>2 DEF IsTable
    <3> QED BY <3>1, SMT
  <2>4. longer \in [0..(m + 1) -> Nat] /\ longer[0] = 1
    BY <2>1, <2>2, <2>3 DEF IsTable
  <2>5. ASSUME NEW k \in 1..(m + 1) PROVE longer[k] = base * longer[k - 1]
    <3>1. CASE k = m + 1
      <4>1. longer[k] = base * table[m] /\ longer[k - 1] = table[m]
        BY <2>1, <3>1
      <4> QED BY <4>1
    <3>2. CASE k \in 1..m
      <4>1. longer[k] = table[k] /\ longer[k - 1] = table[k - 1]
        BY <2>1, <3>2
      <4> QED BY <2>2, <3>2, <4>1 DEF IsTable
    <3> QED BY <2>1, <3>1, <3>2
  <2>6. IsTable(base, longer, m + 1)
    BY <2>4, <2>5 DEF IsTable
  <2> QED BY <2>1, <2>6
<1>3. T = Nat
  BY <1>1, <1>2, SetInduction
<1> QED
  BY <1>3

LEMMA TablesAgree ==
  ASSUME NEW base \in Nat, NEW m \in Nat, NEW n \in Nat, m <= n,
         NEW short, NEW long, IsTable(base, short, m), IsTable(base, long, n)
  PROVE  short[m] = long[m]
<1> DEFINE T == {k \in Nat : k <= m => short[k] = long[k]}
<1>1. 0 \in T
  BY DEF IsTable
<1>2. ASSUME NEW k \in T PROVE k + 1 \in T
  <2> SUFFICES ASSUME k + 1 <= m PROVE short[k + 1] = long[k + 1]
    OBVIOUS
  <2>1. k + 1 \in 1..m /\ k + 1 \in 1..n /\ (k + 1) - 1 = k /\ short[k] = long[k]
    OBVIOUS
  <2>2. short[k + 1] = base * short[k] /\ long[k + 1] = base * long[k]
    BY <2>1 DEF IsTable
  <2> QED BY <2>1, <2>2
<1>3. T = Nat
  BY <1>1, <1>2, SetInduction
<1> QED
  BY <1>3

(* What Powers computes, for every base and exponent. *)
LEMMA PowersIs ==
  ASSUME NEW base \in Nat
  PROVE  /\ Powers(base) \in [Nat -> Nat]
         /\ Powers(base)[0] = 1
         /\ \A n \in Nat : Powers(base)[n + 1] = base * Powers(base)[n]
<1> DEFINE Table(n) == CHOOSE table : IsTable(base, table, n)
           F == [n \in Nat |-> Table(n)[n]]
<1>1. \A n \in Nat : IsTable(base, Table(n), n)
  BY TableExists
<1> HIDE DEF Table
<1>2. F \in [Nat -> Nat] /\ F[0] = 1
  BY <1>1 DEF IsTable
<1>3. ASSUME NEW n \in Nat, n # 0 PROVE F[n] = base * F[n - 1]
  <2>1. n - 1 \in Nat /\ n \in 1..n /\ n - 1 <= n
    BY <1>3
  <2>2. Table(n)[n] = base * Table(n)[n - 1]
    BY <1>1, <2>1 DEF IsTable
  <2>3. Table(n - 1)[n - 1] = Table(n)[n - 1]
    BY <1>1, <2>1, TablesAgree
  <2> QED BY <2>1, <2>2, <2>3
<1>4. F = [n \in Nat |-> IF n = 0 THEN 1 ELSE base * F[n - 1]]
  BY <1>2, <1>3
<1> DEFINE power == Powers(base)
<1>5. power = [n \in Nat |-> IF n = 0 THEN 1 ELSE base * power[n - 1]]
  BY <1>4 DEF Powers
<1> HIDE DEF F, power
<1>6. \A n \in Nat : power[n] = F[n]
  <2> DEFINE T == {n \in Nat : power[n] = F[n]}
  <2>1. 0 \in T
    BY <1>2, <1>5
  <2>2. ASSUME NEW n \in T PROVE n + 1 \in T
    <3>1. n + 1 \in Nat /\ n + 1 # 0 /\ (n + 1) - 1 = n /\ power[n] = F[n]
      OBVIOUS
    <3>2. power[n + 1] = base * power[n]
      BY <1>5, <3>1
    <3>3. F[n + 1] = base * F[n]
      BY <1>3, <3>1
    <3> QED BY <3>1, <3>2, <3>3
  <2>3. T = Nat
    BY <2>1, <2>2, SetInduction
  <2> QED BY <2>3
<1>7. power \in [Nat -> Nat]
  BY <1>2, <1>5, <1>6
<1>8. \A n \in Nat : power[n + 1] = base * power[n]
  BY <1>5
<1>9. power[0] = 1
  BY <1>5
<1> QED
  BY <1>7, <1>8, <1>9 DEF power

(* A larger base has larger powers.                                        *)
LEMMA PowersOrdered ==
  ASSUME NEW a \in Nat, NEW b \in Nat, a <= b
  PROVE  \A n \in Nat : Powers(a)[n] <= Powers(b)[n]
<1> DEFINE T == {n \in Nat : Powers(a)[n] <= Powers(b)[n]}
<1>0. /\ Powers(a) \in [Nat -> Nat] /\ Powers(b) \in [Nat -> Nat]
      /\ Powers(a)[0] = 1 /\ Powers(b)[0] = 1
      /\ \A n \in Nat : Powers(a)[n + 1] = a * Powers(a)[n]
      /\ \A n \in Nat : Powers(b)[n + 1] = b * Powers(b)[n]
  BY PowersIs
<1>1. 0 \in T
  BY <1>0
<1>2. ASSUME NEW n \in T PROVE n + 1 \in T
  <2>1. n \in Nat /\ n + 1 \in Nat /\ Powers(a)[n] \in Nat /\ Powers(b)[n] \in Nat
        /\ Powers(a)[n] <= Powers(b)[n]
    BY <1>0
  <2>2. a * Powers(a)[n] <= b * Powers(b)[n]
    <3> DEFINE x == Powers(a)[n]
               y == Powers(b)[n]
    <3>0. x \in Nat /\ y \in Nat /\ x <= y
      BY <2>1
    <3> HIDE DEF x, y
    <3>1. a * x <= b * x /\ x * b <= y * b
      BY <3>0, ScaledUp
    <3>2. b * x = x * b /\ b * y = y * b /\ a * x \in Nat /\ b * x \in Nat /\ y * b \in Nat
      BY <3>0, SMT
    <3>3. a * x <= b * y
      BY <3>1, <3>2
    <3> QED BY <3>3 DEF x, y
  <2> QED BY <1>0, <2>1, <2>2
<1>3. T = Nat
  BY <1>1, <1>2, SetInduction
<1> QED
  BY <1>3

-----------------------------------------------------------------------------
(* The price book: how far the oracle drifts. *)

(* A change of at most a fraction bps/scale of the price. *)
SmallChange(price, newPrice, bps) ==
  AbsoluteDifference(price, newPrice) * ORACLE_BPS_DENOMINATOR <= bps * price

(* RWAOracleRateCheck rounds the change up, so it lets through no larger one *)
LEMMA RoundedUpIsSmall ==
  ASSUME NEW price \in Nat \ {0}, NEW newPrice \in Nat, NEW bps \in Nat,
         RateChangeBps(price, newPrice) <= bps
  PROVE  SmallChange(price, newPrice, bps)
<1> DEFINE scaled == AbsoluteDifference(price, newPrice) * ORACLE_BPS_DENOMINATOR
           rounded == (scaled + price - 1) \div price
<1>1. AbsoluteDifference(price, newPrice) \in Nat
  BY DEF AbsoluteDifference
<1>2. scaled \in Nat
  BY <1>1, PriceBookAssumption, ScaledUp
<1> HIDE DEF scaled
<1>3. rounded \in Nat /\ scaled + price - 1 < (rounded + 1) * price
  BY <1>2, Quotient
<1>4. rounded <= bps
  BY DEF RateChangeBps, MulDivUp, scaled
<1> HIDE DEF rounded
<1>5. (rounded + 1) * price <= (bps + 1) * price
  BY <1>3, <1>4, ScaledUp
<1>6. (bps + 1) * price = bps * price + price /\ bps * price \in Nat
  BY SMT
<1>7. (rounded + 1) * price \in Nat
  BY <1>3, SMT
<1>8. scaled <= bps * price
  BY <1>2, <1>3, <1>5, <1>6, <1>7
<1> QED
  BY <1>8 DEF SmallChange, scaled

(* The comparison rounds the size down: at most one more basis point.      *)
LEMMA TruncatedIsSmall ==
  ASSUME NEW price \in Nat \ {0}, NEW newPrice \in Nat, NEW bps \in Nat,
         AbsoluteDifference(SignedChangeBps(price, newPrice), 0) <= bps
  PROVE  SmallChange(price, newPrice, bps + 1)
<1> DEFINE scaled == AbsoluteDifference(price, newPrice) * ORACLE_BPS_DENOMINATOR
           size == scaled \div price
<1>1. AbsoluteDifference(price, newPrice) \in Nat
  BY DEF AbsoluteDifference
<1>2. scaled \in Nat
  BY <1>1, PriceBookAssumption, ScaledUp
<1> HIDE DEF scaled
<1>3. size \in Nat /\ scaled < (size + 1) * price
  BY <1>2, Quotient
<1> HIDE DEF size
<1>4. SignedChangeBps(price, newPrice) = size \/ SignedChangeBps(price, newPrice) = -size
  BY DEF SignedChangeBps, size, scaled
<1>5. size <= bps
  BY <1>3, <1>4 DEF AbsoluteDifference
<1>6. (size + 1) * price <= (bps + 1) * price /\ (size + 1) * price \in Nat
      /\ (bps + 1) * price \in Nat
  BY <1>3, <1>5, ScaledUp
<1>8. scaled <= (bps + 1) * price
  BY <1>2, <1>3, <1>6
<1> QED
  BY <1>8 DEF SmallChange, scaled

(* So the price moves by at most that fraction, up or down. *)
LEMMA SmallChangeBounds ==
  ASSUME NEW price \in Nat, NEW newPrice \in Nat, NEW bps \in Nat,
         bps <= ORACLE_BPS_DENOMINATOR, SmallChange(price, newPrice, bps)
  PROVE  /\ newPrice * ORACLE_BPS_DENOMINATOR <= price * (ORACLE_BPS_DENOMINATOR + bps)
         /\ newPrice * ORACLE_BPS_DENOMINATOR >= price * (ORACLE_BPS_DENOMINATOR - bps)
<1> DEFINE D == ORACLE_BPS_DENOMINATOR
<1>1. D \in Nat
  BY PriceBookAssumption
<1> HIDE DEF D
<1>2. price * (D + bps) = price * D + bps * price /\ price * (D - bps) = price * D - bps * price
  BY <1>1, SMT
<1>3. bps * price \in Nat /\ price * D \in Nat /\ newPrice * D \in Nat
  BY <1>1, SMT
<1>4. CASE newPrice >= price
  <2>1. AbsoluteDifference(price, newPrice) * D = newPrice * D - price * D
    <3>1. AbsoluteDifference(price, newPrice) = newPrice - price
      BY <1>4 DEF AbsoluteDifference
    <3>2. (newPrice - price) * D = newPrice * D - price * D
      BY <1>1, SMT
    <3> QED BY <3>1, <3>2
  <2>2. price * D <= newPrice * D
    BY <1>1, <1>4, ScaledUp
  <2> QED BY <1>2, <1>3, <2>1, <2>2 DEF SmallChange, D
<1>5. CASE newPrice < price
  <2>1. AbsoluteDifference(price, newPrice) * D = price * D - newPrice * D
    <3>1. AbsoluteDifference(price, newPrice) = price - newPrice
      BY <1>5 DEF AbsoluteDifference
    <3>2. (price - newPrice) * D = price * D - newPrice * D
      BY <1>1, SMT
    <3> QED BY <3>1, <3>2
  <2>2. newPrice * D <= price * D
    BY <1>1, <1>5, ScaledUp
  <2> QED BY <1>2, <1>3, <2>1, <2>2 DEF SmallChange, D
<1> QED
  BY <1>4, <1>5

(* Scaling both sides of a bound by one more change. *)
LEMMA OneMoreUp ==
  ASSUME NEW p \in Nat, NEW q \in Nat, NEW first \in Nat, NEW d \in Nat, NEW b \in Nat,
         NEW dk \in Nat, NEW bk \in Nat,
         p * dk <= first * bk, q * d <= p * b
  PROVE  q * (d * dk) <= first * (b * bk)
<1>1. /\ p * dk \in Nat /\ first * bk \in Nat /\ q * d \in Nat /\ p * b \in Nat
      /\ (q * d) * dk <= (p * b) * dk
  BY ScaledUp
<1>2. (p * dk) * b <= (first * bk) * b
  BY <1>1, ScaledUp
<1>3. /\ (q * d) * dk = q * (d * dk) /\ (p * b) * dk = (p * dk) * b
      /\ (first * bk) * b = first * (b * bk)
  BY SMT
<1>4. (q * d) * dk \in Nat /\ (p * b) * dk \in Nat /\ (first * bk) * b \in Nat
  BY <1>1, ScaledUp
<1> QED
  BY <1>1, <1>2, <1>3, <1>4

LEMMA OneMoreDown ==
  ASSUME NEW p \in Nat, NEW q \in Nat, NEW first \in Nat, NEW d \in Nat, NEW b \in Nat,
         NEW dk \in Nat, NEW bk \in Nat,
         p * dk >= first * bk, q * d >= p * b
  PROVE  q * (d * dk) >= first * (b * bk)
<1>1. /\ p * dk \in Nat /\ first * bk \in Nat /\ q * d \in Nat /\ p * b \in Nat
      /\ (p * b) * dk <= (q * d) * dk
  BY ScaledUp
<1>2. (first * bk) * b <= (p * dk) * b
  BY <1>1, ScaledUp
<1>3. /\ (q * d) * dk = q * (d * dk) /\ (p * b) * dk = (p * dk) * b
      /\ (first * bk) * b = first * (b * bk)
  BY SMT
<1>4. (q * d) * dk \in Nat /\ (p * b) * dk \in Nat /\ (first * bk) * b \in Nat
  BY <1>1, ScaledUp
<1> QED
  BY <1>1, <1>2, <1>3, <1>4

(* The bound holds from the window of the last change on: each change so   *)
(* far had a window of its own.                                            *)
DriftInv ==
  /\ BookTypeOK
  /\ \A changes \in Nat :
       changes >= (oracle.timestamp - 1) \div MIN_PRICE_UPDATE_WINDOW => PriceWithin(changes)

(* A price that passes the check of its oracle. *)
LEMMA AcceptedIsSmall ==
  ASSUME BookTypeOK, NEW price \in PriceInputs, SetPrice(price)
  PROVE  /\ LargestChangeBps \in Nat /\ LargestChangeBps <= ORACLE_BPS_DENOMINATOR
         /\ price \in Nat
         /\ SmallChange(oracle.price, price, LargestChangeBps)
<1>1. /\ LargestChangeBps \in Nat /\ LargestChangeBps <= ORACLE_BPS_DENOMINATOR
      /\ MAX_CHANGE_DIFF_BPS["rateCheck"] \in Nat /\ MAX_ABSOLUTE_DIFF_BPS \in Nat
      /\ price \in Nat /\ oracle.price \in Nat \ {0}
  BY PriceBookAssumption, ChangesAssumption DEF LargestChangeBps, BookTypeOK
<1>2. CASE kind = "rateCheck"
  BY <1>1, <1>2, RoundedUpIsSmall DEF SetPrice, WithinRate, LargestChangeBps
<1>3. CASE kind # "rateCheck"
  BY <1>1, <1>3, TruncatedIsSmall DEF SetPrice, WithinComparison, LargestChangeBps
<1> QED
  BY <1>1, <1>2, <1>3

(* No change is within any number of changes.                              *)
LEMMA DriftInit == BookInit => DriftInv
<1> SUFFICES ASSUME BookInit, NEW changes \in Nat PROVE PriceWithin(changes)
  BY BookTypeInit DEF DriftInv
<1> DEFINE D == ORACLE_BPS_DENOMINATOR
           b == LargestChangeBps
<1>1. D \in Nat /\ b \in Nat /\ D - b \in Nat /\ D + b \in Nat /\ D <= D + b /\ D - b <= D
      /\ InitialPrice \in Nat /\ oracle.price = InitialPrice
  BY PriceBookAssumption, ChangesAssumption DEF LargestChangeBps, BookInit
<1> HIDE DEF D, b
<1>2. /\ Powers(D)[changes] <= Powers(D + b)[changes]
      /\ Powers(D - b)[changes] <= Powers(D)[changes]
  BY <1>1, PowersOrdered
<1>3. /\ Powers(D)[changes] \in Nat /\ Powers(D + b)[changes] \in Nat
      /\ Powers(D - b)[changes] \in Nat
  BY <1>1, PowersIs
<1> DEFINE lo == Powers(D - b)[changes]
           mid == Powers(D)[changes]
           hi == Powers(D + b)[changes]
<1>4. lo \in Nat /\ mid \in Nat /\ hi \in Nat /\ lo <= mid /\ mid <= hi
  BY <1>2, <1>3
<1> HIDE DEF lo, mid, hi
<1>5. InitialPrice * mid <= InitialPrice * hi /\ InitialPrice * lo <= InitialPrice * mid
  <2>1. mid * InitialPrice <= hi * InitialPrice /\ lo * InitialPrice <= mid * InitialPrice
    BY <1>1, <1>4, ScaledUp
  <2>2. /\ mid * InitialPrice = InitialPrice * mid /\ hi * InitialPrice = InitialPrice * hi
        /\ lo * InitialPrice = InitialPrice * lo
    BY <1>1, <1>4, SMT
  <2> QED BY <2>1, <2>2
<1>6. InitialPrice * mid >= InitialPrice * lo
  <2>1. InitialPrice * mid \in Nat /\ InitialPrice * lo \in Nat
    BY <1>1, <1>4, SMT
  <2> QED BY <1>5, <2>1
<1> QED
  BY <1>1, <1>5, <1>6 DEF PriceWithin, lo, mid, hi, D, b

(* A change has used a window of its own, and is one of those counted.     *)
LEMMA DriftSet ==
  ASSUME DriftInv, NEW price \in PriceInputs, SetPrice(price), UNCHANGED <<bookTime, kind>>,
         NEW changes \in Nat,
         changes >= (oracle'.timestamp - 1) \div MIN_PRICE_UPDATE_WINDOW
  PROVE  PriceWithin(changes)'
<1> DEFINE D == ORACLE_BPS_DENOMINATOR
           b == LargestChangeBps
           W == MIN_PRICE_UPDATE_WINDOW
           k == changes - 1
<1>0. BookTypeOK
  BY DEF DriftInv
<1>1. /\ D \in Nat /\ b \in Nat /\ D - b \in Nat /\ D + b \in Nat
      /\ price \in Nat /\ oracle.price \in Nat /\ InitialPrice \in Nat
      /\ W \in Nat \ {0} /\ b' = b
      /\ oracle.timestamp - 1 \in Nat /\ bookTime - 1 \in Nat
  <2>1. b \in Nat /\ b <= D /\ price \in Nat
    BY <1>0, AcceptedIsSmall
  <2>2. D \in Nat /\ InitialPrice \in Nat /\ W \in Nat \ {0}
    BY PriceBookAssumption
  <2>3. oracle.price \in Nat /\ oracle.timestamp - 1 \in Nat /\ bookTime - 1 \in Nat
    BY <1>0, PriceBookAssumption DEF BookTypeOK
  <2>4. b' = b
    BY DEF LargestChangeBps
  <2> HIDE DEF b
  <2>5. D - b \in Nat /\ D + b \in Nat
    BY <2>1, <2>2
  <2> QED BY <2>1, <2>2, <2>3, <2>4, <2>5
<1>2. oracle' = [price |-> price, timestamp |-> bookTime]
      /\ bookTime - 1 >= (oracle.timestamp - 1) + W
  BY <1>0, <1>1 DEF SetPrice, BookTypeOK
<1>3. (bookTime - 1) \div W >= (oracle.timestamp - 1) \div W + 1
  BY <1>1, <1>2, QuotientGrows
<1>4. k \in Nat /\ k >= (oracle.timestamp - 1) \div W /\ changes = k + 1
  BY <1>1, <1>2, <1>3, Quotient
<1>5. PriceWithin(k)
  BY <1>4 DEF DriftInv
<1>6. price * D <= oracle.price * (D + b) /\ price * D >= oracle.price * (D - b)
  BY <1>0, <1>1, AcceptedIsSmall, SmallChangeBounds
<1> HIDE DEF k, D, b, W
<1>7. /\ Powers(D)[changes] = D * Powers(D)[k] /\ Powers(D)[k] \in Nat
      /\ Powers(D + b)[changes] = (D + b) * Powers(D + b)[k] /\ Powers(D + b)[k] \in Nat
      /\ Powers(D - b)[changes] = (D - b) * Powers(D - b)[k] /\ Powers(D - b)[k] \in Nat
  BY <1>1, <1>4, PowersIs
<1>8. /\ oracle.price * Powers(D)[k] <= InitialPrice * Powers(D + b)[k]
      /\ oracle.price * Powers(D)[k] >= InitialPrice * Powers(D - b)[k]
  BY <1>5 DEF PriceWithin, D, b
<1>9. price * (D * Powers(D)[k]) <= InitialPrice * ((D + b) * Powers(D + b)[k])
  BY <1>1, <1>6, <1>7, <1>8, OneMoreUp
<1>10. price * (D * Powers(D)[k]) >= InitialPrice * ((D - b) * Powers(D - b)[k])
  BY <1>1, <1>6, <1>7, <1>8, OneMoreDown
<1>11. oracle'.price = price
  BY <1>2
<1> QED
  BY <1>1, <1>7, <1>9, <1>10, <1>11 DEF PriceWithin, D, b

LEMMA DriftStep == DriftInv /\ [BookNext]_bookVars => DriftInv'
<1> SUFFICES ASSUME DriftInv, [BookNext]_bookVars PROVE DriftInv'
  OBVIOUS
<1>0. BookTypeOK'
  BY BookTypeStep DEF DriftInv
<1>1. CASE UNCHANGED <<oracle, kind>>
  <2>1. \A changes \in Nat : PriceWithin(changes)' = PriceWithin(changes)
    BY <1>1 DEF PriceWithin, LargestChangeBps
  <2> QED BY <1>0, <1>1, <2>1 DEF DriftInv
<1>2. ASSUME NEW price \in PriceInputs, SetPrice(price), UNCHANGED <<bookTime, kind>>
      PROVE  DriftInv'
  BY <1>0, <1>2, DriftSet DEF DriftInv
<1>3. ASSUME NEW price \in PriceInputs, NEW timestamp \in TimestampInputs,
             AddPriceInfo(price, timestamp)
      PROVE  DriftInv'
  <2>1. /\ UNCHANGED <<bookTime, kind>>
        /\ SetPrice(price) \/ UNCHANGED oracle
    BY <1>3 DEF AddPriceInfo
  <2> QED BY <1>1, <1>2, <2>1
<1> QED
  BY <1>1, <1>2, <1>3 DEF BookNext, BookTick, NewRound, SetPriceDirectly, UpdatePriceInfo,
     ConstructPricerWithOracle, AddLatestOraclePrice, bookVars

(* However often and by whomever it is set, the oracle's price stays within *)
(* one bounded change for each window since its construction, whatever the *)
(* windows, the bounds and the prices.                                     *)
THEOREM PriceDriftBoundedHolds == EnvironmentSpec => []PriceDriftBounded
<1>1. EnvironmentInit => DriftInv
  BY DriftInit DEF EnvironmentInit
<1>2. DriftInv /\ [EnvironmentNext]_environmentVars => DriftInv'
  BY DriftStep, StepOfPart
<1>3. DriftInv => PriceDriftBounded
  <2> SUFFICES ASSUME DriftInv PROVE PriceDriftBounded
    OBVIOUS
  <2>1. /\ oracle.timestamp - 1 \in Nat /\ bookTime - 1 \in Nat
        /\ oracle.timestamp - 1 <= bookTime - 1
        /\ MIN_PRICE_UPDATE_WINDOW \in Nat \ {0}
    BY PriceBookAssumption DEF DriftInv, BookTypeOK
  <2> DEFINE now == (bookTime - 1) \div MIN_PRICE_UPDATE_WINDOW
             then == (oracle.timestamp - 1) \div MIN_PRICE_UPDATE_WINDOW
  <2>2. now \in Nat /\ then \in Nat /\ then <= now
    BY <2>1, Quotient, QuotientMonotone
  <2>3. PriceWithin(now)
    <3> HIDE DEF now
    <3>1. now >= then
      BY <2>2
    <3> QED BY <2>2, <3>1 DEF DriftInv
  <2> QED BY <2>3 DEF PriceDriftBounded
<1> QED
  BY <1>1, <1>2, <1>3, PTL DEF EnvironmentSpec

-----------------------------------------------------------------------------
(* The aggregator. *)

(* The array and the membership map of the aggregator name the same lists, *)
(* and the array names none of them twice.                                 *)
AggregatorInv ==
  /\ blocklists \in Seq(BlocklistContracts)
  /\ IsInjective(blocklists)
  /\ blocklistExists = {blocklists[i] : i \in DOMAIN blocklists}

LEMMA AggregatorInvAgrees == AggregatorInv => AggregatorAgrees
  BY DEF AggregatorInv, AggregatorAgrees, IsBlocked

(* addBlocklist and removeBlocklist keep array and map in step.            *)
LEMMA ListAdded ==
  ASSUME AggregatorInv, NEW blocklist \in BlocklistContracts, AddBlocklist(blocklist)
  PROVE  AggregatorInv'
<1> DEFINE n == Len(blocklists)
<1>1. /\ n \in Nat
      /\ DOMAIN blocklists = 1..n
      /\ blocklists' \in Seq(BlocklistContracts)
      /\ DOMAIN blocklists' = 1..(n + 1)
      /\ \A i \in 1..n : blocklists'[i] = blocklists[i]
      /\ blocklists'[n + 1] = blocklist
  BY DEF AggregatorInv, AddBlocklist
<1>2. \A i \in 1..n : blocklists[i] # blocklist
  BY <1>1 DEF AggregatorInv, AddBlocklist
<1> HIDE DEF n
<1>3. IsInjective(blocklists')
  <2> SUFFICES ASSUME NEW i \in 1..(n + 1), NEW j \in 1..(n + 1),
                      blocklists'[i] = blocklists'[j]
               PROVE  i = j
    BY <1>1 DEF IsInjective
  <2>1. CASE i \in 1..n /\ j \in 1..n
    BY <1>1, <2>1 DEF AggregatorInv, IsInjective
  <2>2. CASE i = n + 1 \/ j = n + 1
    BY <1>1, <1>2, <2>2
  <2> QED BY <1>1, <2>1, <2>2
<1>4. blocklistExists' = {blocklists'[i] : i \in 1..(n + 1)}
  <2>1. blocklistExists' = {blocklists[i] : i \in 1..n} \cup {blocklist}
    BY <1>1 DEF AddBlocklist, AggregatorInv
  <2>2. 1..(n + 1) = 1..n \cup {n + 1}
    BY <1>1
  <2> QED BY <1>1, <2>1, <2>2
<1> QED
  BY <1>1, <1>3, <1>4 DEF AggregatorInv

(* The array after the last list took the place of the removed one.        *)
LEMMA SwappedOutIs ==
  ASSUME AggregatorInv, NEW blocklist \in blocklistExists
  PROVE  \E place \in 1..Len(blocklists) :
           /\ blocklists[place] = blocklist
           /\ SwappedOut(blocklist) =
                [i \in 1..(Len(blocklists) - 1) |->
                   IF i = place THEN blocklists[Len(blocklists)] ELSE blocklists[i]]
<1> DEFINE n == Len(blocklists)
<1>1. n \in Nat /\ DOMAIN blocklists = 1..n
  BY DEF AggregatorInv
<1>2. PICK place \in 1..n : blocklists[place] = blocklist
  BY <1>1 DEF AggregatorInv
<1>3. {i \in 1..n : blocklists[i] = blocklist} = {place}
  BY <1>1, <1>2 DEF AggregatorInv, IsInjective
<1>4. Min({place}) = place
  BY <1>1, <1>2 DEF Min
<1>5. SelectInSeq(blocklists, LAMBDA listed : listed = blocklist) = place
  BY <1>3, <1>4 DEF SelectInSeq
<1>6. SwappedOut(blocklist) = Front([blocklists EXCEPT ![place] = Last(blocklists)])
  BY <1>5 DEF SwappedOut
<1>7. [blocklists EXCEPT ![place] = Last(blocklists)] \in Seq(BlocklistContracts)
  BY <1>1, <1>2 DEF AggregatorInv, Last
<1>8. SwappedOut(blocklist) =
        [i \in 1..(n - 1) |-> IF i = place THEN blocklists[n] ELSE blocklists[i]]
  BY <1>1, <1>2, <1>6, <1>7 DEF Front, Last
<1> QED
  BY <1>2, <1>8

LEMMA ListRemoved ==
  ASSUME AggregatorInv, NEW blocklist \in BlocklistContracts, RemoveBlocklist(blocklist)
  PROVE  AggregatorInv'
<1> DEFINE n == Len(blocklists)
<1>1. PICK place \in 1..n :
        /\ blocklists[place] = blocklist
        /\ blocklists' = [i \in 1..(n - 1) |->
                            IF i = place THEN blocklists[n] ELSE blocklists[i]]
  BY SwappedOutIs DEF RemoveBlocklist
<1>2. /\ n \in Nat \ {0}
      /\ DOMAIN blocklists = 1..n
      /\ DOMAIN blocklists' = 1..(n - 1)
      /\ \A i \in 1..n : blocklists[i] \in BlocklistContracts
      /\ \A i, j \in 1..n : blocklists[i] = blocklists[j] => i = j
  BY <1>1 DEF AggregatorInv, IsInjective
<1> HIDE DEF n
<1>3. blocklists' \in Seq(BlocklistContracts)
  BY <1>1, <1>2
<1>4. IsInjective(blocklists')
  BY <1>1, <1>2 DEF IsInjective
<1>5. blocklistExists' = {blocklists'[i] : i \in 1..(n - 1)}
  <2>1. blocklistExists' = {blocklists[i] : i \in 1..n} \ {blocklist}
    BY <1>2 DEF RemoveBlocklist, AggregatorInv
  <2>2. ASSUME NEW i \in 1..n, i # place
        PROVE  \E j \in 1..(n - 1) : blocklists'[j] = blocklists[i]
    <3>1. CASE i # n
      BY <1>1, <1>2, <2>2, <3>1
    <3>2. CASE i = n
      <4>1. place \in 1..(n - 1) /\ blocklists'[place] = blocklists[n]
        BY <1>1, <1>2, <2>2, <3>2
      <4> QED BY <3>2, <4>1
    <3> QED BY <3>1, <3>2
  <2>3. ASSUME NEW j \in 1..(n - 1)
        PROVE  \E i \in 1..n : i # place /\ blocklists'[j] = blocklists[i]
    <3>1. CASE j = place
      BY <1>1, <1>2, <3>1
    <3>2. CASE j # place
      BY <1>1, <1>2, <3>2
    <3> QED BY <3>1, <3>2
  <2> QED BY <1>1, <1>2, <2>1, <2>2, <2>3
<1> QED
  BY <1>2, <1>3, <1>4, <1>5 DEF AggregatorInv

LEMMA AggregatorStep == AggregatorInv /\ [ListNext]_listVars => AggregatorInv'
<1> SUFFICES ASSUME AggregatorInv, [ListNext]_listVars PROVE AggregatorInv'
  OBVIOUS
<1>1. ASSUME NEW blocklist \in BlocklistContracts,
             AddBlocklist(blocklist) \/ RemoveBlocklist(blocklist)
      PROVE  AggregatorInv'
  BY <1>1, ListAdded, ListRemoved
<1>2. CASE UNCHANGED aggregatorVars
  BY <1>2 DEF aggregatorVars, AggregatorInv
<1>3. CASE UNCHANGED listVars
  BY <1>2, <1>3 DEF listVars
<1> QED
  BY <1>1, <1>2, <1>3
     DEF ListNext, AddToBlocklist, RemoveFromBlocklist, AddTerm, SetCurrentTermIndex,
         AddToAllowlist, SetAccountStatus, SetValidTermIndexes, AllowAddresses,
         DisallowAddresses, SetTokenBlocklist, SetTokenAllowlist, PauseToken, UnpauseToken

(* After any additions and removals, of any number of lists, the           *)
(* aggregator blocks exactly what the lists it knows block.                *)
THEOREM AggregatorAgreesHolds == EnvironmentSpec => []AggregatorAgrees
<1>1. EnvironmentInit => AggregatorInv
  BY DEF EnvironmentInit, ListInit, AggregatorInv, IsInjective
<1>2. AggregatorInv /\ [EnvironmentNext]_environmentVars => AggregatorInv'
  BY AggregatorStep, StepOfPart
<1>3. AggregatorInv => AggregatorAgrees
  BY AggregatorInvAgrees
<1> QED
  BY <1>1, <1>2, <1>3, PTL DEF EnvironmentSpec

-----------------------------------------------------------------------------
(* Books and lists together: types. *)

(* The lists keep their types; a removal keeps the array's because the     *)
(* array and the map agree.                                                *)
LEMMA ListTypeStep ==
  ASSUME ListTypeOK, AggregatorInv, [ListNext]_listVars
  PROVE  ListTypeOK'
<1>0. MaxTerms \in Nat
  BY TransferListsAssumption
<1>a. blocklists' \in Seq(BlocklistContracts)
  BY AggregatorStep DEF AggregatorInv
<1>1. ASSUME NEW blocklist \in BlocklistContracts, NEW accounts \in SUBSET ListedAccounts,
             AddToBlocklist(blocklist, accounts) \/ RemoveFromBlocklist(blocklist, accounts)
      PROVE  ListTypeOK'
  BY <1>1 DEF AddToBlocklist, RemoveFromBlocklist, ListTypeOK, TermIndexes,
              aggregatorVars, allowlistVars, termVars, tokenVars
<1>2. ASSUME NEW blocklist \in BlocklistContracts,
             AddBlocklist(blocklist) \/ RemoveBlocklist(blocklist)
      PROVE  ListTypeOK'
  BY <1>2, <1>a DEF AddBlocklist, RemoveBlocklist, ListTypeOK, TermIndexes,
                    allowlistVars, termVars, tokenVars
<1>3. CASE AddTerm
  <2>1. terms \in Nat /\ terms' = terms + 1 /\ TermIndexes \subseteq TermIndexes'
    BY <1>0, <1>3 DEF AddTerm, ListTypeOK, TermIndexes
  <2>2. Seq(TermIndexes) \subseteq Seq(TermIndexes')
    BY <2>1
  <2>3. validIndexes' \in Seq(TermIndexes') /\ verifications' \subseteq Holders \X TermIndexes'
    BY <1>3, <2>1, <2>2 DEF AddTerm, ListTypeOK
  <2>4. terms' \in 0..MaxTerms /\ currentTermIndex' \in TermIndexes'
    BY <1>0, <1>3, <2>1 DEF AddTerm, ListTypeOK, TermIndexes
  <2> QED BY <1>3, <2>3, <2>4 DEF AddTerm, ListTypeOK, aggregatorVars, tokenVars
<1>4. ASSUME NEW termIndex \in 0..MaxTerms, SetCurrentTermIndex(termIndex)
      PROVE  ListTypeOK'
  BY <1>4 DEF SetCurrentTermIndex, ListTypeOK, TermIndexes, aggregatorVars, tokenVars
<1>5. ASSUME NEW termIndex \in 0..MaxTerms, NEW account \in Holders, NEW status \in BOOLEAN,
             SetAccountStatus(account, termIndex, status)
      PROVE  ListTypeOK'
  BY <1>5 DEF SetAccountStatus, ListTypeOK, TermIndexes, aggregatorVars, tokenVars
<1>6. ASSUME NEW indexes \in SeqOf(0..MaxTerms, MaxValidIndexes), SetValidTermIndexes(indexes)
      PROVE  ListTypeOK'
  <2>1. indexes \in Seq(TermIndexes)
    BY <1>6, TransferListsAssumption DEF SetValidTermIndexes, SeqOf
  <2> QED BY <1>6, <2>1 DEF SetValidTermIndexes, ListTypeOK, TermIndexes, aggregatorVars, tokenVars
<1>7. ASSUME NEW accounts \in SUBSET ListedAccounts,
             AllowAddresses(accounts) \/ DisallowAddresses(accounts)
      PROVE  ListTypeOK'
  BY <1>7 DEF AllowAddresses, DisallowAddresses, ListTypeOK, TermIndexes, aggregatorVars,
              termVars, tokenVars
<1>8. ASSUME \/ \E blocklist \in AllBlocklists : SetTokenBlocklist(blocklist)
             \/ \E allowlist \in AllAllowlists : SetTokenAllowlist(allowlist)
             \/ PauseToken
             \/ UnpauseToken
      PROVE  ListTypeOK'
  BY <1>8 DEF SetTokenBlocklist, SetTokenAllowlist, PauseToken, UnpauseToken, ListTypeOK,
              TermIndexes, aggregatorVars, allowlistVars, termVars
<1>9. CASE UNCHANGED listVars
  BY <1>9 DEF listVars, ListTypeOK, TermIndexes, aggregatorVars, allowlistVars, termVars, tokenVars
<1> QED
  BY <1>1, <1>2, <1>3, <1>4, <1>5, <1>6, <1>7, <1>8, <1>9 DEF ListNext, AddToAllowlist

(* Books, rounds, lists, terms and statuses have their types in every      *)
(* reachable state: no status and no valid index is about a term that was  *)
(* not added, and no stored timestamp is ahead of the block.               *)
THEOREM EnvironmentTypeCorrect == EnvironmentSpec => []EnvironmentTypeOK
<1> DEFINE Inv == EnvironmentTypeOK /\ AggregatorInv
<1>1. EnvironmentInit => Inv
  <2>1. EnvironmentInit => BookTypeOK /\ AggregatorInv
    BY BookTypeInit DEF EnvironmentInit, ListInit, AggregatorInv, IsInjective
  <2>2. EnvironmentInit => ListTypeOK
    <3> SUFFICES ASSUME ListInit PROVE ListTypeOK
      BY DEF EnvironmentInit
    <3>1. blockedAddresses \in [BlocklistContracts -> SUBSET ListedAccounts]
      BY DEF ListInit
    <3>2. terms \in 0..MaxTerms /\ validIndexes \in Seq(TermIndexes)
      BY TransferListsAssumption DEF ListInit
    <3>3. tokenBlocklist \in AllBlocklists /\ tokenAllowlist \in AllAllowlists
      BY DEF ListInit, AllBlocklists, AllAllowlists
    <3>4. currentTermIndex \in {0} /\ tokenPaused \in BOOLEAN
      BY DEF ListInit
    <3>5. /\ blocklists \in Seq(BlocklistContracts)
          /\ blocklistExists \subseteq BlocklistContracts
          /\ verifications \subseteq Holders \X TermIndexes
          /\ allowedAddresses \subseteq ListedAccounts
      BY DEF ListInit
    <3> QED BY <3>1, <3>2, <3>3, <3>4, <3>5 DEF ListTypeOK
  <2> QED BY <2>1, <2>2 DEF EnvironmentTypeOK
<1>2. Inv /\ [EnvironmentNext]_environmentVars => Inv'
  BY StepOfPart, BookTypeStep, ListTypeStep, AggregatorStep DEF EnvironmentTypeOK
<1> QED
  BY <1>1, <1>2, PTL DEF EnvironmentSpec

(* Only these three steps of the lists touch the terms or what is valid.   *)
LEMMA TermSteps ==
  ASSUME ListNext
  PROVE  \/ UNCHANGED <<terms, currentTermIndex>>
         \/ AddTerm
         \/ \E termIndex \in 0..MaxTerms : SetCurrentTermIndex(termIndex)
  BY DEF ListNext, AddToBlocklist, RemoveFromBlocklist, AddBlocklist, RemoveBlocklist,
         SetValidTermIndexes, AddToAllowlist, SetAccountStatus, AllowAddresses,
         DisallowAddresses, SetTokenBlocklist, SetTokenAllowlist, PauseToken,
         UnpauseToken, allowlistVars, termVars

(* For any number of terms, accounts and valid indexes: a term added or    *)
(* made current changes nobody's standing, and what is valid was there     *)
(* before, so that a new term waits for ALLOWLIST_ADMIN.                   *)
THEOREM NewTermAdmitsNobodyHolds == EnvironmentSpec => NewTermAdmitsNobody
<1>1. ASSUME EnvironmentTypeOK, ListNext,
             terms' # terms \/ currentTermIndex' # currentTermIndex
      PROVE  /\ \A account \in ListedAccounts :
                  HasValidTerm(account)' = HasValidTerm(account)
             /\ \A i \in DOMAIN validIndexes' : validIndexes'[i] < terms
  <2>1. UNCHANGED <<validIndexes, verifications>>
    BY <1>1, TermSteps DEF AddTerm, SetCurrentTermIndex
  <2>2. terms \in Nat /\ validIndexes \in Seq(TermIndexes)
    BY <1>1 DEF EnvironmentTypeOK, ListTypeOK
  <2>3. \A i \in DOMAIN validIndexes : validIndexes[i] \in TermIndexes
    BY <2>2
  <2>4. \A i \in DOMAIN validIndexes' : validIndexes'[i] < terms
    BY <2>1, <2>2, <2>3 DEF TermIndexes
  <2> QED BY <2>1, <2>4 DEF HasValidTerm
<1>2. EnvironmentTypeOK /\ [EnvironmentNext]_environmentVars =>
        [terms' # terms \/ currentTermIndex' # currentTermIndex =>
           /\ \A account \in ListedAccounts :
                HasValidTerm(account)' = HasValidTerm(account)
           /\ \A i \in DOMAIN validIndexes' : validIndexes'[i] < terms]_listVars
  BY <1>1, StepOfPart
<1> QED
  BY <1>2, EnvironmentTypeCorrect, PTL DEF EnvironmentSpec, NewTermAdmitsNobody

-----------------------------------------------------------------------------
(* The contracts around the hub are a HubEnvironment. *)

Submitted == (PriceInputs \cup {InitialPrice}) \ {0}

(* Every price of the oracle and of the book was submitted, and none is 0. *)
PricesKnown ==
  /\ oracle.price \in Submitted
  /\ \A i \in 1..currentPriceId : book[i].price \in Submitted

(* The book after a price is updated.                                      *)
LEMMA UpdatedIs ==
  ASSUME BookTypeOK, NEW priceId \in 1..currentPriceId, NEW price \in Nat,
         UpdatePriceInfo(priceId, price)
  PROVE  /\ currentPriceId' = currentPriceId
         /\ \A i \in 1..currentPriceId :
              book'[i].price = IF i = priceId THEN price ELSE book[i].price
<1>1. book[priceId] \in PriceInfo /\ DOMAIN book = 1..currentPriceId
  BY DEF BookTypeOK, currentPriceId
<1>2. book' = [book EXCEPT ![priceId] = [book[priceId] EXCEPT !.price = price]]
  BY DEF UpdatePriceInfo
<1>3. currentPriceId' = currentPriceId
  BY <1>1, <1>2 DEF BookTypeOK, currentPriceId
<1>4. [book[priceId] EXCEPT !.price = price].price = price
  BY <1>1 DEF PriceInfo
<1> QED
  BY <1>1, <1>2, <1>3, <1>4

(* The book only holds prices that someone submitted.                      *)
LEMMA PricesKnownStep ==
  ASSUME BookTypeOK, PricesKnown, [BookNext]_bookVars
  PROVE  PricesKnown'
<1>0. Submitted \subseteq Nat \ {0} /\ TimestampInputs \subseteq Nat
      /\ PriceInputs \subseteq Nat /\ PriceInputs \ {0} \subseteq Submitted
  BY PriceBookAssumption DEF Submitted
<1>1. CASE UNCHANGED <<book, oracle>>
  BY <1>1 DEF PricesKnown, currentPriceId
<1>a. ASSUME NEW price \in Submitted, NEW timestamp \in Nat, Push(price, timestamp)
      PROVE  \A i \in 1..currentPriceId' : book'[i].price \in Submitted
  <2>1. /\ currentPriceId \in Nat /\ currentPriceId' = currentPriceId + 1
        /\ \A i \in 1..currentPriceId : book'[i] = book[i]
        /\ book'[currentPriceId + 1] = [price |-> price, timestamp |-> timestamp]
    BY <1>0, <1>a, Pushed DEF BookTypeOK
  <2> SUFFICES ASSUME NEW i \in 1..(currentPriceId + 1) PROVE book'[i].price \in Submitted
    BY <2>1
  <2>2. CASE i = currentPriceId + 1
    BY <1>a, <2>1, <2>2
  <2>3. CASE i \in 1..currentPriceId
    BY <2>1, <2>3 DEF PricesKnown
  <2> QED BY <2>1, <2>2, <2>3
<1>2. CASE ConstructPricerWithOracle \/ AddLatestOraclePrice
  <2>1. Push(oracle.price, oracle.timestamp) /\ oracle' = oracle
    BY <1>2 DEF ConstructPricerWithOracle, AddLatestOraclePrice
  <2>2. oracle.timestamp \in Nat
    BY DEF BookTypeOK
  <2> QED BY <1>a, <2>1, <2>2 DEF PricesKnown
<1>b. ASSUME NEW price \in PriceInputs, SetPrice(price)
      PROVE  oracle'.price \in Submitted
  BY <1>0, <1>b DEF SetPrice
<1>3. ASSUME NEW price \in PriceInputs, SetPriceDirectly(price) PROVE PricesKnown'
  BY <1>3, <1>b DEF SetPriceDirectly, PricesKnown, currentPriceId
<1>4. ASSUME NEW price \in PriceInputs, NEW timestamp \in TimestampInputs,
             AddPriceInfo(price, timestamp)
      PROVE  PricesKnown'
  <2>1. /\ Push(price, timestamp) /\ price \in Submitted /\ timestamp \in Nat
        /\ SetPrice(price) \/ oracle' = oracle
    BY <1>0, <1>4 DEF AddPriceInfo
  <2> QED BY <1>a, <1>b, <2>1 DEF PricesKnown
<1>5. ASSUME NEW price \in PriceInputs, NEW priceId \in 1..currentPriceId,
             UpdatePriceInfo(priceId, price)
      PROVE  PricesKnown'
  <2>1. price \in Submitted /\ price \in Nat /\ oracle' = oracle
    BY <1>0, <1>5 DEF UpdatePriceInfo
  <2> QED BY <1>5, <2>1, UpdatedIs DEF PricesKnown
<1> QED
  BY <1>1, <1>2, <1>3, <1>4, <1>5 DEF BookNext, BookTick, NewRound, bookVars

(* Pricer.getPrice of an id.                                               *)
LEMMA PriceOfIs ==
  ASSUME NEW priceId \in 1..MaxPriceId
  PROVE  PriceOf[priceId] = IF priceId <= currentPriceId THEN book[priceId].price ELSE 0
  BY DEF PriceOf

(* The book hands out one id, or moves one price, at a time.               *)
LEMMA PushImplements ==
  ASSUME BookTypeOK, PricesKnown, NEW price \in Submitted, NEW timestamp \in Nat,
         Push(price, timestamp), UNCHANGED <<bookTime, listVars>>
  PROVE  Hubs!EnvNext
<1> DEFINE id == currentPriceId + 1
<1>0. price \in Nat /\ price # 0 /\ MaxPriceId \in Nat /\ 0 \notin Submitted
  BY PriceBookAssumption DEF Submitted
<1>1. /\ currentPriceId \in Nat /\ currentPriceId < MaxPriceId
      /\ currentPriceId' = currentPriceId + 1
      /\ \A i \in 1..currentPriceId : book'[i] = book[i]
      /\ book'[id] = [price |-> price, timestamp |-> timestamp]
  BY <1>0, Pushed DEF BookTypeOK
<1>2. id \in 1..MaxPriceId
  BY <1>0, <1>1
<1>3. PriceOf[id] = 0
  BY <1>1, <1>2, PriceOfIs
<1>4. \A i \in 1..MaxPriceId : i < id => PriceOf[i] # 0
  BY <1>0, <1>1, PriceOfIs DEF PricesKnown
<1>5. PriceOf' = [PriceOf EXCEPT ![id] = price]
  <2>1. \A i \in 1..MaxPriceId :
          (IF i <= currentPriceId' THEN book'[i].price ELSE 0)
             = IF i = id THEN price ELSE PriceOf[i]
    BY <1>0, <1>1, PriceOfIs
  <2> QED BY <1>2, <2>1 DEF PriceOf
<1>6. UNCHANGED <<bookTime, [blocklist \in AllBlocklists |-> BlockedBy(blocklist)],
                  {account \in Holders : Accepts(account)}>>
  BY DEF listVars, tokenVars, aggregatorVars, allowlistVars, termVars, BlockedBy, IsBlocked,
         Accepts, MayMove, IsAllowed, HasValidTerm
<1> HIDE DEF id
<1>7. Hubs!AddPrice(Pricer, id, price)
  BY <1>0, <1>2, <1>3, <1>4, <1>5, <1>6 DEF Hubs!AddPrice
<1>8. price \in PriceInputs \cup {InitialPrice}
  BY DEF Submitted
<1> QED
  BY <1>2, <1>7, <1>8 DEF Hubs!EnvNext

(* An updated price, which is never 0.                                     *)
LEMMA UpdateImplements ==
  ASSUME BookTypeOK, PricesKnown, NEW price \in PriceInputs,
         NEW priceId \in 1..currentPriceId, UpdatePriceInfo(priceId, price),
         currentPriceId <= MaxPriceId, UNCHANGED listVars
  PROVE  Hubs!EnvNext
<1>0. price \in Nat /\ price # 0 /\ MaxPriceId \in Nat /\ currentPriceId \in Nat
      /\ UNCHANGED bookTime
  BY PriceBookAssumption DEF UpdatePriceInfo, BookTypeOK, currentPriceId
<1>1. priceId \in 1..MaxPriceId
  BY <1>0
<1>2. PriceOf[priceId] # 0
  BY <1>0, <1>1, PriceOfIs DEF PricesKnown, Submitted
<1>3. PriceOf' = [PriceOf EXCEPT ![priceId] = price]
  <2>1. \A i \in 1..MaxPriceId :
          (IF i <= currentPriceId' THEN book'[i].price ELSE 0)
             = IF i = priceId THEN price ELSE PriceOf[i]
    BY <1>0, UpdatedIs, PriceOfIs
  <2> QED BY <1>1, <2>1 DEF PriceOf
<1>4. UNCHANGED <<[blocklist \in AllBlocklists |-> BlockedBy(blocklist)],
                  {account \in Holders : Accepts(account)}>>
  BY DEF listVars, tokenVars, aggregatorVars, allowlistVars, termVars, BlockedBy, IsBlocked,
         Accepts, MayMove, IsAllowed, HasValidTerm
<1>5. Hubs!UpdatePrice(Pricer, priceId, price)
  BY <1>0, <1>1, <1>2, <1>3, <1>4 DEF Hubs!UpdatePrice
<1> QED
  BY <1>1, <1>5 DEF Hubs!EnvNext

(* Whatever happens on the lists, the hub sees at most who is blocked and  *)
(* whom the token accepts change.                                          *)
LEMMA ListsImplement ==
  ASSUME UNCHANGED bookVars
  PROVE  Hubs!EnvNext \/ UNCHANGED Hubs!environment
<1> DEFINE listed == [blocklist \in AllBlocklists |-> BlockedBy(blocklist)]
           accepted == {account \in Holders : Accepts(account)}
<1>1. UNCHANGED <<bookTime, [pricer \in {Pricer} |-> PriceOf]>>
  BY DEF bookVars, PriceOf, currentPriceId
<1>2. /\ listed \in [AllBlocklists -> SUBSET Holders]
      /\ listed' \in [AllBlocklists -> SUBSET Holders]
      /\ accepted \in SUBSET Holders /\ accepted' \in SUBSET Holders
  BY DEF BlockedBy
<1> HIDE DEF listed, accepted
<1>3. listed' = [blocklist \in AllBlocklists |->
                   (listed[blocklist] \ Holders) \cup listed'[blocklist]]
  BY <1>2
<1>4. accepted' = (accepted \ Holders) \cup accepted'
  BY <1>2
<1>5. CASE listed' = listed /\ accepted' = accepted
  BY <1>1, <1>5 DEF Hubs!environment, listed, accepted
<1>6. CASE listed' # listed \/ accepted' # accepted
  <2>1. PICK l \in [AllBlocklists -> SUBSET Holders], a \in SUBSET Holders :
          l = listed' /\ a = accepted'
    BY <1>2
  <2>2. Hubs!ListsChange(l, a)
    BY <1>1, <1>3, <1>4, <1>6, <2>1 DEF Hubs!ListsChange, listed, accepted
  <2> QED BY <2>2 DEF Hubs!EnvNext
<1> QED
  BY <1>5, <1>6

(* A step of the book is one of the environment, or nothing the hub sees.  *)
LEMMA BookImplements ==
  ASSUME BookTypeOK, PricesKnown, currentPriceId <= MaxPriceId,
         BookNext, UNCHANGED listVars
  PROVE  Hubs!EnvNext \/ UNCHANGED Hubs!environment
<1>0. /\ Submitted \subseteq Nat \ {0} /\ TimestampInputs \subseteq Nat
      /\ PriceInputs \subseteq Nat /\ PriceInputs \ {0} \subseteq Submitted
  BY PriceBookAssumption DEF Submitted
<1>1. UNCHANGED <<[blocklist \in AllBlocklists |-> BlockedBy(blocklist)],
                  {account \in Holders : Accepts(account)}>>
  BY DEF listVars, tokenVars, aggregatorVars, allowlistVars, termVars, BlockedBy, IsBlocked,
         Accepts, MayMove, IsAllowed, HasValidTerm
<1>2. CASE BookTick
  <2>1. bookTime < MaxBookTime /\ bookTime' = bookTime + 1 /\ UNCHANGED PriceOf
    BY <1>2 DEF BookTick, PriceOf, currentPriceId
  <2>2. Hubs!Tick
    BY <1>1, <2>1 DEF Hubs!Tick
  <2> QED BY <2>2 DEF Hubs!EnvNext
<1>3. CASE UNCHANGED <<bookTime, book>>
  <2>1. UNCHANGED PriceOf
    BY <1>3 DEF PriceOf, currentPriceId
  <2> QED BY <1>1, <1>3, <2>1 DEF Hubs!environment
<1>4. CASE ConstructPricerWithOracle \/ AddLatestOraclePrice
  <2>1. /\ Push(oracle.price, oracle.timestamp) /\ UNCHANGED bookTime
        /\ oracle.price \in Submitted /\ oracle.timestamp \in Nat
    BY <1>4 DEF ConstructPricerWithOracle, AddLatestOraclePrice, BookTypeOK, PricesKnown
  <2> QED BY <2>1, PushImplements
<1>5. ASSUME NEW price \in PriceInputs, NEW timestamp \in TimestampInputs,
             AddPriceInfo(price, timestamp)
      PROVE  Hubs!EnvNext
  <2>1. /\ Push(price, timestamp) /\ UNCHANGED bookTime
        /\ price \in Submitted /\ timestamp \in Nat
    BY <1>0, <1>5 DEF AddPriceInfo
  <2> QED BY <2>1, PushImplements
<1>6. ASSUME NEW price \in PriceInputs, NEW priceId \in 1..currentPriceId,
             UpdatePriceInfo(priceId, price)
      PROVE  Hubs!EnvNext
  BY <1>6, UpdateImplements
<1> QED
  BY <1>2, <1>3, <1>4, <1>5, <1>6 DEF BookNext, NewRound, SetPriceDirectly

(* The book stays within its bound.                                        *)
LEMMA BookLengthStep ==
  ASSUME BookTypeOK, PricesKnown, currentPriceId <= MaxPriceId, [BookNext]_bookVars
  PROVE  (currentPriceId <= MaxPriceId)'
<1>0. MaxPriceId \in Nat
  BY PriceBookAssumption
<1>1. CASE UNCHANGED book
  BY <1>1 DEF currentPriceId
<1>2. ASSUME NEW price, NEW timestamp, Push(price, timestamp)
      PROVE  (currentPriceId <= MaxPriceId)'
  BY <1>0, <1>2 DEF Push, currentPriceId, BookTypeOK
<1>3. ASSUME NEW price \in PriceInputs, NEW priceId \in 1..currentPriceId,
             UpdatePriceInfo(priceId, price)
      PROVE  (currentPriceId <= MaxPriceId)'
  BY <1>3, UpdatedIs, PriceBookAssumption
<1> QED
  BY <1>1, <1>2, <1>3 DEF BookNext, BookTick, NewRound, SetPriceDirectly, AddPriceInfo,
     ConstructPricerWithOracle, AddLatestOraclePrice, bookVars

(* A new book has no price and new lists block nobody.                     *)
LEMMA EnvironmentInitImplements ==
  ASSUME EnvironmentInit
  PROVE  Hubs!EnvInit
<1>1. \A priceId \in 1..MaxPriceId : PriceOf[priceId] = 0
  BY PriceBookAssumption, PriceOfIs DEF EnvironmentInit, BookInit, currentPriceId
<1>2. PriceOf = [priceId \in 1..MaxPriceId |-> 0]
  BY <1>1 DEF PriceOf
<1>3. \A blocklist \in AllBlocklists : BlockedBy(blocklist) = {}
  BY DEF EnvironmentInit, ListInit, BlockedBy, IsBlocked, AllBlocklists
<1> DEFINE accepted == {account \in Holders : Accepts(account)}
<1>4. \E refused \in SUBSET Holders : accepted = Holders \ refused
  <2>1. Holders \ accepted \in SUBSET Holders /\ accepted = Holders \ (Holders \ accepted)
    OBVIOUS
  <2> QED BY <2>1
<1>5. bookTime = 1
  BY DEF EnvironmentInit, BookInit
<1> QED
  BY <1>2, <1>3, <1>4, <1>5 DEF Hubs!EnvInit

(* The pricers and oracles, the lists, terms, pointers and pause switch are, *)
(* to the hub, a HubEnvironment: what the modules of the hub were checked  *)
(* and proved with stands for the contracts the repository deploys.        *)
THEOREM ActsAsHubEnvironmentHolds == EnvironmentSpec => ActsAsHubEnvironment
<1> DEFINE Inv == BookTypeOK /\ PricesKnown /\ currentPriceId <= MaxPriceId
<1>1. EnvironmentInit => Inv /\ Hubs!EnvInit
  <2> SUFFICES ASSUME EnvironmentInit PROVE Inv
    BY EnvironmentInitImplements
  <2>1. currentPriceId = 0 /\ oracle.price = InitialPrice
    BY DEF EnvironmentInit, BookInit, currentPriceId
  <2> QED
    BY <2>1, BookTypeInit, PriceBookAssumption DEF EnvironmentInit, PricesKnown, Submitted
<1>2. Inv /\ [EnvironmentNext]_environmentVars => Inv'
  BY StepOfPart, BookTypeStep, PricesKnownStep, BookLengthStep
<1>3. Inv /\ [EnvironmentNext]_environmentVars => [Hubs!EnvNext]_(Hubs!environment)
  <2> SUFFICES ASSUME Inv, [EnvironmentNext]_environmentVars
               PROVE  Hubs!EnvNext \/ UNCHANGED Hubs!environment
    OBVIOUS
  <2>1. CASE BookNext /\ UNCHANGED listVars
    BY <2>1, BookImplements
  <2>2. CASE UNCHANGED bookVars
    BY <2>2, ListsImplement
  <2> QED BY <2>1, <2>2 DEF EnvironmentNext, environmentVars
<1> QED
  BY <1>1, <1>2, <1>3, PTL DEF EnvironmentSpec, ActsAsHubEnvironment

=============================================================================
