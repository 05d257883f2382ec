-------------------------- MODULE EpochLimitsProofs --------------------------
(***************************************************************************)
(* The epoch limits, for every set of users, schedule, maximum and amount: *)
(* the schedule stays in the past under the full specification, and if it  *)
(* is settled before the first limited request, users get what they are    *)
(* promised and the lazy records implement the tallies of EpochTally.      *)
(***************************************************************************)
EXTENDS EpochLimits, TLAPS

EpochInv == EpochTypeOK /\ StartInPast

(* The offset of the epoch that holds the time `elapsed`, as the code      *)
(* computes it.                                                            *)
Offset(elapsed, interval) == (elapsed \div interval) * interval

LEMMA OffsetNat ==
  ASSUME NEW elapsed \in Nat, NEW interval \in Nat \ {0}
  PROVE  Offset(elapsed, interval) \in Nat
<1>1. elapsed \div interval \in Nat
  BY SMTT(30)
<1> QED
  BY <1>1, SMTT(30) DEF Offset

(* Time never moves the current epoch back.                                *)
LEMMA OffsetMonotone ==
  ASSUME NEW earlier \in Nat, NEW later \in Nat, earlier <= later,
         NEW interval \in Nat \ {0}
  PROVE  Offset(earlier, interval) <= Offset(later, interval)
<1> DEFINE first == earlier \div interval
<1> DEFINE second == later \div interval
<1>1. first \in Nat /\ first * interval <= earlier
  BY SMTT(30)
<1>2. second \in Nat /\ later < (second + 1) * interval
  BY SMTT(30)
<1> HIDE DEF first, second
<1>3. first * interval < (second + 1) * interval
  <2>1. first * interval \in Nat /\ (second + 1) * interval \in Nat
    BY <1>1, <1>2, SMTT(30)
  <2> QED BY <1>1, <1>2, <2>1
<1>4. first <= second
  BY <1>1, <1>2, <1>3, SMTT(30)
<1>5. first * interval <= second * interval
  BY <1>1, <1>2, <1>4, SMTT(30)
<1> QED
  BY <1>5 DEF Offset, first, second

LEMMA CurrentEpochNat == EpochInv => CurrentEpoch \in Nat
<1> SUFFICES ASSUME EpochInv PROVE CurrentEpoch \in Nat
  OBVIOUS
<1>1. CASE epochInterval # 0 /\ epochStartTimestamp # 0
  <2>1. blockTimestamp - epochStartTimestamp \in Nat /\ epochInterval \in Nat \ {0}
    BY <1>1 DEF EpochInv, EpochTypeOK, StartInPast
  <2> QED BY <1>1, <2>1, OffsetNat DEF CurrentEpoch, Offset
<1> QED
  BY <1>1 DEF CurrentEpoch

LEMMA EpochInitOK == EpochInit => EpochInv
<1>1. NoOperator \in UserOperator
  BY DEF NoOperator, UserOperator
<1> QED
  BY <1>1, EpochAssumption DEF EpochInit, EpochInv, EpochTypeOK, StartInPast

(* Replacing one record keeps a table of records well formed.              *)
LEMMA UserRecordReplaced ==
  ASSUME NEW records \in [Sides -> [Users -> UserOperator]],
         NEW side \in Sides, NEW user \in Users, NEW record \in UserOperator
  PROVE  [records EXCEPT ![side][user] = record] \in [Sides -> [Users -> UserOperator]]
<1>1. records[side] \in [Users -> UserOperator]
  OBVIOUS
<1>2. [records[side] EXCEPT ![user] = record] \in [Users -> UserOperator]
  BY <1>1
<1> QED
  BY <1>2

LEMMA TotalRecordReplaced ==
  ASSUME NEW records \in [Sides -> UserOperator],
         NEW side \in Sides, NEW record \in UserOperator
  PROVE  [records EXCEPT ![side] = record] \in [Sides -> UserOperator]
  OBVIOUS

(* The tallies of an accepted request are well formed.                     *)
LEMMA RequestTyped ==
  ASSUME EpochInv, RequestStep
  PROVE  EpochInv'
<1>0. PICK side \in Sides, account \in Users :
        \E amount \in Requests[side] : Request(side, account, amount)
  BY DEF RequestStep
<1>1. PICK amount \in Requests[side] : Request(side, account, amount)
  BY <1>0
<1>2. amount \in Nat /\ CurrentEpoch \in Nat
  BY EpochAssumption, CurrentEpochNat
<1>3. CalendarEpoch \in Nat
  BY <1>2 DEF CalendarEpoch, EpochInv, EpochTypeOK
<1>4. totalEpochOperator' \in [Sides -> UserOperator]
  <2>1. Carried(totalEpochOperator[side]) + amount \in Nat
    BY <1>2 DEF Carried, EpochInv, EpochTypeOK, UserOperator
  <2> DEFINE record == [epochTimestamp |-> CurrentEpoch,
                        amount |-> Carried(totalEpochOperator[side]) + amount]
  <2>2. record \in UserOperator
    BY <1>2, <2>1 DEF UserOperator
  <2>3. \/ totalEpochOperator' = totalEpochOperator
        \/ totalEpochOperator' = [totalEpochOperator EXCEPT ![side] = record]
    BY <1>1 DEF Request, CheckAndUpdateTotalLimit
  <2> HIDE DEF record
  <2> QED BY <2>2, <2>3, TotalRecordReplaced DEF EpochInv, EpochTypeOK
<1>5. epochUserOperator' \in [Sides -> [Users -> UserOperator]]
  <2>1. Carried(epochUserOperator[side][account]) + amount \in Nat
    BY <1>2 DEF Carried, EpochInv, EpochTypeOK, UserOperator
  <2> DEFINE record == [epochTimestamp |-> CurrentEpoch,
                        amount |-> Carried(epochUserOperator[side][account]) + amount]
  <2>2. record \in UserOperator
    BY <1>2, <2>1 DEF UserOperator
  <2>3. \/ epochUserOperator' = epochUserOperator
        \/ epochUserOperator' = [epochUserOperator EXCEPT ![side][account] = record]
    BY <1>1 DEF Request, CheckAndUpdateLimit
  <2> HIDE DEF record
  <2>4. epochUserOperator \in [Sides -> [Users -> UserOperator]]
    BY DEF EpochInv, EpochTypeOK
  <2>5. [epochUserOperator EXCEPT ![side][account] = record]
          \in [Sides -> [Users -> UserOperator]]
    BY <2>2, <2>4, UserRecordReplaced, Zenon
  <2> QED BY <2>3, <2>4, <2>5, Zenon
<1>6. accepted' \in [Sides -> [Users -> UserOperator]]
  <2> DEFINE old == accepted[side][account]
  <2> DEFINE new == [epochTimestamp |-> CalendarEpoch,
                     amount |-> amount + (IF old.epochTimestamp = CalendarEpoch
                                            THEN old.amount ELSE 0)]
  <2>1. new \in UserOperator
    BY <1>2, <1>3 DEF EpochInv, EpochTypeOK, UserOperator
  <2>2. accepted' = accepted \/ accepted' = [accepted EXCEPT ![side][account] = new]
    BY <1>1 DEF Request, RecordAccepted
  <2> HIDE DEF new
  <2>3. accepted \in [Sides -> [Users -> UserOperator]]
    BY DEF EpochInv, EpochTypeOK
  <2>4. [accepted EXCEPT ![side][account] = new] \in [Sides -> [Users -> UserOperator]]
    BY <2>1, <2>3, UserRecordReplaced, Zenon
  <2> QED BY <2>2, <2>3, <2>4, Zenon
<1> QED
  BY <1>1, <1>4, <1>5, <1>6
     DEF Request, EpochInv, EpochTypeOK, StartInPast, schedule, maximums

LEMMA EpochInvInductive == EpochInv /\ [EpochNext]_epochVars => EpochInv'
<1> SUFFICES ASSUME EpochInv, [EpochNext]_epochVars PROVE EpochInv'
  OBVIOUS
<1> USE DEF EpochInv, EpochTypeOK, StartInPast, schedule, maximums, operators
<1>1. CASE Tick
  BY <1>1 DEF Tick
<1>2. CASE MaximumStep
  BY <1>2, EpochAssumption
     DEF MaximumStep, SetMaximumAmountInEpoch, SetTotalMaximumAmountInEpoch
<1>3. CASE ScheduleStep
  BY <1>3, EpochAssumption DEF ScheduleStep, SetEpochStartTime, SetEpochInterval
<1>4. CASE RequestStep
  BY <1>4, RequestTyped
<1>5. CASE UNCHANGED epochVars
  BY <1>5 DEF epochVars
<1> QED
  BY <1>1, <1>2, <1>3, <1>4, <1>5 DEF EpochNext

(* The epoch records and maximums have their types in every reachable      *)
(* state, whatever the manager does with the schedule.                     *)
THEOREM EpochTypeCorrect == EpochSpec => []EpochTypeOK
<1>1. EpochInit => EpochInv
  BY EpochInitOK
<1>2. EpochInv => EpochTypeOK
  BY DEF EpochInv
<1> QED
  BY <1>1, <1>2, EpochInvInductive, PTL DEF EpochSpec

(* `block.timestamp - epochStartTimestamp` never underflows: no sequence   *)
(* of setters and requests leaves the schedule in the future.              *)
THEOREM StartStaysInPast == EpochSpec => []StartInPast
<1>1. EpochInit => EpochInv
  BY EpochInitOK
<1>2. EpochInv => StartInPast
  BY DEF EpochInv
<1> QED
  BY <1>1, <1>2, EpochInvInductive, PTL DEF EpochSpec

-----------------------------------------------------------------------------
(* The steps that leave the schedule alone. *)

ScheduledNext == Tick \/ MaximumStep \/ RequestStep

(* Only Tick moves the current epoch, and only forward.                    *)
LEMMA EpochAdvances ==
  ASSUME EpochInv, [ScheduledNext]_epochVars
  PROVE  /\ EpochInv'
         /\ CurrentEpoch \in Nat /\ CurrentEpoch' \in Nat
         /\ CurrentEpoch <= CurrentEpoch'
         /\ ~Tick => CurrentEpoch' = CurrentEpoch
<1>1. EpochInv'
  BY EpochInvInductive DEF ScheduledNext, EpochNext
<1>2. CurrentEpoch \in Nat
  BY CurrentEpochNat
<1>3. CurrentEpoch' \in Nat
  <2>1. (CurrentEpoch \in Nat)'
    BY <1>1, CurrentEpochNat, PTL
  <2> QED BY <2>1
<1>4. CASE Tick
  <2>1. /\ epochInterval' = epochInterval
        /\ epochStartTimestamp' = epochStartTimestamp
        /\ blockTimestamp' = blockTimestamp + 1
    BY <1>4 DEF Tick, schedule
  <2>2. CASE epochInterval # 0 /\ epochStartTimestamp # 0
    <3> DEFINE earlier == blockTimestamp - epochStartTimestamp
    <3> DEFINE later == blockTimestamp' - epochStartTimestamp'
    <3>1. earlier \in Nat /\ later \in Nat /\ earlier <= later /\ epochInterval \in Nat \ {0}
      BY <2>1, <2>2 DEF EpochInv, EpochTypeOK, StartInPast
    <3>2. Offset(earlier, epochInterval) <= Offset(later, epochInterval)
      BY <3>1, OffsetMonotone
    <3> QED BY <1>1, <1>2, <1>3, <1>4, <2>1, <2>2, <3>2 DEF CurrentEpoch, Offset
  <2> QED BY <1>1, <1>2, <1>3, <1>4, <2>1, <2>2 DEF CurrentEpoch
<1>5. CASE ~Tick
  <2>1. UNCHANGED <<blockTimestamp, epochStartTimestamp, epochInterval>>
    BY <1>5 DEF ScheduledNext, MaximumStep, RequestStep, SetMaximumAmountInEpoch,
                SetTotalMaximumAmountInEpoch, Request, schedule, epochVars
  <2> QED BY <1>1, <1>2, <2>1, <1>5 DEF CurrentEpoch
<1> QED
  BY <1>1, <1>2, <1>3, <1>4, <1>5

LEMMA RecordsUnchanged ==
  ASSUME EpochInv, [ScheduledNext]_epochVars, NoRecordFromTheFuture, ~RequestStep
  PROVE  UNCHANGED operators /\ NoRecordFromTheFuture'
<1>1. UNCHANGED operators
  BY DEF ScheduledNext, Tick, MaximumStep, SetMaximumAmountInEpoch,
         SetTotalMaximumAmountInEpoch, epochVars
<1>2. /\ epochUserOperator \in [Sides -> [Users -> UserOperator]]
      /\ totalEpochOperator \in [Sides -> UserOperator]
  BY DEF EpochInv, EpochTypeOK
<1>3. CurrentEpoch \in Nat /\ CurrentEpoch' \in Nat /\ CurrentEpoch <= CurrentEpoch'
  BY EpochAdvances
<1>4. ASSUME NEW side \in Sides
      PROVE  /\ totalEpochOperator'[side].epochTimestamp <= CurrentEpoch'
             /\ \A user \in Users :
                  epochUserOperator'[side][user].epochTimestamp <= CurrentEpoch'
  <2> HIDE DEF CurrentEpoch
  <2>1. totalEpochOperator[side].epochTimestamp \in Nat
    BY <1>2 DEF UserOperator
  <2>2. \A user \in Users : epochUserOperator[side][user].epochTimestamp \in Nat
    BY <1>2 DEF UserOperator
  <2> QED
    BY <1>1, <1>3, <2>1, <2>2 DEF operators, NoRecordFromTheFuture
<1> QED
  BY <1>1, <1>4 DEF NoRecordFromTheFuture

LEMMA DatesInductive ==
  ASSUME EpochInv, NoRecordFromTheFuture, [ScheduledNext]_epochVars
  PROVE  NoRecordFromTheFuture'
<1>1. CurrentEpoch \in Nat
  BY CurrentEpochNat
<1>2. CASE ~RequestStep
  BY <1>2, RecordsUnchanged
<1>3. CASE RequestStep
  <2>0. PICK side \in Sides, account \in Users :
          \E amount \in Requests[side] : Request(side, account, amount)
    BY <1>3 DEF RequestStep
  <2>1. PICK amount \in Requests[side] : Request(side, account, amount)
    BY <2>0
  <2>2. CurrentEpoch' = CurrentEpoch
    BY <2>1 DEF Request, schedule, CurrentEpoch
  <2>3. \A s \in Sides : totalEpochOperator'[s].epochTimestamp <= CurrentEpoch'
    <3>1. ASSUME NEW s \in Sides
          PROVE  \/ totalEpochOperator'[s] = totalEpochOperator[s]
                 \/ totalEpochOperator'[s].epochTimestamp = CurrentEpoch
      BY <2>1 DEF Request, CheckAndUpdateTotalLimit, EpochInv, EpochTypeOK
    <3> QED BY <1>1, <2>2, <3>1 DEF NoRecordFromTheFuture
  <2>4. \A s \in Sides, user \in Users :
          epochUserOperator'[s][user].epochTimestamp <= CurrentEpoch'
    <3>1. ASSUME NEW s \in Sides, NEW user \in Users
          PROVE  \/ epochUserOperator'[s][user] = epochUserOperator[s][user]
                 \/ epochUserOperator'[s][user].epochTimestamp = CurrentEpoch
      BY <2>1 DEF Request, CheckAndUpdateLimit, EpochInv, EpochTypeOK
    <3> QED BY <1>1, <2>2, <3>1 DEF NoRecordFromTheFuture
  <2> QED BY <1>1, <2>3, <2>4 DEF NoRecordFromTheFuture
<1> QED
  BY <1>2, <1>3

-----------------------------------------------------------------------------
(* What users are promised. *)

(* While the schedule stands, a record and the calendar tell the same      *)
(* story: the amount in the record is what was accepted in the epoch the   *)
(* record is dated with.                                                   *)
Matches(side, user) ==
  LET record == epochUserOperator[side][user]
      told == accepted[side][user]
  IN  /\ told.amount = record.amount
      /\ record.amount # 0 =>
           told.epochTimestamp = epochStartTimestamp + record.epochTimestamp

RecordsMatch == \A side \in Sides, user \in Users : Matches(side, user)

(* A limited request: the record and the calendar grow to the same amount. *)
LEMMA RequestMatches ==
  ASSUME EpochInv, NoRecordFromTheFuture, RecordsMatch, NEW side \in Sides, NEW user \in Users,
         NEW amount \in Nat, Request(side, user, amount), UserLimited(side)
  PROVE  Matches(side, user)' /\ accepted'[side][user].amount <= userMaximum[side]
<1> DEFINE record == epochUserOperator[side][user]
<1> DEFINE told == accepted[side][user]
<1>1. /\ record \in UserOperator /\ told \in UserOperator
      /\ CurrentEpoch \in Nat /\ epochStartTimestamp \in Nat
      /\ record.epochTimestamp <= CurrentEpoch
  BY CurrentEpochNat DEF EpochInv, EpochTypeOK, NoRecordFromTheFuture
<1>2. /\ record.amount \in Nat /\ record.epochTimestamp \in Nat
      /\ told.amount \in Nat /\ told.epochTimestamp \in Nat
  BY <1>1 DEF UserOperator
<1>3. /\ epochUserOperator'[side][user]
           = [epochTimestamp |-> CurrentEpoch, amount |-> Carried(record) + amount]
      /\ Carried(record) + amount <= userMaximum[side]
  BY DEF Request, CheckAndUpdateLimit, EpochInv, EpochTypeOK
<1>4. accepted'[side][user] =
        [epochTimestamp |-> CalendarEpoch,
         amount |-> amount + (IF told.epochTimestamp = CalendarEpoch THEN told.amount ELSE 0)]
  BY DEF Request, RecordAccepted, EpochInv, EpochTypeOK
<1>5. epochStartTimestamp' = epochStartTimestamp
  BY DEF Request, schedule
<1>6. Matches(side, user)
  BY DEF RecordsMatch
<1>7. (IF told.epochTimestamp = CalendarEpoch THEN told.amount ELSE 0) = Carried(record)
  <2> HIDE DEF CurrentEpoch
  <2> QED BY <1>1, <1>2, <1>6 DEF Matches, Carried, CalendarEpoch
<1>8. Carried(record) \in Nat
  BY <1>2 DEF Carried
<1> HIDE DEF record, told, CurrentEpoch, Carried
<1> QED
  BY <1>1, <1>3, <1>4, <1>5, <1>7, <1>8 DEF Matches, CalendarEpoch

(* Whatever else happens, the story of a user is left alone.               *)
LEMMA StepMatches ==
  ASSUME EpochInv, NoRecordFromTheFuture, RecordsMatch, [ScheduledNext]_epochVars,
         NEW side \in Sides, NEW user \in Users
  PROVE  /\ Matches(side, user)'
         /\ accepted'[side][user] # accepted[side][user] =>
              accepted'[side][user].amount <= userMaximum[side]
<1>0. Matches(side, user)
  BY DEF RecordsMatch
<1>1. ASSUME UNCHANGED <<epochStartTimestamp, epochUserOperator[side][user],
                         accepted[side][user]>>
      PROVE  /\ Matches(side, user)'
             /\ accepted'[side][user] # accepted[side][user] =>
                  accepted'[side][user].amount <= userMaximum[side]
  BY <1>0, <1>1 DEF Matches
<1>2. CASE RequestStep
  <2>0. PICK s \in Sides, account \in Users :
          \E amount \in Requests[s] : Request(s, account, amount)
    BY <1>2 DEF RequestStep
  <2>1. PICK amount \in Requests[s] : Request(s, account, amount)
    BY <2>0
  <2>2. amount \in Nat /\ UNCHANGED epochStartTimestamp
    BY <2>1, EpochAssumption DEF Request, schedule
  <2>3. CASE s = side /\ account = user /\ UserLimited(s)
    BY <2>1, <2>2, <2>3, RequestMatches
  <2>4. CASE ~UserLimited(s)
    BY <1>1, <2>1, <2>2, <2>4 DEF Request, CheckAndUpdateLimit, RecordAccepted
  <2>5. CASE s # side \/ account # user
    <3>1. UNCHANGED epochUserOperator[side][user]
      BY <2>1, <2>5 DEF Request, CheckAndUpdateLimit, EpochInv, EpochTypeOK
    <3>2. UNCHANGED accepted[side][user]
      BY <2>1, <2>5 DEF Request, RecordAccepted, EpochInv, EpochTypeOK
    <3> QED BY <1>1, <2>2, <3>1, <3>2
  <2> QED BY <2>3, <2>4, <2>5
<1>3. CASE Tick \/ MaximumStep \/ UNCHANGED epochVars
  BY <1>1, <1>3 DEF Tick, MaximumStep, SetMaximumAmountInEpoch,
     SetTotalMaximumAmountInEpoch, epochVars, schedule, operators
<1> QED
  BY <1>2, <1>3 DEF ScheduledNext

-----------------------------------------------------------------------------
(* From the deployment on: moving the schedule while no limited request is *)
(* on record leaves the records and the calendar in agreement, because     *)
(* both are empty.                                                         *)

SettledInv == EpochInv /\ NoRecordFromTheFuture /\ RecordsMatch

LEMMA ScheduleMoves ==
  ASSUME SettledInv, ScheduleStep, NoRequestRecorded
  PROVE  SettledInv' /\ UNCHANGED <<operators, accepted>>
<1> USE DEF SettledInv
<1>1. UNCHANGED <<operators, accepted>>
  BY DEF ScheduleStep, SetEpochStartTime, SetEpochInterval
<1>2. EpochInv'
  BY EpochInvInductive DEF EpochNext
<1>3. CurrentEpoch' \in Nat
  <2>1. (CurrentEpoch \in Nat)'
    BY <1>2, CurrentEpochNat, PTL
  <2> QED BY <2>1
<1> HIDE DEF CurrentEpoch
<1>4. NoRecordFromTheFuture'
  BY <1>1, <1>3 DEF NoRequestRecorded, NoRecordFromTheFuture, NoOperator, operators
<1>5. ASSUME NEW side \in Sides, NEW user \in Users
      PROVE  Matches(side, user)'
  <2>1. Matches(side, user) /\ epochUserOperator[side][user].amount = 0
    BY DEF RecordsMatch, NoRequestRecorded, NoOperator
  <2> QED BY <1>1, <2>1 DEF Matches, operators
<1> QED
  BY <1>1, <1>2, <1>4, <1>5 DEF RecordsMatch

LEMMA SettledStep ==
  ASSUME SettledInv, [EpochNext /\ ScheduleSettled]_epochVars
  PROVE  /\ SettledInv'
         /\ \/ [ScheduledNext]_epochVars
            \/ UNCHANGED <<operators, accepted>>
<1>1. CASE [ScheduledNext]_epochVars
  <2>1. EpochInv' /\ NoRecordFromTheFuture'
    BY <1>1, EpochAdvances, DatesInductive DEF SettledInv
  <2>2. \A side \in Sides, user \in Users : Matches(side, user)'
    BY <1>1, StepMatches DEF SettledInv
  <2> QED BY <1>1, <2>1, <2>2 DEF SettledInv, RecordsMatch
<1>2. CASE ScheduleStep /\ NoRequestRecorded
  BY <1>2, ScheduleMoves
<1>3. CASE ScheduleStep /\ UNCHANGED schedule
  <2>1. UNCHANGED epochVars
    BY <1>3 DEF ScheduleStep, SetEpochStartTime, SetEpochInterval, schedule, epochVars
  <2> QED BY <1>1, <2>1
<1> QED
  BY <1>1, <1>2, <1>3 DEF EpochNext, ScheduledNext, ScheduleSettled

LEMMA SettledInit == EpochInit => SettledInv
<1> SUFFICES ASSUME EpochInit PROVE SettledInv
  OBVIOUS
<1>1. EpochInv /\ CurrentEpoch \in Nat
  BY EpochInitOK, CurrentEpochNat
<1> HIDE DEF CurrentEpoch
<1> QED
  BY <1>1 DEF SettledInv, EpochInit, NoRecordFromTheFuture, RecordsMatch, Matches, NoOperator

LEMMA SettledInvariance == SettledSpec => []SettledInv
<1>1. SettledInv /\ [EpochNext /\ ScheduleSettled]_epochVars => SettledInv'
  BY SettledStep
<1> QED
  BY <1>1, SettledInit, PTL DEF SettledSpec

(* No order of setters, requests and time makes the comparison that resets *)
(* a record meet one that is dated after the current epoch.                *)
THEOREM NoRecordFromTheFutureHolds == SettledSpec => []NoRecordFromTheFuture
<1>1. SettledInv => NoRecordFromTheFuture
  BY DEF SettledInv
<1> QED
  BY <1>1, SettledInvariance, PTL

(* The per-user maximum holds from the constructor on, before a schedule   *)
(* exists, while it is set up, and after, provided that MANAGER_ADMIN      *)
(* moves it only while no limited request is on record.                    *)
THEOREM WithinEpochMaximumHolds == SettledSpec => WithinEpochMaximum
<1>1. SettledInv /\ [EpochNext /\ ScheduleSettled]_epochVars =>
        [\A side \in Sides, user \in Users :
           accepted'[side][user] # accepted[side][user]
             => accepted'[side][user].amount <= userMaximum[side]]_epochVars
  BY SettledStep, StepMatches DEF SettledInv
<1> QED
  BY <1>1, SettledInvariance, PTL DEF SettledSpec, WithinEpochMaximum

(* So does the whole allowance of a fresh epoch.                           *)
THEOREM FreshEpochFreshAllowanceHolds == SettledSpec => FreshEpochFreshAllowance
<1>1. SettledInv /\ [EpochNext /\ ScheduleSettled]_epochVars =>
        [\A side \in Sides, user \in Users :
           /\ epochUserOperator'[side][user] # epochUserOperator[side][user]
           /\ accepted[side][user].epochTimestamp # CalendarEpoch
           => epochUserOperator'[side][user].amount = accepted'[side][user].amount]_epochVars
  BY SettledStep, StepMatches DEF SettledInv, Matches, operators
<1> QED
  BY <1>1, SettledInvariance, PTL DEF SettledSpec, FreshEpochFreshAllowance

-----------------------------------------------------------------------------
(* The refinement. *)

LEMMA CarriedIsTallied ==
  ASSUME NEW operator \in UserOperator,
         CurrentEpoch \in Nat, operator.epochTimestamp <= CurrentEpoch
  PROVE  /\ Carried(operator) = Tallied(operator)
         /\ Tallied(operator) \in Nat
<1>1. operator.epochTimestamp \in Nat /\ operator.amount \in Nat
  BY DEF UserOperator
<1> HIDE DEF CurrentEpoch
<1> QED
  BY <1>1 DEF Carried, Tallied

LEMMA InitImplements == EpochInit => Tally!TallyInit
<1> SUFFICES ASSUME EpochInit PROVE Tally!TallyInit
  OBVIOUS
<1>1. CurrentEpoch \in Nat
  BY EpochInitOK, CurrentEpochNat
<1>2. Tallied(NoOperator) = 0
  BY DEF Tallied, NoOperator
<1>3. /\ [side \in Sides |-> [user \in Users |-> Tallied(epochUserOperator[side][user])]]
           = [side \in Sides |-> [user \in Users |-> 0]]
      /\ [side \in Sides |-> Tallied(totalEpochOperator[side])] = [side \in Sides |-> 0]
  BY <1>2 DEF EpochInit
<1>4. userMaximum \in [Sides -> Nat] /\ totalMaximum \in [Sides -> Nat]
  BY DEF EpochInit
<1>5. NoRequestRecorded
  BY DEF EpochInit, NoRequestRecorded
<1> QED
  BY <1>1, <1>3, <1>4, <1>5
     DEF Tally!TallyInit, Tally!NoUserTally, Tally!NoTotalTally, Tally!Sides, Sides

LEMMA TickImplements ==
  ASSUME SettledInv, Tick
  PROVE  Tally!NextEpoch \/ UNCHANGED Tally!tallyVars
<1>1. /\ CurrentEpoch \in Nat /\ CurrentEpoch' \in Nat
      /\ CurrentEpoch <= CurrentEpoch'
  BY EpochAdvances DEF SettledInv, ScheduledNext
<1>2. /\ UNCHANGED <<epochUserOperator, totalEpochOperator, userMaximum, totalMaximum>>
      /\ NoRequestRecorded' = NoRequestRecorded
  BY DEF Tick, operators, maximums, NoRequestRecorded
<1>3. CASE CurrentEpoch' = CurrentEpoch
  <2>1. /\ \A side \in Sides, user \in Users :
             Tallied(epochUserOperator[side][user])' = Tallied(epochUserOperator[side][user])
        /\ \A side \in Sides :
             Tallied(totalEpochOperator[side])' = Tallied(totalEpochOperator[side])
    BY <1>2, <1>3 DEF Tallied
  <2> QED BY <1>2, <1>3, <2>1 DEF Tally!tallyVars
<1>4. CASE CurrentEpoch' > CurrentEpoch
  <2>1. ASSUME NEW side \in Sides
        PROVE  /\ Tallied(totalEpochOperator[side])' = 0
               /\ \A user \in Users : Tallied(epochUserOperator[side][user])' = 0
    <3>1. /\ totalEpochOperator[side].epochTimestamp \in Nat
          /\ totalEpochOperator[side].epochTimestamp <= CurrentEpoch
      BY DEF SettledInv, EpochInv, EpochTypeOK, UserOperator, NoRecordFromTheFuture
    <3>2. ASSUME NEW user \in Users
          PROVE  /\ epochUserOperator[side][user].epochTimestamp \in Nat
                 /\ epochUserOperator[side][user].epochTimestamp <= CurrentEpoch
      BY DEF SettledInv, EpochInv, EpochTypeOK, UserOperator, NoRecordFromTheFuture
    <3> HIDE DEF CurrentEpoch
    <3> QED BY <1>1, <1>2, <1>4, <3>1, <3>2 DEF Tallied
  <2>2. /\ [side \in Sides |-> [user \in Users |->
              Tallied(epochUserOperator[side][user])']]
             = [side \in Sides |-> [user \in Users |-> 0]]
        /\ [side \in Sides |-> Tallied(totalEpochOperator[side])'] = [side \in Sides |-> 0]
    BY <2>1
  <2> QED
    BY <1>1, <1>2, <1>4, <2>2
       DEF Tally!NextEpoch, Tally!NoUserTally, Tally!NoTotalTally, Tally!Sides, Sides
<1> QED
  BY <1>1, <1>3, <1>4

LEMMA MaximumImplements ==
  ASSUME SettledInv, MaximumStep
  PROVE  Tally!ChangeMaximums
<1>1. UNCHANGED <<blockTimestamp, schedule, operators>>
  BY DEF MaximumStep, SetMaximumAmountInEpoch, SetTotalMaximumAmountInEpoch
<1>2. CurrentEpoch' = CurrentEpoch
  BY <1>1 DEF CurrentEpoch, schedule
<1>3. userMaximum' \in [Sides -> Nat] /\ totalMaximum' \in [Sides -> Nat]
  <2>1. EpochInv'
    BY EpochInvInductive DEF SettledInv, EpochNext
  <2> QED BY <2>1 DEF EpochInv, EpochTypeOK
<1>4. /\ \A side \in Sides, user \in Users :
           Tallied(epochUserOperator[side][user])' = Tallied(epochUserOperator[side][user])
      /\ \A side \in Sides :
           Tallied(totalEpochOperator[side])' = Tallied(totalEpochOperator[side])
  BY <1>1, <1>2 DEF Tallied, operators
<1>5. NoRequestRecorded' = NoRequestRecorded
  BY <1>1 DEF NoRequestRecorded, operators
<1> QED
  BY <1>2, <1>3, <1>4, <1>5 DEF Tally!ChangeMaximums, Tally!Sides, Sides

(* While nothing is on record the tallies are empty, whatever the epoch.   *)
TalliesEmpty ==
  /\ \A side \in Sides, user \in Users : Tallied(epochUserOperator[side][user]) = 0
  /\ \A side \in Sides : Tallied(totalEpochOperator[side]) = 0

LEMMA NothingTallied == NoRequestRecorded => TalliesEmpty
<1>1. Tallied(NoOperator) = 0
  BY DEF Tallied, NoOperator
<1> HIDE DEF Tallied
<1> QED
  BY <1>1 DEF NoRequestRecorded, TalliesEmpty

(* Moving the schedule lays out the epochs anew.                           *)
LEMMA ScheduleImplements ==
  ASSUME SettledInv, ScheduleStep, NoRequestRecorded
  PROVE  Tally!LayOutEpochs
<1>1. SettledInv' /\ UNCHANGED operators
  BY ScheduleMoves
<1>2. UNCHANGED <<userMaximum, totalMaximum>>
  BY DEF ScheduleStep, SetEpochStartTime, SetEpochInterval, maximums
<1>3. CurrentEpoch' \in Nat
  <2>1. (CurrentEpoch \in Nat)'
    BY <1>1, CurrentEpochNat, PTL DEF SettledInv
  <2> QED BY <2>1
<1>4. NoRequestRecorded' = NoRequestRecorded
  BY <1>1 DEF NoRequestRecorded, operators
<1>5. /\ \A side \in Sides, user \in Users :
           /\ Tallied(epochUserOperator[side][user]) = 0
           /\ Tallied(epochUserOperator[side][user])' = 0
      /\ \A side \in Sides :
           /\ Tallied(totalEpochOperator[side]) = 0
           /\ Tallied(totalEpochOperator[side])' = 0
  <2>1. NoRequestRecorded'
    BY <1>4
  <2>2. TalliesEmpty'
    BY <2>1, NothingTallied, PTL
  <2> QED BY <2>2, NothingTallied DEF TalliesEmpty
<1> HIDE DEF CurrentEpoch, Tallied
<1> QED
  BY <1>2, <1>3, <1>4, <1>5 DEF Tally!LayOutEpochs

(* A request never empties a record.                                       *)
LEMMA RecordStays ==
  ASSUME NEW operator \in UserOperator, NEW amount \in Nat,
         CurrentEpoch \in Nat, operator.epochTimestamp <= CurrentEpoch,
         [epochTimestamp |-> CurrentEpoch, amount |-> Carried(operator) + amount] = NoOperator
  PROVE  operator = NoOperator
<1>1. operator.epochTimestamp \in Nat /\ operator.amount \in Nat
  BY DEF UserOperator
<1>2. CurrentEpoch = 0 /\ Carried(operator) + amount = 0
  BY DEF NoOperator
<1>3. operator.epochTimestamp = 0
  BY <1>1, <1>2
<1>4. operator.amount = 0
  BY <1>1, <1>2, <1>3 DEF Carried
<1> QED
  BY <1>3, <1>4 DEF UserOperator, NoOperator

LEMMA BegunStays ==
  ASSUME SettledInv, NEW side \in Sides, NEW account \in Users,
         NEW amount \in Nat, Request(side, account, amount), NoRequestRecorded'
  PROVE  NoRequestRecorded
<1>1. /\ epochUserOperator \in [Sides -> [Users -> UserOperator]]
      /\ totalEpochOperator \in [Sides -> UserOperator]
      /\ CurrentEpoch \in Nat
  BY CurrentEpochNat DEF SettledInv, EpochInv, EpochTypeOK
<1> HIDE DEF CurrentEpoch
<1>2. ASSUME NEW s \in Sides PROVE totalEpochOperator[s] = NoOperator
  <2>1. totalEpochOperator'[s] = NoOperator
    BY DEF NoRequestRecorded
  <2>2. \/ totalEpochOperator'[s] = totalEpochOperator[s]
        \/ totalEpochOperator'[s] = [epochTimestamp |-> CurrentEpoch,
             amount |-> Carried(totalEpochOperator[s]) + amount]
    BY <1>1 DEF Request, CheckAndUpdateTotalLimit
  <2>3. totalEpochOperator[s].epochTimestamp <= CurrentEpoch
    BY DEF SettledInv, NoRecordFromTheFuture
  <2> QED BY <1>1, <2>1, <2>2, <2>3, RecordStays
<1>3. ASSUME NEW s \in Sides, NEW user \in Users
      PROVE  epochUserOperator[s][user] = NoOperator
  <2>1. epochUserOperator'[s][user] = NoOperator
    BY DEF NoRequestRecorded
  <2>2. \/ epochUserOperator'[s][user] = epochUserOperator[s][user]
        \/ epochUserOperator'[s][user] = [epochTimestamp |-> CurrentEpoch,
             amount |-> Carried(epochUserOperator[s][user]) + amount]
    BY <1>1 DEF Request, CheckAndUpdateLimit
  <2>3. epochUserOperator[s][user].epochTimestamp <= CurrentEpoch
    BY DEF SettledInv, NoRecordFromTheFuture
  <2> QED BY <1>1, <2>1, <2>2, <2>3, RecordStays
<1> QED
  BY <1>2, <1>3 DEF NoRequestRecorded

(* A request is tallied, unless the limits are off.                        *)
LEMMA RequestImplements ==
  ASSUME SettledInv, RequestStep
  PROVE  Tally!TallyNext \/ UNCHANGED Tally!tallyVars
<1>1. PICK side \in Sides, account \in Users :
        \E amount \in Requests[side] : Request(side, account, amount)
  BY DEF RequestStep
<1>2. PICK amount \in Requests[side] : Request(side, account, amount)
  BY <1>1
<1>3. UNCHANGED <<userMaximum, totalMaximum>> /\ CurrentEpoch' = CurrentEpoch
  BY <1>2 DEF Request, maximums, schedule, CurrentEpoch
<1>4. CurrentEpoch \in Nat
  BY CurrentEpochNat DEF SettledInv
<1>5. /\ epochUserOperator \in [Sides -> [Users -> UserOperator]]
      /\ totalEpochOperator \in [Sides -> UserOperator]
  BY DEF SettledInv, EpochInv, EpochTypeOK
<1>6. amount \in Nat
  BY EpochAssumption
<1>7. CASE epochInterval = 0
  <2>1. UNCHANGED <<epochUserOperator, totalEpochOperator>>
    BY <1>2, <1>7 DEF Request, CheckAndUpdateTotalLimit, CheckAndUpdateLimit,
                       TotalLimited, UserLimited
  <2>2. NoRequestRecorded' = NoRequestRecorded
    BY <2>1 DEF NoRequestRecorded
  <2> QED BY <1>3, <2>1, <2>2 DEF Tally!tallyVars, Tallied
<1>8. ASSUME epochInterval # 0 PROVE Tally!AcceptTotal(side, amount)
  <2>1. Carried(totalEpochOperator[side]) = Tallied(totalEpochOperator[side])
    BY <1>4, <1>5, CarriedIsTallied DEF SettledInv, NoRecordFromTheFuture
  <2>2. CASE ~TotalLimited(side)
    <3>1. totalEpochOperator' = totalEpochOperator /\ totalMaximum[side] = 0
      BY <1>2, <1>8, <2>2 DEF Request, CheckAndUpdateTotalLimit, TotalLimited
    <3> QED BY <1>3, <3>1 DEF Tally!AcceptTotal, Tallied
  <2>3. CASE TotalLimited(side)
    <3> DEFINE total == Tallied(totalEpochOperator[side]) + amount
    <3>1. /\ totalMaximum[side] # 0
          /\ total <= totalMaximum[side]
          /\ totalEpochOperator' = [totalEpochOperator EXCEPT ![side] =
               [epochTimestamp |-> CurrentEpoch, amount |-> total]]
      BY <1>2, <2>1, <2>3 DEF Request, CheckAndUpdateTotalLimit, TotalLimited
    <3>2. \A s \in Sides : Tallied(totalEpochOperator[s])' =
            IF s = side THEN total ELSE Tallied(totalEpochOperator[s])
      BY <1>3, <1>5, <3>1 DEF Tallied
    <3> HIDE DEF Tallied
    <3> QED BY <3>1, <3>2 DEF Tally!AcceptTotal, Tally!Sides, Sides
  <2> QED BY <2>2, <2>3
<1>9. ASSUME epochInterval # 0 PROVE Tally!AcceptUser(side, account, amount)
  <2>1. Carried(epochUserOperator[side][account]) = Tallied(epochUserOperator[side][account])
    BY <1>4, <1>5, CarriedIsTallied DEF SettledInv, NoRecordFromTheFuture
  <2>2. CASE ~UserLimited(side)
    <3>1. epochUserOperator' = epochUserOperator /\ userMaximum[side] = 0
      BY <1>2, <1>9, <2>2 DEF Request, CheckAndUpdateLimit, UserLimited
    <3> QED BY <1>3, <3>1 DEF Tally!AcceptUser, Tallied
  <2>3. CASE UserLimited(side)
    <3> DEFINE total == Tallied(epochUserOperator[side][account]) + amount
    <3>1. /\ userMaximum[side] # 0
          /\ total <= userMaximum[side]
          /\ epochUserOperator' = [epochUserOperator EXCEPT ![side][account] =
               [epochTimestamp |-> CurrentEpoch, amount |-> total]]
      BY <1>2, <2>1, <2>3 DEF Request, CheckAndUpdateLimit, UserLimited
    <3>2. \A s \in Sides, user \in Users : Tallied(epochUserOperator[s][user])' =
            IF s = side /\ user = account THEN total ELSE Tallied(epochUserOperator[s][user])
      BY <1>3, <1>5, <3>1 DEF Tallied
    <3> HIDE DEF Tallied
    <3> QED BY <3>1, <3>2 DEF Tally!AcceptUser, Tally!Sides, Sides
  <2> QED BY <2>2, <2>3
<1>10. amount \in UNION {Requests[s] : s \in Sides}
  BY <1>2
<1>11. ASSUME NoRequestRecorded'
      PROVE  /\ NoRequestRecorded
             /\ \A s \in Sides, user \in Users :
                  Tallied(epochUserOperator[s][user])' = Tallied(epochUserOperator[s][user])
             /\ \A s \in Sides :
                  Tallied(totalEpochOperator[s])' = Tallied(totalEpochOperator[s])
  <2>1. NoRequestRecorded
    BY <1>2, <1>11, <1>6, BegunStays
  <2>2. TalliesEmpty'
    BY <1>11, NothingTallied, PTL
  <2> QED BY <2>1, <2>2, NothingTallied DEF TalliesEmpty
<1>12. CASE epochInterval # 0
  <2>1. Tally!Accept(side, account, amount)
    <3> HIDE DEF CurrentEpoch, Tallied, NoRequestRecorded
    <3> QED BY <1>3, <1>8, <1>9, <1>11, <1>12 DEF Tally!Accept
  <2> QED BY <1>10, <2>1 DEF Tally!TallyNext, Tally!Sides, Sides
<1> QED
  BY <1>7, <1>12

(* From the constructor on, the lazily reset records behave as tallies     *)
(* that every epoch starts at 0, for every schedule, maximum, user and     *)
(* sequence of requests, if the schedule is settled before the first one.  *)
THEOREM LimitsImplementTallyHolds == SettledSpec => LimitsImplementTally
<1>1. SettledInv /\ [EpochNext /\ ScheduleSettled]_epochVars
        => [Tally!TallyNext]_(Tally!tallyVars)
  <2> SUFFICES ASSUME SettledInv, [EpochNext /\ ScheduleSettled]_epochVars
               PROVE  Tally!TallyNext \/ UNCHANGED Tally!tallyVars
    OBVIOUS
  <2>1. CASE Tick
    BY <2>1, TickImplements DEF Tally!TallyNext
  <2>2. CASE MaximumStep
    BY <2>2, MaximumImplements DEF Tally!TallyNext
  <2>3. CASE RequestStep
    BY <2>3, RequestImplements
  <2>4. CASE ScheduleStep /\ NoRequestRecorded
    BY <2>4, ScheduleImplements DEF Tally!TallyNext
  <2>5. CASE UNCHANGED epochVars
    BY <2>5 DEF epochVars, schedule, maximums, operators, Tally!tallyVars,
                Tallied, CurrentEpoch, NoRequestRecorded
  <2>6. CASE ScheduleStep /\ UNCHANGED schedule
    <3>1. UNCHANGED epochVars
      BY <2>6 DEF ScheduleStep, SetEpochStartTime, SetEpochInterval, schedule, epochVars
    <3> QED BY <2>5, <3>1
  <2> QED BY <2>1, <2>2, <2>3, <2>4, <2>5, <2>6 DEF EpochNext, ScheduleSettled
<1> QED
  BY <1>1, InitImplements, SettledInvariance, PTL
     DEF SettledSpec, LimitsImplementTally, Tally!TallySpec

=============================================================================
