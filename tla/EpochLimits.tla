----------------------------- MODULE EpochLimits -----------------------------
(***************************************************************************)
(* The epoch limits of USDYManager: per user and for all users, on the     *)
(* deposit and on the redemption side.  The code keeps one record          *)
(* [epochTimestamp, amount] per user and side and one per side for the     *)
(* total, and resets a record lazily, when a request finds it older than   *)
(* the current epoch.                                                      *)
(*                                                                         *)
(* A request that the rest of the hub refuses reverts these updates too,   *)
(* so a step here is a request that the whole call accepted.  The setters  *)
(* are MANAGER_ADMIN's.                                                    *)
(***************************************************************************)
EXTENDS Naturals

CONSTANTS
  Users,
  Requests,        \* Requests[side]: amounts users submit
  MaximumInputs,   \* bound: values of the per-user and total maximums
  StartInputs,     \* bound: values of the epoch start
  IntervalInputs,  \* bound: values of the epoch interval
  InitialTime,     \* block.timestamp at deployment, never 0
  MaxTime          \* bound on the block timestamp

Sides == {"deposit", "redemption"}

ASSUME EpochAssumption ==
  /\ Requests \in [Sides -> SUBSET Nat]
  /\ MaximumInputs \subseteq Nat
  /\ StartInputs \subseteq Nat
  /\ IntervalInputs \subseteq Nat
  /\ InitialTime \in Nat \ {0}
  /\ MaxTime \in Nat

VARIABLES
  blockTimestamp,
  epochStartTimestamp,
  epochInterval,
  userMaximum,        \* maximumDepositAmountInEpoch, maximumRedemptionAmountInEpoch
  totalMaximum,       \* totalMaximumDeposit/RedemptionAmountInEpoch
  epochUserOperator,  \* depositEpochUserOperator, redemptionEpochUserOperator
  totalEpochOperator, \* totalDepositEpochOperater, totalRedemptionEpochOperator
  (* History: the calendar epoch of the last limited request of each user, *)
  (* and what was accepted from the user in it.                            *)
  accepted

schedule == <<epochStartTimestamp, epochInterval>>
maximums == <<userMaximum, totalMaximum>>
operators == <<epochUserOperator, totalEpochOperator>>
epochVars == <<blockTimestamp, schedule, maximums, operators, accepted>>

UserOperator == [epochTimestamp: Nat, amount: Nat]
NoOperator == [epochTimestamp |-> 0, amount |-> 0]

EpochTypeOK ==
  /\ blockTimestamp \in Nat \ {0}
  /\ epochStartTimestamp \in Nat
  /\ epochInterval \in Nat
  /\ userMaximum \in [Sides -> Nat]
  /\ totalMaximum \in [Sides -> Nat]
  /\ epochUserOperator \in [Sides -> [Users -> UserOperator]]
  /\ totalEpochOperator \in [Sides -> UserOperator]
  /\ accepted \in [Sides -> [Users -> UserOperator]]

EpochInit ==
  /\ blockTimestamp = InitialTime
  /\ epochStartTimestamp = 0
  /\ epochInterval = 0
  /\ userMaximum = [side \in Sides |-> 0]
  /\ totalMaximum = [side \in Sides |-> 0]
  /\ epochUserOperator = [side \in Sides |-> [user \in Users |-> NoOperator]]
  /\ totalEpochOperator = [side \in Sides |-> NoOperator]
  /\ accepted = [side \in Sides |-> [user \in Users |-> NoOperator]]

Tick ==
  /\ blockTimestamp < MaxTime
  /\ blockTimestamp' = blockTimestamp + 1
  /\ UNCHANGED <<schedule, maximums, operators, accepted>>

\* setMaximumDepositAmountInEpoch, setMaximumRedemptionAmountInEpoch
SetMaximumAmountInEpoch(side, amount) ==
  /\ userMaximum' = [userMaximum EXCEPT ![side] = amount]
  /\ UNCHANGED <<blockTimestamp, schedule, totalMaximum, operators, accepted>>

\* setTotalMaximumDepositAmountInEpoch, setTotalMaximumRedemptionAmountInEpoch
SetTotalMaximumAmountInEpoch(side, amount) ==
  /\ totalMaximum' = [totalMaximum EXCEPT ![side] = amount]
  /\ UNCHANGED <<blockTimestamp, schedule, userMaximum, operators, accepted>>

\* Mutant: a start in the future is accepted.
SetEpochStartTimeUnchecked(startTime) ==
  /\ epochStartTimestamp' = startTime
  /\ UNCHANGED <<blockTimestamp, epochInterval, maximums, operators, accepted>>


SetEpochStartTime(startTime) ==
  /\ startTime < blockTimestamp
  /\ epochStartTimestamp' = startTime
  /\ UNCHANGED <<blockTimestamp, epochInterval, maximums, operators, accepted>>

SetEpochInterval(interval) ==
  /\ epochInterval' = interval
  /\ UNCHANGED <<blockTimestamp, epochStartTimestamp, maximums, operators, accepted>>

\* _udpateEpoch: the start of the current epoch, relative to the schedule's.
CurrentEpoch ==
  IF epochInterval # 0 /\ epochStartTimestamp # 0
    THEN ((blockTimestamp - epochStartTimestamp) \div epochInterval) * epochInterval
    ELSE 0

\* Mutant: a record is never reset.
CarriedForever(operator) == operator.amount

\* Mutant: a record of the current epoch is reset too.
CarriedNever(operator) ==
  IF CurrentEpoch >= operator.epochTimestamp THEN 0 ELSE operator.amount

\* The amount a record carries into a request of the current epoch.
Carried(operator) ==
  IF CurrentEpoch > operator.epochTimestamp THEN 0 ELSE operator.amount

TotalLimited(side) == epochInterval # 0 /\ totalMaximum[side] # 0
UserLimited(side) == epochInterval # 0 /\ userMaximum[side] # 0

\* _checkAndUpdateTotalDepositLimit, _checkAndUpdateTotalRedemptionLimit
CheckAndUpdateTotalLimit(side, amount) ==
  LET total == Carried(totalEpochOperator[side]) + amount
  IN  \/ ~TotalLimited(side) /\ UNCHANGED totalEpochOperator
      \/ /\ TotalLimited(side)
         /\ total <= totalMaximum[side]
         /\ totalEpochOperator' = [totalEpochOperator EXCEPT ![side] =
              [epochTimestamp |-> CurrentEpoch, amount |-> total]]

\* Mutant: the record is dated with the time of the request.
CheckAndUpdateLimitNow(side, account, amount) ==
  LET total == Carried(epochUserOperator[side][account]) + amount
  IN  \/ ~UserLimited(side) /\ UNCHANGED epochUserOperator
      \/ /\ UserLimited(side)
         /\ total <= userMaximum[side]
         /\ epochUserOperator' = [epochUserOperator EXCEPT ![side][account] =
              [epochTimestamp |-> blockTimestamp, amount |-> total]]

\* _checkAndUpdateDepositLimit, _checkAndUpdateRedemptionLimit
CheckAndUpdateLimit(side, account, amount) ==
  LET total == Carried(epochUserOperator[side][account]) + amount
  IN  \/ ~UserLimited(side) /\ UNCHANGED epochUserOperator
      \/ /\ UserLimited(side)
         /\ total <= userMaximum[side]
         /\ epochUserOperator' = [epochUserOperator EXCEPT ![side][account] =
              [epochTimestamp |-> CurrentEpoch, amount |-> total]]

\* Where the current epoch starts on the calendar, whatever the schedule was
\* when a record was written.
CalendarEpoch == epochStartTimestamp + CurrentEpoch

RecordAccepted(side, account, amount) ==
  accepted' =
    IF ~UserLimited(side) THEN accepted
    ELSE [accepted EXCEPT ![side][account] =
           [epochTimestamp |-> CalendarEpoch,
            amount |-> amount + (IF @.epochTimestamp = CalendarEpoch
                                   THEN @.amount ELSE 0)]]

\* The four overrides: total limit, then user limit, then the rest of the hub.
Request(side, account, amount) ==
  /\ CheckAndUpdateTotalLimit(side, amount)
  /\ CheckAndUpdateLimit(side, account, amount)
  /\ RecordAccepted(side, account, amount)
  /\ UNCHANGED <<blockTimestamp, schedule, maximums>>

MaximumStep ==
  \E side \in Sides, amount \in MaximumInputs :
    \/ SetMaximumAmountInEpoch(side, amount)
    \/ SetTotalMaximumAmountInEpoch(side, amount)

ScheduleStep ==
  \/ \E startTime \in StartInputs : SetEpochStartTime(startTime)
  \/ \E interval \in IntervalInputs : SetEpochInterval(interval)

RequestStep ==
  \E side \in Sides, account \in Users : \E amount \in Requests[side] :
    Request(side, account, amount)

EpochNext == Tick \/ MaximumStep \/ ScheduleStep \/ RequestStep

EpochSpec == EpochInit /\ [][EpochNext]_epochVars

(***************************************************************************)
(* The same component when the manager moves the schedule as often as it   *)
(* likes, but only while no limited request is on record.                  *)
(***************************************************************************)
NoRequestRecorded ==
  \A side \in Sides :
    /\ totalEpochOperator[side] = NoOperator
    /\ \A user \in Users : epochUserOperator[side][user] = NoOperator

ScheduleSettled == NoRequestRecorded \/ UNCHANGED schedule
SettledSpec == EpochInit /\ [][EpochNext /\ ScheduleSettled]_epochVars

-----------------------------------------------------------------------------
(* Properties. *)

(* The schedule always starts in the past: `block.timestamp -              *)
(* epochStartTimestamp` cannot underflow, which would revert every limited *)
(* request of every user, and time passing never undoes it.                *)
StartInPast == epochStartTimestamp < blockTimestamp

(* The lazy records implement the eager tallies of EpochTally: a record    *)
(* stands for its amount in the epoch it was written in and for 0 in every *)
(* later one.                                                              *)
Tallied(operator) == IF operator.epochTimestamp = CurrentEpoch THEN operator.amount ELSE 0

Tally == INSTANCE EpochTally WITH
  Requests <- UNION {Requests[side] : side \in Sides},
  begun <- ~NoRequestRecorded,
  epoch <- CurrentEpoch,
  userTally <- [side \in Sides |-> [user \in Users |->
                  Tallied(epochUserOperator[side][user])]],
  totalTally <- [side \in Sides |-> Tallied(totalEpochOperator[side])]

(* If the schedule only moves before the first limited request, the limits *)
(* behave as EpochTally says.                                              *)
LimitsImplementTally == Tally!TallySpec

(* "The maximum deposit amount for each user in one epoch" (and the same   *)
(* for redemptions): what is accepted from a user in one calendar epoch    *)
(* while the limit is on stays within the maximum in force at the request. *)
WithinEpochMaximum ==
  [][\A side \in Sides, user \in Users :
       accepted'[side][user] # accepted[side][user]
         => accepted'[side][user].amount <= userMaximum[side]]_epochVars

(* The other half of the promise: a calendar epoch in which a user has     *)
(* requested nothing yet gives the user the whole allowance, so the record *)
(* a first request leaves holds that request alone.                        *)
FreshEpochFreshAllowance ==
  [][\A side \in Sides, user \in Users :
       /\ epochUserOperator'[side][user] # epochUserOperator[side][user]
       /\ accepted[side][user].epochTimestamp # CalendarEpoch
       => epochUserOperator'[side][user].amount = accepted'[side][user].amount]_epochVars

(* No record is dated after the current epoch: the comparison the code     *)
(* resets by never finds a record from the future.                         *)
NoRecordFromTheFuture ==
  \A side \in Sides :
    /\ totalEpochOperator[side].epochTimestamp <= CurrentEpoch
    /\ \A user \in Users :
         epochUserOperator[side][user].epochTimestamp <= CurrentEpoch

=============================================================================
