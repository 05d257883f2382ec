----------------------------- MODULE EpochTally -----------------------------
(***************************************************************************)
(* What the epoch limits promise, without saying how: time is divided into *)
(* epochs, which may be laid out anew until the first request is tallied;  *)
(* every tally starts each epoch at 0, and a request is accepted only if   *)
(* it keeps the tally of its user and the tally of everyone within the     *)
(* maximum in force.  A maximum of 0 switches that limit off, and what is  *)
(* accepted meanwhile is not tallied.                                      *)
(***************************************************************************)
EXTENDS Naturals

CONSTANTS
  Users,
  Requests  \* the amounts that may be requested

Sides == {"deposit", "redemption"}

VARIABLES
  begun,         \* a request has been tallied
  epoch,         \* offset of the current epoch
  userTally,     \* userTally[side][u]: accepted from u in this epoch
  totalTally,    \* totalTally[side]: accepted from everyone in this epoch
  userMaximum,   \* per side: maximum for each user in one epoch, 0 if unlimited
  totalMaximum   \* per side: maximum for all users in one epoch, 0 if unlimited

tallyVars == <<begun, epoch, userTally, totalTally, userMaximum, totalMaximum>>

NoUserTally == [side \in Sides |-> [user \in Users |-> 0]]
NoTotalTally == [side \in Sides |-> 0]

TallyInit ==
  /\ begun = FALSE
  /\ epoch \in Nat
  /\ userTally = NoUserTally
  /\ totalTally = NoTotalTally
  /\ userMaximum \in [Sides -> Nat]
  /\ totalMaximum \in [Sides -> Nat]

\* Nothing is tallied yet: the current epoch may become any other.
LayOutEpochs ==
  /\ ~begun
  /\ epoch' \in Nat
  /\ UNCHANGED <<begun, userTally, totalTally, userMaximum, totalMaximum>>

\* Time enters a later epoch.
NextEpoch ==
  /\ epoch' \in Nat /\ epoch' > epoch
  /\ userTally' = NoUserTally
  /\ totalTally' = NoTotalTally
  /\ UNCHANGED <<begun, userMaximum, totalMaximum>>

ChangeMaximums ==
  /\ userMaximum' \in [Sides -> Nat]
  /\ totalMaximum' \in [Sides -> Nat]
  /\ UNCHANGED <<begun, epoch, userTally, totalTally>>

AcceptTotal(side, amount) ==
  \/ totalMaximum[side] = 0 /\ UNCHANGED totalTally
  \/ /\ totalMaximum[side] # 0
     /\ totalTally[side] + amount <= totalMaximum[side]
     /\ totalTally' = [totalTally EXCEPT ![side] = @ + amount]

AcceptUser(side, user, amount) ==
  \/ userMaximum[side] = 0 /\ UNCHANGED userTally
  \/ /\ userMaximum[side] # 0
     /\ userTally[side][user] + amount <= userMaximum[side]
     /\ userTally' = [userTally EXCEPT ![side][user] = @ + amount]

\* Whatever changes a tally is a request tallied; a request of 0 may be too.
Accept(side, user, amount) ==
  /\ AcceptTotal(side, amount)
  /\ AcceptUser(side, user, amount)
  /\ begun' \in {begun, TRUE}
  /\ begun' \/ UNCHANGED <<userTally, totalTally>>
  /\ UNCHANGED <<epoch, userMaximum, totalMaximum>>

TallyNext ==
  \/ LayOutEpochs
  \/ NextEpoch
  \/ ChangeMaximums
  \/ \E side \in Sides, user \in Users, amount \in Requests :
       Accept(side, user, amount)

TallySpec == TallyInit /\ [][TallyNext]_tallyVars

=============================================================================
