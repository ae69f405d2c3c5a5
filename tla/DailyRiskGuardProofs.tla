----------------------- MODULE DailyRiskGuardProofs ------------------------
(***************************************************************************)
(* Proofs about DailyRiskGuard, for all limits, intervals and deals.       *)
(*                                                                         *)
(* The argument for BlocksInTime: a limit goes unnoticed only since the    *)
(* last poll (Unnoticed), as the poll finds every limit that is reached    *)
(* (PollFindsLimit).  For LastsUntilMidnight: a block for the number of    *)
(* trades or for the loss is about deals that are still in the history of  *)
(* the day (BlockHasCause), and the history only grows.                    *)
(***************************************************************************)
EXTENDS DailyRiskGuard, TLAPS, FiniteSetTheorems, SequenceTheorems

Unnoticed == late + wait <= Interval

BlockHasCause ==
    ~resetDue =>
        /\ block = "trades" => MaxTrades > 0 /\ Len(deals) >= MaxTrades
        /\ block = "loss" => MaxLoss > 0 /\ lost >= MaxLoss

IInv == TypeOK /\ Unnoticed /\ BlockHasCause

\* The streak a poll counts is a number.
LEMMA StreakIsNat ==
  ASSUME TypeOK
  PROVE  LossStreak(deals) \in Nat
<1>1. IsFiniteSet(DOMAIN deals)
  <2>1. DOMAIN deals = 1..Len(deals) /\ Len(deals) \in Nat
    BY DEF TypeOK
  <2> QED
    BY <2>1, FS_Interval
<1>2. IsFiniteSet({i \in DOMAIN deals : \A j \in DOMAIN deals :
                     (j = i \/ Sorted(deals, j, i)) => deals[j].loss > 0})
  BY <1>1, FS_Subset
<1> QED
  BY <1>2, FS_CardinalityType DEF LossStreak

\* A poll that is answered blocks when a limit is reached.
LEMMA PollFindsLimit ==
  ASSUME TypeOK, LimitReached
  PROVE  Evaluate(Count(deals, lost)) # "none"
<1> DEFINE c == Count(deals, lost)
<1>1. c.trades = Len(deals) /\ c.loss = lost /\ c.streak = LossStreak(deals)
  BY DEF Count
<1>2. Len(deals) \in Nat /\ DOMAIN deals = 1..Len(deals) /\ LossStreak(deals) \in Nat
  BY StreakIsNat DEF TypeOK
<1>3. CASE MaxTrades > 0 /\ Len(deals) >= MaxTrades
  BY <1>1, <1>3 DEF Evaluate
<1>4. CASE MaxLoss > 0 /\ lost >= MaxLoss
  BY <1>1, <1>4 DEF Evaluate
<1>5. ASSUME MaxStreak > 0, NEW t \in 0..DayLength - 1,
             \A i \in {k \in DOMAIN deals : deals[k].time >= t} : deals[i].loss > 0,
             Cardinality({k \in DOMAIN deals : deals[k].time >= t}) >= MaxStreak
      PROVE  Evaluate(c) # "none"
  <2> DEFINE recent == {k \in DOMAIN deals : deals[k].time >= t}
             streak == {i \in DOMAIN deals : \A j \in DOMAIN deals :
                           (j = i \/ Sorted(deals, j, i)) => deals[j].loss > 0}
  <2>1. \A i \in DOMAIN deals : deals[i].time \in Int
    <3>0. deals \in Seq([time : 0..DayLength - 1, loss : Losses])
      BY DEF TypeOK
    <3>1. \A i \in DOMAIN deals : deals[i] \in [time : 0..DayLength - 1, loss : Losses]
      BY <3>0, <1>2, ElementOfSeq
    <3> QED
      BY <3>1, GuardAssumption
  <2>2. recent \subseteq streak
    <3> SUFFICES ASSUME NEW i \in recent, NEW j \in DOMAIN deals,
                        j = i \/ Sorted(deals, j, i)
                 PROVE  deals[j].loss > 0
      OBVIOUS
    <3>1. deals[j].time >= t
      BY <2>1, GuardAssumption DEF Sorted
    <3> QED
      BY <3>1, <1>5
  <2>3. IsFiniteSet(streak)
    <3>1. IsFiniteSet(DOMAIN deals)
      BY <1>2, FS_Interval
    <3> QED
      BY <3>1, FS_Subset
  <2>4. Cardinality(recent) <= Cardinality(streak) /\ Cardinality(recent) \in Nat
    BY <2>2, <2>3, FS_Subset, FS_CardinalityType
  <2>5. c.streak >= MaxStreak
    BY <1>1, <1>2, <1>5, <2>4, GuardAssumption DEF LossStreak
  <2> QED
    BY <1>5, <2>5 DEF Evaluate
<1> QED
  BY <1>3, <1>4, <1>5 DEF LimitReached

\* What an answered poll, of the loop or of a start, leaves behind.
LEMMA AnsweredEffect ==
  ASSUME TypeOK, Answered
  PROVE  /\ counters' \in Counters
         /\ block' \in Blocks
         /\ late' = 0
         /\ block' = "trades" => MaxTrades > 0 /\ Len(deals) >= MaxTrades
         /\ block' = "loss" => MaxLoss > 0 /\ lost >= MaxLoss
         /\ MaxTrades > 0 /\ Len(deals) >= MaxTrades => block' = "trades"
         /\ MaxLoss > 0 /\ lost >= MaxLoss => block' # "none"
<1>1. counters' = Count(deals, lost) /\ block' = Evaluate(Count(deals, lost))
  BY DEF Answered
<1>2. Len(deals) \in Nat /\ LossStreak(deals) \in Nat /\ lost \in Nat
  BY StreakIsNat DEF TypeOK
<1>3. late' = 0
  BY PollFindsLimit, <1>1 DEF Answered
<1> QED
  BY <1>1, <1>2, <1>3 DEF Count, Counters, Blocks, Evaluate

LEMMA InitIInv == Init => IInv
<1> SUFFICES ASSUME Init PROVE IInv
  OBVIOUS
<1>1. now \in 0..DayLength - 1 /\ wait \in 0..Interval /\ crashes \in 0..MaxCrashes
  BY GuardAssumption DEF Init
<1>3. deals \in Seq([time : 0..DayLength - 1, loss : Losses]) /\ Len(deals) <= MaxDeals
  BY GuardAssumption DEF Init
<1>4. counters \in Counters /\ block \in Blocks /\ resetDue \in BOOLEAN
  BY DEF Init, Zero, Counters, Blocks
<1>5. lost \in Nat /\ late \in Nat
  BY DEF Init
<1>2. Unnoticed /\ BlockHasCause
  BY GuardAssumption DEF Init, Unnoticed, BlockHasCause
<1> QED
  BY <1>1, <1>2, <1>3, <1>4, <1>5 DEF IInv, TypeOK

LEMMA NextIInv == IInv /\ [Next]_vars => IInv'
<1> SUFFICES ASSUME IInv, [Next]_vars PROVE IInv'
  OBVIOUS
<1> USE GuardAssumption DEF IInv, Unnoticed, BlockHasCause
<1>0. Zero \in Counters
  BY DEF Zero, Counters
<1>1. ASSUME NEW l \in Losses, Close(l) PROVE IInv'
  BY <1>1 DEF Close, TypeOK
<1>2. CASE Poll
  <2>1. CASE Answered
    BY <1>2, <2>1, AnsweredEffect DEF Poll, TypeOK, broker
  <2>2. CASE Unanswered
    BY <1>2, <2>2, <1>0 DEF Poll, Unanswered, TypeOK, broker
  <2> QED
    BY <1>2, <2>1, <2>2 DEF Poll
<1>3. CASE Tick
  BY <1>3 DEF Tick, Pass, TypeOK, broker
<1>4. CASE Midnight
  BY <1>4 DEF Midnight, TypeOK
<1>5. CASE Reset
  BY <1>5, <1>0 DEF Reset, TypeOK, broker, Blocks
<1>6. CASE Restart
  <2>0. /\ crashes' \in 0..MaxCrashes /\ wait' = Interval /\ resetDue' = FALSE
        /\ now' = now /\ deals' = deals /\ lost' = lost
    BY <1>6 DEF Restart, TypeOK, broker
  <2>. HIDE DEF IInv, Unnoticed, BlockHasCause
  <2>3. /\ now' \in 0..DayLength - 1 /\ lost' \in Nat /\ wait' \in 0..Interval
        /\ deals' \in Seq([time : 0..DayLength - 1, loss : Losses])
        /\ Len(deals') <= MaxDeals
    BY <2>0 DEF IInv, TypeOK
  <2>1. CASE Answered
    <3>0. TypeOK
      BY DEF IInv
    <3>a. counters' \in Counters /\ block' \in Blocks /\ late' = 0
      BY <2>1, <3>0, AnsweredEffect
    <3>1. TypeOK'
      BY <2>0, <2>3, <3>a DEF TypeOK
    <3>2. Unnoticed'
      BY <2>0, <3>a DEF Unnoticed
    <3>3. BlockHasCause'
      BY <2>0, <2>1, <3>0, AnsweredEffect DEF BlockHasCause
    <3> QED
      BY <3>1, <3>2, <3>3 DEF IInv
  <2>2. CASE counters' = Zero /\ block' = "none" /\ late' = 0
    <3>1. TypeOK'
      BY <2>0, <2>2, <2>3, <1>0 DEF TypeOK, Blocks
    <3>2. Unnoticed'
      BY <2>0, <2>2 DEF Unnoticed
    <3>3. BlockHasCause'
      BY <2>0, <2>2 DEF BlockHasCause
    <3> QED
      BY <3>1, <3>2, <3>3 DEF IInv
  <2> QED
    BY <1>6, <2>1, <2>2 DEF Restart
<1>7. CASE UNCHANGED vars
  BY <1>7 DEF vars, broker, TypeOK
<1> QED
  BY <1>1, <1>2, <1>3, <1>4, <1>5, <1>6, <1>7 DEF Next

\* The inductive invariant holds in every reachable state.
THEOREM Invariant == Spec => []IInv
BY InitIInv, NextIInv, PTL DEF Spec

\* Every reachable state is well typed.
THEOREM TypeCorrect == Spec => []TypeOK
BY Invariant, PTL DEF IInv

\* A limit that is reached stops trading within one interval.
THEOREM BlockedInTime == Spec => []BlocksInTime
<1>1. IInv => BlocksInTime
  BY GuardAssumption DEF IInv, Unnoticed, TypeOK, BlocksInTime
<1> QED
  BY <1>1, Invariant, PTL

\* A block for the number of trades or for the loss lasts until midnight.
THEOREM BlockLasts == Spec => LastsUntilMidnight
<1>1. ASSUME IInv, [Next]_vars, block \in {"trades", "loss"}, block' = "none"
      PROVE  resetDue \/ crashes' > crashes
  <2> USE <1>1, GuardAssumption
  <2>1. CASE Poll
    BY <2>1, AnsweredEffect DEF Poll, Unanswered, IInv, BlockHasCause
  <2>2. CASE Reset
    BY <2>2 DEF Reset
  <2>3. CASE Restart
    BY <2>3 DEF Restart, IInv, TypeOK
  <2>4. CASE (\E l \in Losses : Close(l)) \/ Tick \/ Midnight \/ UNCHANGED vars
    BY <2>4 DEF Close, Tick, Midnight, vars
  <2> QED
    BY <2>1, <2>2, <2>3, <2>4 DEF Next
<1>2. IInv /\ [Next]_vars
      => [/\ block \in {"trades", "loss"}
          /\ block' = "none"
          => resetDue \/ crashes' > crashes]_vars
  BY <1>1
<1> QED
  BY <1>2, Invariant, PTL DEF Spec, LastsUntilMidnight
=============================================================================
