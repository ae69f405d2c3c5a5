--------------------------- MODULE DailyRiskGuard ---------------------------
(***************************************************************************)
(* DailyRiskGuard: it polls the deals of the day at MT5 every Interval and *)
(* blocks trading while a limit is reached; a second task lifts the block  *)
(* one second after midnight UTC.  Between two polls positions are closed  *)
(* that the guard does not know of, a poll may get no answer, and a        *)
(* restart forgets the block.                                              *)
(*                                                                         *)
(* Time is counted in slots; a poll takes place between two slots, and so  *)
(* does the reset, which is later than midnight: deals may be executed and *)
(* polled before it.  Deals of one slot have the same time for MT5.        *)
(* Variants with a bug precede some definitions.                           *)
(***************************************************************************)
EXTENDS Integers, Sequences, FiniteSets

CONSTANTS
    MaxTrades,      \* _max_daily_trades, 0: disabled
    MaxLoss,        \* _max_daily_loss, 0: disabled
    MaxStreak,      \* _max_consecutive_losses, 0: disabled
    Interval,       \* _poll_interval in slots
    DayLength,      \* slots of a day
    Losses,         \* what a deal may lose; 0: its profit is not negative
    MaxDeals,       \* bound: deals of a day
    MaxCrashes      \* bound: kills of the process

ASSUME GuardAssumption ==
    /\ MaxTrades \in Nat /\ MaxLoss \in Nat /\ MaxStreak \in Nat
    /\ Interval \in Nat \ {0} /\ DayLength \in Nat \ {0}
    /\ Losses \subseteq Nat
    /\ MaxDeals \in Nat /\ MaxCrashes \in Nat

VARIABLES
    now,        \* slot of the day
    deals,      \* closing deals of the day, in order of execution
    lost,       \* what they have lost together
    counters,   \* _daily_trades, _daily_loss_usd, _consecutive_losses
    block,      \* what _block_reason is about
    wait,       \* slots until the next poll
    resetDue,   \* midnight has passed and the reset has not
    late,       \* history: slots in which the guard should have blocked, since
                \* the limit was reached or a poll got no answer
    crashes

broker == <<deals, lost>>
vars == <<now, broker, counters, block, wait, resetDue, late, crashes>>

Blocks == {"none", "trades", "loss", "streak"}
Counters == [trades : Nat, loss : Nat, streak : Nat]
Zero == [trades |-> 0, loss |-> 0, streak |-> 0]

TypeOK ==
    /\ now \in 0..DayLength - 1
    /\ deals \in Seq([time : 0..DayLength - 1, loss : Losses])
    /\ Len(deals) <= MaxDeals
    /\ lost \in Nat
    /\ counters \in Counters
    /\ block \in Blocks
    /\ wait \in 0..Interval
    /\ resetDue \in BOOLEAN
    /\ late \in Nat
    /\ crashes \in 0..MaxCrashes

-----------------------------------------------------------------------------
(* What a poll computes                                                    *)

\* Deal j comes before deal i when they are sorted by time, latest first; the
\* sort is stable, so deals of one time stay in order of execution.
Sorted(d, j, i) == d[j].time > d[i].time \/ (d[j].time = d[i].time /\ j < i)

\* The losses before the first deal that is none, latest first.
LossStreak(d) ==
    Cardinality({i \in DOMAIN d : \A j \in DOMAIN d :
                     (j = i \/ Sorted(d, j, i)) => d[j].loss > 0})

Count(d, l) == [trades |-> Len(d), loss |-> l, streak |-> LossStreak(d)]

EvaluateExceeded(c) ==
    IF MaxTrades > 0 /\ c.trades > MaxTrades THEN "trades"
    ELSE IF MaxLoss > 0 /\ c.loss > MaxLoss THEN "loss"
    ELSE IF MaxStreak > 0 /\ c.streak > MaxStreak THEN "streak"
    ELSE "none"

\* _evaluate_limits: the first limit that is reached.
Evaluate(c) ==
    IF MaxTrades > 0 /\ c.trades >= MaxTrades THEN "trades"
    ELSE IF MaxLoss > 0 /\ c.loss >= MaxLoss THEN "loss"
    ELSE IF MaxStreak > 0 /\ c.streak >= MaxStreak THEN "streak"
    ELSE "none"

\* is_trading_allowed, which main and handle_reentry ask before they trade.
Allowed == block = "none"

\* What the limits are about, said without the poll: a streak counts when no
\* deal of the same time as one of its losses is a win.
LimitReached ==
    \/ MaxTrades > 0 /\ Len(deals) >= MaxTrades
    \/ MaxLoss > 0 /\ lost >= MaxLoss
    \/ /\ MaxStreak > 0
       /\ \E t \in 0..DayLength - 1 :
              LET recent == {i \in DOMAIN deals : deals[i].time >= t} IN
              /\ \A i \in recent : deals[i].loss > 0
              /\ Cardinality(recent) >= MaxStreak

-----------------------------------------------------------------------------
\* A position is closed: of the bot or not, the poll has no filter.
Close(l) ==
    /\ Len(deals) < MaxDeals
    /\ deals' = Append(deals, [time |-> now, loss |-> l])
    /\ lost' = lost + l
    /\ UNCHANGED <<now, counters, block, wait, resetDue, late, crashes>>

\* _poll_from_mt5 with the deals since midnight.
Answered ==
    /\ counters' = Count(deals, lost)
    /\ block' = Evaluate(counters')
    /\ late' = IF LimitReached /\ block' = "none" THEN late ELSE 0

UnansweredEvaluates ==
    /\ counters' = Zero
    /\ block' = Evaluate(Zero)
    /\ late' = 0

\* None clears the counters, an exception leaves them; neither changes the
\* block.
Unanswered ==
    /\ counters' \in {Zero, counters}
    /\ late' = 0
    /\ UNCHANGED block

Poll ==
    /\ wait = 0
    /\ wait' = Interval
    /\ Answered \/ Unanswered
    /\ UNCHANGED <<now, broker, resetDue, crashes>>

\* A slot passes.  The poll and the reset do not wait for a slot.
Pass ==
    /\ wait > 0 /\ ~resetDue
    /\ wait' = wait - 1
    /\ late' = IF LimitReached /\ Allowed THEN late + 1 ELSE 0

Tick ==
    /\ now < DayLength - 1
    /\ Pass
    /\ now' = now + 1
    /\ UNCHANGED <<broker, counters, block, resetDue, crashes>>

\* MT5 is asked for the deals since midnight, so those of the old day are gone.
Midnight ==
    /\ now = DayLength - 1
    /\ wait > 0 /\ ~resetDue
    /\ wait' = wait - 1
    /\ now' = 0
    /\ deals' = <<>> /\ lost' = 0
    /\ resetDue' = TRUE
    /\ late' = 0
    /\ UNCHANGED <<counters, block, crashes>>

ResetCountersOnly ==
    /\ resetDue
    /\ resetDue' = FALSE
    /\ counters' = Zero
    /\ UNCHANGED <<now, broker, block, wait, late, crashes>>

\* _midnight_reset_loop.
Reset ==
    /\ resetDue
    /\ resetDue' = FALSE
    /\ counters' = Zero
    /\ block' = "none"
    /\ UNCHANGED <<now, broker, wait, late, crashes>>

\* A kill and a restart: start polls at once.  A poll without an answer leaves
\* the new guard without a block.
Restart ==
    /\ crashes < MaxCrashes
    /\ crashes' = crashes + 1
    /\ \/ Answered
       \/ counters' = Zero /\ block' = "none" /\ late' = 0
    /\ wait' = Interval
    /\ resetDue' = FALSE
    /\ UNCHANGED <<now, broker>>

Init ==
    /\ now = 0
    /\ deals = <<>> /\ lost = 0
    /\ counters = Zero
    /\ block = "none"
    /\ wait = Interval
    /\ resetDue = FALSE
    /\ late = 0
    /\ crashes = 0

Next ==
    \/ \E l \in Losses : Close(l)
    \/ Poll
    \/ Tick
    \/ Midnight
    \/ Reset
    \/ Restart

Spec == Init /\ [][Next]_vars

\* Time passes, and the loop serves its timers.
FairSpec == Spec /\ WF_vars(Tick \/ Midnight) /\ WF_vars(Poll) /\ WF_vars(Reset)

-----------------------------------------------------------------------------
(* Properties                                                              *)

\* A limit that is reached stops trading within one interval, counted from the
\* moment it is reached or from the last poll that got no answer, whatever is
\* closed in between, at whatever time of the day, and although the reset lifts
\* a block that a poll has set since midnight (_poll_loop, _evaluate_limits).
BlocksInTime == late <= Interval

\* A block for the number of trades or for the loss lasts until midnight: polls
\* that find no deals or get no answer do not lift it, only a restart does
\* (_poll_from_mt5; the alert says that trading is paused until the next UTC
\* day).  A block for a streak does not: a win lifts it.
LastsUntilMidnight ==
    [][/\ block \in {"trades", "loss"}
       /\ block' = "none"
       => resetDue \/ crashes' > crashes]_vars

\* Every block ends, also when no poll is ever answered (_midnight_reset_loop).
BlockEnds == ~Allowed ~> Allowed
=============================================================================
