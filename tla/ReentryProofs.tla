---------------------------- MODULE ReentryProofs ----------------------------
(***************************************************************************)
(* Proofs about Reentry, for every set of signals, levels and prices, every *)
(* choice of failing commits and any number of crashes.                    *)
(*                                                                         *)
(* The argument: a pair that a poll still has to visit is pending in the   *)
(* memory of an open signal (TodoPending), and so is the pair of a running *)
(* re-entry (VisitedPending); the table is never ahead of the memory, so   *)
(* the pair is pending in the table too.  If no commit fails, the table is *)
(* that of the abstract SignalLifecycle, and memory tells the same as the  *)
(* table except for what the handler in progress has still to save.        *)
(***************************************************************************)
EXTENDS Reentry, TLAPS

\* A handler that works on a signal has one, and only the poll has a place to
\* go back to.
SigKnown ==
    /\ at \in {"entry", "levels", "reentry", "savePlans", "saveStatus"}
           => sig \in Signals
    /\ at \in {"idle", "entry", "down"} => back = "idle"

\* A poll that has something to visit has a tick.
TickKnown == at # "entry" /\ todo # {} => tick \in Int

\* The snapshot of the poll stays valid while the poll goes through it.
TodoPending ==
    /\ at \in {"idle", "expire", "down"} => todo = {}
    /\ at # "entry" =>
          \A s \in Signals, l \in Levels :
              <<s, l>> \in todo => mem[s] \in Open /\ plans[s][l] = "pending"

\* The level of a running re-entry is pending, and not visited again.
VisitedPending ==
    at = "reentry" =>
        /\ lvl \in Levels
        /\ mem[sig] \in Open /\ plans[sig][lvl] = "pending"
        /\ <<sig, lvl>> \notin todo

\* expire_old only closes signals that are open.
DueOpen == at = "expire" => \A s \in due : mem[s] \in Open

\* A level that may still be entered has no more entries than there were
\* crashes; while the process is down, no level has.
EntriesBounded ==
    \A s \in Signals, l \in Levels :
        (mem[s] # "none" /\ plans[s][l] = "pending") \/ at = "down"
            => entries[s][l] <= crashes

\* The commit of a registration does not fail.
RegisterSafe == "register" \notin DbFaultAt

IInv ==
    /\ TypeOK
    /\ TickKnown
    /\ SigKnown
    /\ TodoPending
    /\ VisitedPending
    /\ DueOpen
    /\ RegisterSafe => TableNeverAhead /\ OpenIsDurable
    /\ EntriesBounded
    /\ OneEntryPerLevel

-----------------------------------------------------------------------------
(* Updates of functions, inside their domain or not                        *)

\* An update of a function with a value of its range keeps its type.
LEMMA UpdateType ==
    ASSUME NEW S, NEW T, NEW f \in [S -> T], NEW x, NEW v \in T
    PROVE  [f EXCEPT ![x] = v] \in [S -> T]
OBVIOUS

\* The same one level deeper.
LEMMA UpdateType2 ==
    ASSUME NEW S, NEW R, NEW T, NEW f \in [S -> [R -> T]],
           NEW x, NEW y, NEW v \in T
    PROVE  [f EXCEPT ![x][y] = v] \in [S -> [R -> T]]
<1>1. CASE x \in S
  <2>1. [f[x] EXCEPT ![y] = v] \in [R -> T]
    BY <1>1
  <2> QED
    BY <1>1, <2>1
<1>2. CASE x \notin S
  <2>1. [f EXCEPT ![x][y] = v] = f
    BY <1>2
  <2> QED
    BY <2>1
<1> QED
  BY <1>1, <1>2

-----------------------------------------------------------------------------
(* Type correctness                                                        *)

\* What a reply and a poll do to the plans of a signal stays a plan status.
LEMMA CancelPendingType ==
    ASSUME NEW ps \in [Levels -> PlanStatus]
    PROVE  CancelPending(ps) \in [Levels -> PlanStatus]
BY DEF CancelPending, PlanStatus

\* _update_lifecycle yields a lifecycle status.
LEMMA RecomputedType ==
    ASSUME NEW status \in Lifecycle \cup {"none"}, NEW ps
    PROVE  Recomputed(status, ps) \in Lifecycle \cup {"none"}
BY DEF Recomputed, Lifecycle, Open, Closed

LEMMA InitType == Init => TypeOK /\ TickKnown
BY ReentryAssumption
   DEF Init, TypeOK, TickKnown, NoPlans, Points, PlanStatus, Lifecycle, Open, Closed

LEMMA NextType == TypeOK /\ TickKnown /\ [Next]_vars => TypeOK' /\ TickKnown'
<1> SUFFICES ASSUME TypeOK, TickKnown, [Next]_vars PROVE TypeOK' /\ TickKnown'
  OBVIOUS
<1> USE ReentryAssumption DEF TypeOK, TickKnown, memory, table, control, world, Points,
        Go, Finished, NoPlans
<1>1. ASSUME NEW s \in Signals, Arrive(s) PROVE TypeOK' /\ TickKnown'
  BY <1>1 DEF Arrive, PlanStatus
<1>2. ASSUME NEW l \in Levels, ExecuteImmediate(l) PROVE TypeOK' /\ TickKnown'
  <2>1. draft' \in [Levels -> PlanStatus]
    <3>1. draft' = draft \/ draft' = [draft EXCEPT ![l] = "executed"]
      BY <1>2 DEF ExecuteImmediate
    <3>2. draft \in [Levels -> PlanStatus] /\ "executed" \in PlanStatus
      BY DEF PlanStatus
    <3> QED
      BY ONLY <3>1, <3>2
  <2>2. UNCHANGED <<memory, table, at, back, sig, lvl, tick, prev, due, world>>
    BY <1>2 DEF ExecuteImmediate
  <2>3. todo' \subseteq todo /\ at = "entry"
    BY <1>2 DEF ExecuteImmediate
  <2> QED
    BY <2>1, <2>2, <2>3
<1>3. CASE Register
  <2>1. "pending" \in Lifecycle \cup {"none"}
    BY DEF Lifecycle, Open
  <2>2. /\ mem' \in [Signals -> Lifecycle \cup {"none"}]
        /\ row' \in [Signals -> Lifecycle \cup {"none"}]
    <3>1. /\ mem' = mem \/ mem' = [mem EXCEPT ![sig] = "pending"]
          /\ row' = row \/ row' = [row EXCEPT ![sig] = "pending"]
      BY <1>3 DEF Register
    <3>2. /\ mem \in [Signals -> Lifecycle \cup {"none"}]
          /\ row \in [Signals -> Lifecycle \cup {"none"}]
      OBVIOUS
    <3> QED
      BY ONLY <2>1, <3>1, <3>2
  <2>3. /\ plans' \in [Signals -> [Levels -> PlanStatus]]
        /\ rowPlans' \in [Signals -> [Levels -> PlanStatus]]
    BY <1>3, UpdateType DEF Register
  <2>4. /\ last' \in [Signals -> Int \cup {None}]
        /\ ttl' \in [Signals -> Nat]
        /\ rowTtl' \in [Signals -> Nat]
    BY <1>3, UpdateType DEF Register
  <2>5. entries' \in [Signals -> [Levels -> Nat]]
    <3> DEFINE first == [l \in Levels |-> IF draft[l] = "executed" THEN 1 ELSE 0]
    <3>1. first \in [Levels -> Nat]
      OBVIOUS
    <3>2. entries' = entries \/ entries' = [entries EXCEPT ![sig] = first]
      BY <1>3 DEF Register
    <3> QED
      BY <3>1, <3>2, UpdateType
  <2> QED
    BY <1>3, <2>2, <2>3, <2>4, <2>5 DEF Register, PlanStatus
<1>4. CASE PollStart
  BY <1>4 DEF PollStart, Pending
<1>5. ASSUME NEW s \in Signals, ScanSignal(s) PROVE TypeOK' /\ TickKnown'
  <2>1. CASE SlBreached(s, RefPrice(s, tick))
    <3>1. plans' \in [Signals -> [Levels -> PlanStatus]]
      <4>1. CancelPending(plans[s]) \in [Levels -> PlanStatus]
        BY CancelPendingType
      <4>2. plans' = [plans EXCEPT ![s] = CancelPending(plans[s])]
        BY <1>5, <2>1 DEF ScanSignal
      <4> QED
        BY <4>1, <4>2, UpdateType
    <3>2. mem' \in [Signals -> Lifecycle \cup {"none"}]
      <4>1. Recomputed(mem[s], plans'[s]) \in Lifecycle \cup {"none"}
        BY RecomputedType
      <4>2. mem' = [mem EXCEPT ![s] = Recomputed(mem[s], plans'[s])]
        BY <1>5, <2>1 DEF ScanSignal
      <4>3. mem \in [Signals -> Lifecycle \cup {"none"}]
        OBVIOUS
      <4> QED
        BY ONLY <4>1, <4>2, <4>3
    <3> QED
      BY <1>5, <2>1, <3>1, <3>2 DEF ScanSignal
  <2>2. CASE ~SlBreached(s, RefPrice(s, tick))
    BY <1>5, <2>2 DEF ScanSignal
  <2> QED
    BY <2>1, <2>2
<1>6. ASSUME NEW l \in Levels, CheckLevel(l) PROVE TypeOK' /\ TickKnown'
  <2>1. at = "levels" /\ tick \in Int
    BY <1>6 DEF CheckLevel, Hit
  <2>2. RefPrice(sig, tick) \in Int
    BY <2>1 DEF RefPrice
  <2>3. last' \in [Signals -> Int \cup {None}]
    BY <1>6, <2>2 DEF CheckLevel, Hit
  <2>4. cool' \in [Signals -> [Levels -> Nat]]
    <3>1. cool' = cool \/ cool' = [cool EXCEPT ![sig][l] = Debounce]
      BY <1>6 DEF CheckLevel, Hit
    <3>2. [cool EXCEPT ![sig][l] = Debounce] \in [Signals -> [Levels -> Nat]]
      <4>1. cool \in [Signals -> [Levels -> Nat]] /\ Debounce \in Nat
        OBVIOUS
      <4> HIDE DEF TypeOK
      <4> QED
        BY ONLY <4>1, UpdateType2
    <3> QED
      BY <3>1, <3>2
  <2> QED
    BY <1>6, <2>1, <2>3, <2>4 DEF CheckLevel, Hit
<1>7. CASE SignalScanned
  BY <1>7 DEF SignalScanned
<1>8. CASE PollExpire
  BY <1>8 DEF PollExpire, Overdue
<1>9. ASSUME NEW s \in Signals, ExpireSignal(s) PROVE TypeOK' /\ TickKnown'
  BY <1>9, CancelPendingType DEF ExpireSignal, Lifecycle, Closed
<1>10. CASE PollEnd
  BY <1>10 DEF PollEnd, Gone, PlanStatus
<1>11. CASE ReentryRejected
  BY <1>11, RecomputedType DEF ReentryRejected, SettleLevel, PlanStatus
<1>12. CASE ReentryNoTick
  BY <1>12 DEF ReentryNoTick
<1>13. CASE ReentryAccepted
  <2>1. plans' \in [Signals -> [Levels -> PlanStatus]]
    BY <1>13 DEF ReentryAccepted, SettleLevel, PlanStatus
  <2>2. mem' \in [Signals -> Lifecycle \cup {"none"}]
    BY <1>13, RecomputedType DEF ReentryAccepted, SettleLevel
  <2>3. entries' \in [Signals -> [Levels -> Nat]]
    <3>1. entries' = [entries EXCEPT ![sig][lvl] = entries[sig][lvl] + 1]
      BY <1>13 DEF ReentryAccepted
    <3>2. CASE sig \in Signals /\ lvl \in Levels
      <4>1. entries[sig][lvl] + 1 \in Nat
        BY <3>2
      <4> QED
        BY <3>1, <4>1, UpdateType2
    <3>3. CASE ~(sig \in Signals /\ lvl \in Levels)
      <4>1. entries' = entries
        BY <3>1, <3>3
      <4> QED
        BY <4>1
    <3> QED
      BY <3>2, <3>3
  <2> QED
    BY <1>13, <2>1, <2>2, <2>3 DEF ReentryAccepted, SettleLevel
<1>14. ASSUME NEW s \in Signals, CancelAllPending(s) PROVE TypeOK' /\ TickKnown'
  BY <1>14, CancelPendingType, RecomputedType DEF CancelAllPending
<1>15. CASE SavePlans
  BY <1>15 DEF SavePlans
<1>16. CASE SaveStatus
  BY <1>16 DEF SaveStatus, Return, PlanStatus
<1>17. CASE DbFault
  BY <1>17 DEF DbFault, Return, PlanStatus
<1>18. ASSUME NEW s \in Signals, DbFaultInExpire(s) PROVE TypeOK' /\ TickKnown'
  BY <1>18, CancelPendingType DEF DbFaultInExpire, Lifecycle, Closed, PlanStatus
<1>19. CASE Crash
  BY <1>19 DEF Crash, PlanStatus
<1>20. CASE Restart
  BY <1>20 DEF Restart, RestoredStatus, RestoredPlans, PlanStatus
<1>21. CASE PriceMove
  BY <1>21 DEF PriceMove
<1>22. CASE Tick
  <2>1. \A n \in Nat : Less(n) \in Nat
    BY DEF Less
  <2>2. \A s \in Signals : cool'[s] \in [Levels -> Nat]
    BY <1>22, <2>1 DEF Tick
  <2>3. /\ ttl' \in [Signals -> Nat] /\ rowTtl' \in [Signals -> Nat]
        /\ cool' \in [Signals -> [Levels -> Nat]]
    BY <1>22, <2>1, <2>2 DEF Tick
  <2> QED
    BY <1>22, <2>3 DEF Tick
<1>23. CASE UNCHANGED vars
  BY <1>23 DEF vars
<1> QED
  BY <1>1, <1>2, <1>3, <1>4, <1>5, <1>6, <1>7, <1>8, <1>9, <1>10, <1>11, <1>12,
     <1>13, <1>14, <1>15, <1>16, <1>17, <1>18, <1>19, <1>20, <1>21, <1>22, <1>23
     DEF Next, Handler, Reenter

-----------------------------------------------------------------------------
\* Type correctness of the registry, the table and the running handler.
THEOREM TypeCorrect == Spec => [](TypeOK /\ TickKnown)
BY InitType, NextType, PTL DEF Spec

\* A signal with a pending plan stays open when another plan is settled.
LEMMA RecomputedOpen ==
    ASSUME NEW status \in Open, NEW ps, NEW l \in Levels, ps[l] = "pending"
    PROVE  Recomputed(status, ps) \in Open
BY DEF Recomputed, Open

\* Cancelling what is pending leaves nothing pending ...
LEMMA CancelledNotPending ==
    ASSUME NEW ps, NEW l \in Levels
    PROVE  CancelPending(ps)[l] # "pending"
BY DEF CancelPending

\* ... keeps what is settled ...
LEMMA CancelKeepsSettled ==
    ASSUME NEW ps, NEW l \in Levels, ps[l] # "pending"
    PROVE  CancelPending(ps)[l] = ps[l]
BY DEF CancelPending

\* ... and completes the signal.
LEMMA CancelCompletes ==
    ASSUME NEW status, NEW ps
    PROVE  Recomputed(status, CancelPending(ps)) = "completed"
BY CancelledNotPending DEF Recomputed

\* A signal that is completed, expired or not tracked is not open.
LEMMA NotOpen ==
    /\ "completed" \notin Open /\ "expired" \notin Open /\ "none" \notin Open
    /\ "pending" \in Open /\ "partial" \in Open /\ Open \cap Closed = {}
BY DEF Open, Closed

\* Every handler knows its signal, until it ends.
LEMMA SigKnownStep ==
    ASSUME IInv, [Next]_vars
    PROVE  SigKnown'
<1> USE DEF memory, table, control, world, Go, Finished, IInv, TypeOK, SigKnown
<1>1. ASSUME NEW s \in Signals, Arrive(s) PROVE SigKnown'
  BY <1>1 DEF Arrive
<1>2. ASSUME NEW l \in Levels, ExecuteImmediate(l) PROVE SigKnown'
  BY <1>2 DEF ExecuteImmediate
<1>3. CASE Register
  BY <1>3 DEF Register
<1>4. CASE PollStart
  BY <1>4 DEF PollStart
<1>5. ASSUME NEW s \in Signals, ScanSignal(s) PROVE SigKnown'
  BY <1>5 DEF ScanSignal
<1>6. ASSUME NEW l \in Levels, CheckLevel(l) PROVE SigKnown'
  BY <1>6 DEF CheckLevel, Hit
<1>7. CASE SignalScanned
  BY <1>7 DEF SignalScanned
<1>8. CASE PollExpire
  BY <1>8 DEF PollExpire, Overdue
<1>9. ASSUME NEW s \in Signals, ExpireSignal(s) PROVE SigKnown'
  BY <1>9 DEF ExpireSignal
<1>10. CASE PollEnd
  BY <1>10 DEF PollEnd, Gone
<1>11. CASE ReentryRejected
  BY <1>11 DEF ReentryRejected, SettleLevel
<1>12. CASE ReentryNoTick
  BY <1>12 DEF ReentryNoTick
<1>13. CASE ReentryAccepted
  BY <1>13 DEF ReentryAccepted, SettleLevel
<1>14. ASSUME NEW s \in Signals, CancelAllPending(s) PROVE SigKnown'
  BY <1>14 DEF CancelAllPending
<1>15. CASE SavePlans
  BY <1>15 DEF SavePlans
<1>16. CASE SaveStatus
  BY <1>16 DEF SaveStatus, Return
<1>17. CASE DbFault
  BY <1>17 DEF DbFault, Return
<1>18. ASSUME NEW s \in Signals, DbFaultInExpire(s) PROVE SigKnown'
  BY <1>18 DEF DbFaultInExpire
<1>19. CASE Crash
  BY <1>19 DEF Crash
<1>20. CASE Restart
  BY <1>20 DEF Restart, RestoredStatus, RestoredPlans
<1>21. CASE PriceMove
  BY <1>21 DEF PriceMove
<1>22. CASE Tick
  BY <1>22 DEF Tick
<1>23. CASE UNCHANGED vars
  BY <1>23 DEF vars
<1> QED
  BY <1>1, <1>2, <1>3, <1>4, <1>5, <1>6, <1>7, <1>8, <1>9, <1>10, <1>11,
     <1>12, <1>13, <1>14, <1>15, <1>16, <1>17, <1>18, <1>19, <1>20, <1>21,
     <1>22, <1>23
     DEF Next, Handler, Reenter

\* expire_old finds the signals it has to close as it left them.
LEMMA DueOpenStep ==
    ASSUME IInv, [Next]_vars
    PROVE  DueOpen'
<1> USE DEF memory, table, control, world, Go, Finished, IInv, TypeOK, DueOpen
<1>1. ASSUME NEW s \in Signals, Arrive(s) PROVE DueOpen'
  BY <1>1 DEF Arrive
<1>2. ASSUME NEW l \in Levels, ExecuteImmediate(l) PROVE DueOpen'
  BY <1>2 DEF ExecuteImmediate
<1>3. CASE Register
  BY <1>3 DEF Register
<1>4. CASE PollStart
  BY <1>4 DEF PollStart
<1>5. ASSUME NEW s \in Signals, ScanSignal(s) PROVE DueOpen'
  BY <1>5 DEF ScanSignal
<1>6. ASSUME NEW l \in Levels, CheckLevel(l) PROVE DueOpen'
  BY <1>6 DEF CheckLevel, Hit
<1>7. CASE SignalScanned
  BY <1>7 DEF SignalScanned
<1>8. CASE PollExpire
  BY <1>8 DEF PollExpire, Overdue
<1>9. ASSUME NEW s \in Signals, ExpireSignal(s) PROVE DueOpen'
  BY <1>9 DEF ExpireSignal
<1>10. CASE PollEnd
  BY <1>10 DEF PollEnd, Gone
<1>11. CASE ReentryRejected
  BY <1>11 DEF ReentryRejected, SettleLevel
<1>12. CASE ReentryNoTick
  BY <1>12 DEF ReentryNoTick
<1>13. CASE ReentryAccepted
  BY <1>13 DEF ReentryAccepted, SettleLevel
<1>14. ASSUME NEW s \in Signals, CancelAllPending(s) PROVE DueOpen'
  BY <1>14 DEF CancelAllPending
<1>15. CASE SavePlans
  BY <1>15 DEF SavePlans
<1>16. CASE SaveStatus
  BY <1>16 DEF SaveStatus, Return
<1>17. CASE DbFault
  BY <1>17 DEF DbFault, Return
<1>18. ASSUME NEW s \in Signals, DbFaultInExpire(s) PROVE DueOpen'
  BY <1>18 DEF DbFaultInExpire
<1>19. CASE Crash
  BY <1>19 DEF Crash
<1>20. CASE Restart
  BY <1>20 DEF Restart, RestoredStatus, RestoredPlans
<1>21. CASE PriceMove
  BY <1>21 DEF PriceMove
<1>22. CASE Tick
  BY <1>22 DEF Tick
<1>23. CASE UNCHANGED vars
  BY <1>23 DEF vars
<1> QED
  BY <1>1, <1>2, <1>3, <1>4, <1>5, <1>6, <1>7, <1>8, <1>9, <1>10, <1>11,
     <1>12, <1>13, <1>14, <1>15, <1>16, <1>17, <1>18, <1>19, <1>20, <1>21,
     <1>22, <1>23
     DEF Next, Handler, Reenter

\* An open signal keeps an open row.
LEMMA OpenIsDurableStep ==
    ASSUME RegisterSafe, IInv, [Next]_vars
    PROVE  OpenIsDurable'
<1> USE DEF memory, table, control, world, Go, Finished, IInv, TypeOK, OpenIsDurable
<1>1. ASSUME NEW s \in Signals, Arrive(s) PROVE OpenIsDurable'
  BY <1>1 DEF Arrive
<1>2. ASSUME NEW l \in Levels, ExecuteImmediate(l) PROVE OpenIsDurable'
  BY <1>2 DEF ExecuteImmediate
<1>3. CASE Register
  <2>1. ~RegisterMayFail
    BY DEF RegisterMayFail, RegisterSafe
  <2>2. \/ UNCHANGED <<mem, row>>
        \/ /\ mem' = [mem EXCEPT ![sig] = "pending"]
           /\ row' = [row EXCEPT ![sig] = "pending"]
    BY <1>3, <2>1 DEF Register
  <2>3. mem \in [Signals -> Lifecycle \cup {"none"}] /\ row \in [Signals -> Lifecycle \cup {"none"}]
    OBVIOUS
  <2>4. OpenIsDurable /\ "pending" \in Open
    BY DEF Open
  <2> QED
    BY ONLY <2>2, <2>3, <2>4 DEF OpenIsDurable
<1>4. CASE PollStart
  BY <1>4 DEF PollStart
<1>5. ASSUME NEW s \in Signals, ScanSignal(s) PROVE OpenIsDurable'
  <2>1. mem' = mem \/ mem' = [mem EXCEPT ![s] = "completed"]
    BY <1>5, CancelCompletes DEF ScanSignal
  <2> QED
    BY <1>5, <2>1, NotOpen DEF ScanSignal
<1>6. ASSUME NEW l \in Levels, CheckLevel(l) PROVE OpenIsDurable'
  BY <1>6 DEF CheckLevel, Hit
<1>7. CASE SignalScanned
  BY <1>7 DEF SignalScanned
<1>8. CASE PollExpire
  BY <1>8 DEF PollExpire, Overdue
<1>9. ASSUME NEW s \in Signals, ExpireSignal(s) PROVE OpenIsDurable'
  BY <1>9, NotOpen DEF ExpireSignal
<1>10. CASE PollEnd
  BY <1>10, NotOpen DEF PollEnd, Gone
<1>11. CASE ReentryRejected
  <2>1. mem[sig] \in Open
    BY <1>11 DEF ReentryRejected, VisitedPending
  <2> QED
    BY <1>11, <2>1 DEF ReentryRejected, SettleLevel
<1>12. CASE ReentryNoTick
  BY <1>12 DEF ReentryNoTick
<1>13. CASE ReentryAccepted
  <2>1. mem[sig] \in Open
    BY <1>13 DEF ReentryAccepted, VisitedPending
  <2> QED
    BY <1>13, <2>1 DEF ReentryAccepted, SettleLevel
<1>14. ASSUME NEW s \in Signals, CancelAllPending(s) PROVE OpenIsDurable'
  <2>1. mem' = [mem EXCEPT ![s] = "completed"]
    BY <1>14, CancelCompletes DEF CancelAllPending
  <2> QED
    BY <1>14, <2>1, NotOpen DEF CancelAllPending
<1>15. CASE SavePlans
  BY <1>15 DEF SavePlans
<1>16. CASE SaveStatus
  BY <1>16, NotOpen DEF SaveStatus, Return
<1>17. CASE DbFault
  BY <1>17 DEF DbFault, Return
<1>18. ASSUME NEW s \in Signals, DbFaultInExpire(s) PROVE OpenIsDurable'
  BY <1>18, NotOpen DEF DbFaultInExpire
<1>19. CASE Crash
  BY <1>19, NotOpen DEF Crash
<1>20. CASE Restart
  BY <1>20, NotOpen DEF Restart, RestoredStatus, RestoredPlans
<1>21. CASE PriceMove
  BY <1>21 DEF PriceMove
<1>22. CASE Tick
  BY <1>22 DEF Tick
<1>23. CASE UNCHANGED vars
  BY <1>23 DEF vars
<1> QED
  BY <1>1, <1>2, <1>3, <1>4, <1>5, <1>6, <1>7, <1>8, <1>9, <1>10, <1>11,
     <1>12, <1>13, <1>14, <1>15, <1>16, <1>17, <1>18, <1>19, <1>20, <1>21,
     <1>22, <1>23
     DEF Next, Handler, Reenter

\* The snapshot of a poll is only ever settled level by level, each level after
\* it has left the snapshot.
LEMMA TodoPendingStep ==
    ASSUME IInv, [Next]_vars
    PROVE  TodoPending'
<1> USE DEF memory, table, control, world, Go, Finished, IInv, TypeOK, TodoPending
<1>1. ASSUME NEW s \in Signals, Arrive(s) PROVE TodoPending'
  BY <1>1 DEF Arrive
<1>2. ASSUME NEW l \in Levels, ExecuteImmediate(l) PROVE TodoPending'
  BY <1>2 DEF ExecuteImmediate
<1>3. CASE Register
  BY <1>3 DEF Register
<1>4. CASE PollStart
  BY <1>4 DEF PollStart, Pending
<1>5. ASSUME NEW s \in Signals, ScanSignal(s) PROVE TodoPending'
  <2>1. ASSUME NEW r \in Signals, NEW l \in Levels, <<r, l>> \in todo'
        PROVE  mem'[r] \in Open /\ plans'[r][l] = "pending"
    BY <1>5, <2>1 DEF ScanSignal
  <2> QED
    BY <1>5, <2>1 DEF ScanSignal
<1>6. ASSUME NEW l \in Levels, CheckLevel(l) PROVE TodoPending'
  BY <1>6 DEF CheckLevel, Hit
<1>7. CASE SignalScanned
  BY <1>7 DEF SignalScanned
<1>8. CASE PollExpire
  BY <1>8 DEF PollExpire, Overdue
<1>9. ASSUME NEW s \in Signals, ExpireSignal(s) PROVE TodoPending'
  BY <1>9 DEF ExpireSignal
<1>10. CASE PollEnd
  BY <1>10 DEF PollEnd, Gone
<1>11. CASE ReentryRejected
  <2>1. mem[sig] \in Open /\ plans[sig][lvl] = "pending" /\ <<sig, lvl>> \notin todo
    BY <1>11 DEF ReentryRejected, VisitedPending
  <2>2. ASSUME NEW s \in Signals, NEW l \in Levels, <<s, l>> \in todo
        PROVE  mem'[s] \in Open /\ plans'[s][l] = "pending"
    <3>1. mem[s] \in Open /\ plans[s][l] = "pending" /\ plans'[s][l] = "pending"
      BY <1>11, <2>1, <2>2 DEF ReentryRejected, SettleLevel
    <3>2. mem'[s] = mem[s] \/ mem'[s] = Recomputed(mem[s], plans'[s])
      BY <1>11 DEF ReentryRejected, SettleLevel
    <3>3. l \in Levels
      OBVIOUS
    <3>4. Recomputed(mem[s], plans'[s]) \in Open
      BY ONLY <3>1, <3>3, RecomputedOpen
    <3> QED
      BY ONLY <3>1, <3>2, <3>4
  <2> QED
    BY <1>11, <2>2 DEF ReentryRejected, SettleLevel
<1>12. CASE ReentryNoTick
  BY <1>12 DEF ReentryNoTick
<1>13. CASE ReentryAccepted
  <2>1. mem[sig] \in Open /\ plans[sig][lvl] = "pending" /\ <<sig, lvl>> \notin todo
    BY <1>13 DEF ReentryAccepted, VisitedPending
  <2>2. ASSUME NEW s \in Signals, NEW l \in Levels, <<s, l>> \in todo
        PROVE  mem'[s] \in Open /\ plans'[s][l] = "pending"
    <3>1. mem[s] \in Open /\ plans[s][l] = "pending" /\ plans'[s][l] = "pending"
      BY <1>13, <2>1, <2>2 DEF ReentryAccepted, SettleLevel
    <3>2. mem'[s] = mem[s] \/ mem'[s] = Recomputed(mem[s], plans'[s])
      BY <1>13 DEF ReentryAccepted, SettleLevel
    <3>3. l \in Levels
      OBVIOUS
    <3>4. Recomputed(mem[s], plans'[s]) \in Open
      BY ONLY <3>1, <3>3, RecomputedOpen
    <3> QED
      BY ONLY <3>1, <3>2, <3>4
  <2> QED
    BY <1>13, <2>2 DEF ReentryAccepted, SettleLevel
<1>14. ASSUME NEW s \in Signals, CancelAllPending(s) PROVE TodoPending'
  BY <1>14 DEF CancelAllPending
<1>15. CASE SavePlans
  BY <1>15 DEF SavePlans
<1>16. CASE SaveStatus
  BY <1>16 DEF SaveStatus, Return
<1>17. CASE DbFault
  BY <1>17 DEF DbFault, Return, SigKnown
<1>18. ASSUME NEW s \in Signals, DbFaultInExpire(s) PROVE TodoPending'
  BY <1>18 DEF DbFaultInExpire
<1>19. CASE Crash
  BY <1>19 DEF Crash
<1>20. CASE Restart
  BY <1>20 DEF Restart, RestoredStatus, RestoredPlans
<1>21. CASE PriceMove
  BY <1>21 DEF PriceMove
<1>22. CASE Tick
  BY <1>22 DEF Tick
<1>23. CASE UNCHANGED vars
  BY <1>23 DEF vars
<1> QED
  BY <1>1, <1>2, <1>3, <1>4, <1>5, <1>6, <1>7, <1>8, <1>9, <1>10, <1>11,
     <1>12, <1>13, <1>14, <1>15, <1>16, <1>17, <1>18, <1>19, <1>20, <1>21,
     <1>22, <1>23
     DEF Next, Handler, Reenter

\* The level a re-entry starts for has just left the snapshot of the poll.
LEMMA VisitedPendingStep ==
    ASSUME IInv, [Next]_vars
    PROVE  VisitedPending'
<1> USE DEF memory, table, control, world, Go, Finished, IInv, TypeOK, VisitedPending
<1>1. ASSUME NEW s \in Signals, Arrive(s) PROVE VisitedPending'
  BY <1>1 DEF Arrive
<1>2. ASSUME NEW l \in Levels, ExecuteImmediate(l) PROVE VisitedPending'
  BY <1>2 DEF ExecuteImmediate
<1>3. CASE Register
  BY <1>3 DEF Register
<1>4. CASE PollStart
  BY <1>4 DEF PollStart
<1>5. ASSUME NEW s \in Signals, ScanSignal(s) PROVE VisitedPending'
  BY <1>5 DEF ScanSignal
<1>6. ASSUME NEW l \in Levels, CheckLevel(l) PROVE VisitedPending'
  <2>1. sig \in Signals /\ sig' = sig
    BY <1>6 DEF CheckLevel, Hit, SigKnown
  <2>2. mem[sig] \in Open /\ plans[sig][l] = "pending"
    BY <1>6, <2>1 DEF CheckLevel, Hit, TodoPending
  <2> QED
    BY <1>6, <2>1, <2>2 DEF CheckLevel, Hit
<1>7. CASE SignalScanned
  BY <1>7 DEF SignalScanned
<1>8. CASE PollExpire
  BY <1>8 DEF PollExpire, Overdue
<1>9. ASSUME NEW s \in Signals, ExpireSignal(s) PROVE VisitedPending'
  BY <1>9 DEF ExpireSignal
<1>10. CASE PollEnd
  BY <1>10 DEF PollEnd, Gone
<1>11. CASE ReentryRejected
  BY <1>11 DEF ReentryRejected, SettleLevel
<1>12. CASE ReentryNoTick
  BY <1>12 DEF ReentryNoTick
<1>13. CASE ReentryAccepted
  BY <1>13 DEF ReentryAccepted, SettleLevel
<1>14. ASSUME NEW s \in Signals, CancelAllPending(s) PROVE VisitedPending'
  BY <1>14 DEF CancelAllPending
<1>15. CASE SavePlans
  BY <1>15 DEF SavePlans
<1>16. CASE SaveStatus
  BY <1>16 DEF SaveStatus, Return
<1>17. CASE DbFault
  BY <1>17 DEF DbFault, Return
<1>18. ASSUME NEW s \in Signals, DbFaultInExpire(s) PROVE VisitedPending'
  BY <1>18 DEF DbFaultInExpire
<1>19. CASE Crash
  BY <1>19 DEF Crash
<1>20. CASE Restart
  BY <1>20 DEF Restart, RestoredStatus, RestoredPlans
<1>21. CASE PriceMove
  BY <1>21 DEF PriceMove
<1>22. CASE Tick
  BY <1>22 DEF Tick
<1>23. CASE UNCHANGED vars
  BY <1>23 DEF vars
<1> QED
  BY <1>1, <1>2, <1>3, <1>4, <1>5, <1>6, <1>7, <1>8, <1>9, <1>10, <1>11,
     <1>12, <1>13, <1>14, <1>15, <1>16, <1>17, <1>18, <1>19, <1>20, <1>21,
     <1>22, <1>23
     DEF Next, Handler, Reenter

\* A level that is settled in the table stays so in the memory: a handler only
\* settles levels that are pending in both.
LEMMA TableNeverAheadStep ==
    ASSUME RegisterSafe, IInv, [Next]_vars
    PROVE  TableNeverAhead'
<1> USE DEF memory, table, control, world, Go, Finished, IInv, TypeOK, TableNeverAhead
<1>1. ASSUME NEW s \in Signals, Arrive(s) PROVE TableNeverAhead'
  BY <1>1 DEF Arrive
<1>2. ASSUME NEW l \in Levels, ExecuteImmediate(l) PROVE TableNeverAhead'
  BY <1>2 DEF ExecuteImmediate
<1>3. CASE Register
  <2>1. ASSUME NEW s \in Signals, NEW l \in Levels,
               mem'[s] # "none", rowPlans'[s][l] # "pending"
        PROVE  plans'[s][l] = rowPlans'[s][l]
    <3>1. CASE plans'[s] = draft /\ rowPlans'[s] = draft
      BY <3>1
    <3>2. CASE plans'[s] = plans[s] /\ rowPlans'[s] = rowPlans[s] /\ mem'[s] = mem[s]
      BY <2>1, <3>2
    <3> QED
      BY <1>3, <3>1, <3>2 DEF Register, RegisterMayFail, RegisterSafe
  <2> QED
    BY <2>1
<1>4. CASE PollStart
  BY <1>4 DEF PollStart
<1>5. ASSUME NEW s \in Signals, ScanSignal(s) PROVE TableNeverAhead'
  <2>1. mem[s] # "none"
    BY <1>5, NotOpen DEF ScanSignal, TodoPending
  <2>2. ASSUME NEW r \in Signals, NEW l \in Levels,
               mem'[r] # "none", rowPlans[r][l] # "pending"
        PROVE  plans'[r][l] = rowPlans[r][l]
    <3>1. mem[r] # "none"
      <4>1. CASE r = s
        BY <2>1, <4>1
      <4>2. CASE r # s
        BY <1>5, <2>2, <4>2 DEF ScanSignal
      <4> QED
        BY <4>1, <4>2
    <3>2. plans[r][l] = rowPlans[r][l]
      BY <2>2, <3>1
    <3>3. plans'[r] = plans[r] \/ plans'[r] = CancelPending(plans[r])
      BY <1>5 DEF ScanSignal
    <3> QED
      BY <2>2, <3>2, <3>3, CancelKeepsSettled
  <2> QED
    BY <1>5, <2>2 DEF ScanSignal
<1>6. ASSUME NEW l \in Levels, CheckLevel(l) PROVE TableNeverAhead'
  BY <1>6 DEF CheckLevel, Hit
<1>7. CASE SignalScanned
  BY <1>7 DEF SignalScanned
<1>8. CASE PollExpire
  BY <1>8 DEF PollExpire, Overdue
<1>9. ASSUME NEW s \in Signals, ExpireSignal(s) PROVE TableNeverAhead'
  <2>1. mem[s] # "none"
    BY <1>9, NotOpen DEF ExpireSignal, DueOpen
  <2>2. ASSUME NEW r \in Signals, NEW l \in Levels,
               mem'[r] # "none", rowPlans[r][l] # "pending"
        PROVE  plans'[r][l] = rowPlans[r][l]
    <3>1. mem[r] # "none"
      <4>1. CASE r = s
        BY <2>1, <4>1
      <4>2. CASE r # s
        BY <1>9, <2>2, <4>2 DEF ExpireSignal
      <4> QED
        BY <4>1, <4>2
    <3>2. plans[r][l] = rowPlans[r][l]
      BY <2>2, <3>1
    <3>3. plans'[r] = plans[r] \/ plans'[r] = CancelPending(plans[r])
      BY <1>9 DEF ExpireSignal
    <3> QED
      BY <2>2, <3>2, <3>3, CancelKeepsSettled
  <2> QED
    BY <1>9, <2>2 DEF ExpireSignal
<1>10. CASE PollEnd
  BY <1>10 DEF PollEnd, Gone
<1>11. CASE ReentryRejected
  <2>1. mem[sig] \in Open /\ plans[sig][lvl] = "pending" /\ lvl \in Levels
    BY <1>11 DEF ReentryRejected, VisitedPending
  <2>2. sig \in Signals
    BY <1>11 DEF ReentryRejected, SigKnown
  <2>3. rowPlans[sig][lvl] = "pending"
    BY <2>1, <2>2, NotOpen
  <2>4. ASSUME NEW s \in Signals, NEW l \in Levels,
               mem'[s] # "none", rowPlans[s][l] # "pending"
        PROVE  plans'[s][l] = rowPlans[s][l]
    <3>1. mem[s] # "none"
      BY <1>11, <2>1, <2>4, NotOpen DEF ReentryRejected, SettleLevel
    <3>2. plans'[s][l] = plans[s][l]
      BY <1>11, <2>2, <2>3, <2>4 DEF ReentryRejected, SettleLevel
    <3> QED
      BY <2>4, <3>1, <3>2
  <2>5. rowPlans' = rowPlans
    BY <1>11 DEF ReentryRejected, SettleLevel
  <2> QED
    BY ONLY <2>4, <2>5 DEF TableNeverAhead
<1>12. CASE ReentryNoTick
  BY <1>12 DEF ReentryNoTick
<1>13. CASE ReentryAccepted
  <2>1. mem[sig] \in Open /\ plans[sig][lvl] = "pending" /\ lvl \in Levels
    BY <1>13 DEF ReentryAccepted, VisitedPending
  <2>2. sig \in Signals
    BY <1>13 DEF ReentryAccepted, SigKnown
  <2>3. rowPlans[sig][lvl] = "pending"
    BY <2>1, <2>2, NotOpen
  <2>4. ASSUME NEW s \in Signals, NEW l \in Levels,
               mem'[s] # "none", rowPlans[s][l] # "pending"
        PROVE  plans'[s][l] = rowPlans[s][l]
    <3>1. mem[s] # "none"
      BY <1>13, <2>1, <2>4, NotOpen DEF ReentryAccepted, SettleLevel
    <3>2. plans'[s][l] = plans[s][l]
      BY <1>13, <2>2, <2>3, <2>4 DEF ReentryAccepted, SettleLevel
    <3> QED
      BY <2>4, <3>1, <3>2
  <2>5. rowPlans' = rowPlans
    BY <1>13 DEF ReentryAccepted, SettleLevel
  <2> QED
    BY ONLY <2>4, <2>5 DEF TableNeverAhead
<1>14. ASSUME NEW s \in Signals, CancelAllPending(s) PROVE TableNeverAhead'
  <2>1. mem[s] # "none"
    BY <1>14, NotOpen DEF CancelAllPending
  <2>2. ASSUME NEW r \in Signals, NEW l \in Levels,
               mem'[r] # "none", rowPlans[r][l] # "pending"
        PROVE  plans'[r][l] = rowPlans[r][l]
    <3>1. mem[r] # "none"
      <4>1. CASE r = s
        BY <2>1, <4>1
      <4>2. CASE r # s
        BY <1>14, <2>2, <4>2 DEF CancelAllPending
      <4> QED
        BY <4>1, <4>2
    <3>2. plans[r][l] = rowPlans[r][l]
      BY <2>2, <3>1
    <3>3. plans'[r] = plans[r] \/ plans'[r] = CancelPending(plans[r])
      BY <1>14 DEF CancelAllPending
    <3> QED
      BY <2>2, <3>2, <3>3, CancelKeepsSettled
  <2> QED
    BY <1>14, <2>2 DEF CancelAllPending
<1>15. CASE SavePlans
  BY <1>15 DEF SavePlans
<1>16. CASE SaveStatus
  BY <1>16 DEF SaveStatus, Return
<1>17. CASE DbFault
  BY <1>17 DEF DbFault, Return
<1>18. ASSUME NEW s \in Signals, DbFaultInExpire(s) PROVE TableNeverAhead'
  <2>1. mem[s] # "none"
    BY <1>18, NotOpen DEF DbFaultInExpire, DueOpen
  <2>2. ASSUME NEW r \in Signals, NEW l \in Levels,
               mem'[r] # "none", rowPlans[r][l] # "pending"
        PROVE  plans'[r][l] = rowPlans[r][l]
    <3>1. mem[r] # "none"
      <4>1. CASE r = s
        BY <2>1, <4>1
      <4>2. CASE r # s
        BY <1>18, <2>2, <4>2 DEF DbFaultInExpire
      <4> QED
        BY <4>1, <4>2
    <3>2. plans[r][l] = rowPlans[r][l]
      BY <2>2, <3>1
    <3>3. plans'[r] = plans[r] \/ plans'[r] = CancelPending(plans[r])
      BY <1>18 DEF DbFaultInExpire
    <3> QED
      BY <2>2, <3>2, <3>3, CancelKeepsSettled
  <2> QED
    BY <1>18, <2>2 DEF DbFaultInExpire
<1>19. CASE Crash
  BY <1>19 DEF Crash
<1>20. CASE Restart
  BY <1>20 DEF Restart, RestoredStatus, RestoredPlans
<1>21. CASE PriceMove
  BY <1>21 DEF PriceMove
<1>22. CASE Tick
  BY <1>22 DEF Tick
<1>23. CASE UNCHANGED vars
  BY <1>23 DEF vars
<1> QED
  BY <1>1, <1>2, <1>3, <1>4, <1>5, <1>6, <1>7, <1>8, <1>9, <1>10, <1>11,
     <1>12, <1>13, <1>14, <1>15, <1>16, <1>17, <1>18, <1>19, <1>20, <1>21,
     <1>22, <1>23
     DEF Next, Handler, Reenter

\* An entry settles its level in memory; only a crash can make the level pending
\* again, and the bound has grown by then.
LEMMA EntriesStep ==
    ASSUME IInv, [Next]_vars
    PROVE  EntriesBounded' /\ OneEntryPerLevel'
<1> USE DEF memory, table, control, world, Go, Finished, IInv, TypeOK, EntriesBounded, OneEntryPerLevel
<1>1. ASSUME NEW s \in Signals, Arrive(s) PROVE EntriesBounded' /\ OneEntryPerLevel'
  BY <1>1 DEF Arrive
<1>2. ASSUME NEW l \in Levels, ExecuteImmediate(l) PROVE EntriesBounded' /\ OneEntryPerLevel'
  BY <1>2 DEF ExecuteImmediate
<1>3. CASE Register
  <2>0. ASSUME NEW s \in Signals, NEW l \in Levels
        PROVE  /\ entries[s][l] <= 1 + crashes
               /\ mem[s] # "none" /\ plans[s][l] = "pending"
                     => entries[s][l] <= crashes
    BY DEF IInv, EntriesBounded, OneEntryPerLevel
  <2>1. ASSUME NEW s \in Signals, NEW l \in Levels
        PROVE  /\ entries'[s][l] <= 1 + crashes
               /\ mem'[s] # "none" /\ plans'[s][l] = "pending"
                     => entries'[s][l] <= crashes
    <3>1. CASE entries'[s] = entries[s] /\ mem'[s] = mem[s] /\ plans'[s] = plans[s]
      BY <2>0, <3>1
    <3>2. CASE /\ plans'[s] = draft
               /\ entries'[s] = [m \in Levels |->
                                   IF draft[m] = "executed" THEN 1 ELSE 0]
      BY <3>2
    <3>3. \/ UNCHANGED <<entries, mem, plans>>
          \/ /\ mem' = [mem EXCEPT ![sig] = "pending"]
             /\ plans' = [plans EXCEPT ![sig] = draft]
             /\ entries' = [entries EXCEPT ![sig] =
                    [m \in Levels |-> IF draft[m] = "executed" THEN 1 ELSE 0]]
      BY <1>3 DEF Register
    <3>4. /\ mem \in [Signals -> Lifecycle \cup {"none"}]
          /\ plans \in [Signals -> [Levels -> PlanStatus]]
          /\ entries \in [Signals -> [Levels -> Nat]]
      OBVIOUS
    <3>5. \/ entries'[s] = entries[s] /\ mem'[s] = mem[s] /\ plans'[s] = plans[s]
          \/ /\ plans'[s] = draft
             /\ entries'[s] = [m \in Levels |-> IF draft[m] = "executed" THEN 1 ELSE 0]
      BY ONLY <3>3, <3>4, <2>1
    <3> QED
      BY ONLY <3>1, <3>2, <3>5
  <2> QED
    BY <1>3, <2>1 DEF Register
<1>4. CASE PollStart
  BY <1>4 DEF PollStart
<1>5. ASSUME NEW s \in Signals, ScanSignal(s) PROVE EntriesBounded' /\ OneEntryPerLevel'
  <2>1. ASSUME NEW r \in Signals, NEW l \in Levels,
               mem'[r] # "none", plans'[r][l] = "pending"
        PROVE  mem[r] # "none" /\ plans[r][l] = "pending"
    <3>1. CASE r = s
      <4>1. plans'[s] = plans[s] /\ mem'[s] = mem[s]
        BY <1>5, <2>1, <3>1, CancelledNotPending DEF ScanSignal
      <4> QED
        BY <2>1, <3>1, <4>1
    <3>2. CASE r # s
      BY <1>5, <2>1, <3>2 DEF ScanSignal
    <3> QED
      BY <3>1, <3>2
  <2> QED
    BY <1>5, <2>1 DEF ScanSignal
<1>6. ASSUME NEW l \in Levels, CheckLevel(l) PROVE EntriesBounded' /\ OneEntryPerLevel'
  BY <1>6 DEF CheckLevel, Hit
<1>7. CASE SignalScanned
  BY <1>7 DEF SignalScanned
<1>8. CASE PollExpire
  BY <1>8 DEF PollExpire, Overdue
<1>9. ASSUME NEW s \in Signals, ExpireSignal(s) PROVE EntriesBounded' /\ OneEntryPerLevel'
  <2>1. ASSUME NEW r \in Signals, NEW l \in Levels,
               mem'[r] # "none", plans'[r][l] = "pending"
        PROVE  mem[r] # "none" /\ plans[r][l] = "pending"
    BY <1>9, <2>1, CancelledNotPending DEF ExpireSignal
  <2> QED
    BY <1>9, <2>1 DEF ExpireSignal
<1>10. CASE PollEnd
  BY <1>10 DEF PollEnd, Gone
<1>11. CASE ReentryRejected
  <2>1. mem[sig] # "none"
    BY <1>11, NotOpen DEF ReentryRejected, VisitedPending
  <2>2. ASSUME NEW s \in Signals, NEW l \in Levels,
               mem'[s] # "none", plans'[s][l] = "pending"
        PROVE  mem[s] # "none" /\ plans[s][l] = "pending"
    BY <1>11, <2>1, <2>2 DEF ReentryRejected, SettleLevel
  <2> QED
    BY <1>11, <2>2 DEF ReentryRejected, SettleLevel
<1>12. CASE ReentryNoTick
  BY <1>12 DEF ReentryNoTick
<1>13. CASE ReentryAccepted
  <2>0. ASSUME NEW s \in Signals, NEW l \in Levels
        PROVE  /\ entries[s][l] <= 1 + crashes
               /\ mem[s] # "none" /\ plans[s][l] = "pending"
                     => entries[s][l] <= crashes
    BY DEF IInv, EntriesBounded, OneEntryPerLevel
  <2>1. /\ mem[sig] # "none" /\ plans[sig][lvl] = "pending" /\ lvl \in Levels
        /\ sig \in Signals
    BY <1>13, NotOpen DEF ReentryAccepted, VisitedPending, SigKnown
  <2>2. entries' = [entries EXCEPT ![sig][lvl] = entries[sig][lvl] + 1]
    BY <1>13 DEF ReentryAccepted
  <2>3. ASSUME NEW s \in Signals, NEW l \in Levels
        PROVE  /\ entries'[s][l] <= 1 + crashes
               /\ mem'[s] # "none" /\ plans'[s][l] = "pending"
                     => entries'[s][l] <= crashes
    <3>1. CASE s = sig /\ l = lvl
      <4>1. entries[sig][lvl] <= crashes
        BY <2>0, <2>1
      <4>2. entries'[s][l] = entries[sig][lvl] + 1
        BY <2>1, <2>2, <3>1
      <4>3. plans'[s][l] = "executed"
        BY <1>13, <2>1, <3>1 DEF ReentryAccepted, SettleLevel
      <4> QED
        BY <2>1, <4>1, <4>2, <4>3
    <3>2. CASE ~(s = sig /\ l = lvl)
      <4>1. entries'[s][l] = entries[s][l]
        BY <2>1, <2>2, <3>2
      <4>2. plans'[s][l] = plans[s][l]
        BY <1>13, <3>2 DEF ReentryAccepted, SettleLevel
      <4>3. mem'[s] # "none" => mem[s] # "none"
        BY <1>13, <2>1 DEF ReentryAccepted, SettleLevel
      <4> QED
        BY <2>0, <4>1, <4>2, <4>3
    <3> QED
      BY <3>1, <3>2
  <2> QED
    BY <1>13, <2>3 DEF ReentryAccepted, SettleLevel
<1>14. ASSUME NEW s \in Signals, CancelAllPending(s) PROVE EntriesBounded' /\ OneEntryPerLevel'
  <2>1. ASSUME NEW r \in Signals, NEW l \in Levels,
               mem'[r] # "none", plans'[r][l] = "pending"
        PROVE  mem[r] # "none" /\ plans[r][l] = "pending"
    BY <1>14, <2>1, CancelledNotPending DEF CancelAllPending
  <2> QED
    BY <1>14, <2>1 DEF CancelAllPending
<1>15. CASE SavePlans
  BY <1>15 DEF SavePlans
<1>16. CASE SaveStatus
  BY <1>16 DEF SaveStatus, Return
<1>17. CASE DbFault
  BY <1>17 DEF DbFault, Return
<1>18. ASSUME NEW s \in Signals, DbFaultInExpire(s) PROVE EntriesBounded' /\ OneEntryPerLevel'
  <2>1. ASSUME NEW r \in Signals, NEW l \in Levels,
               mem'[r] # "none", plans'[r][l] = "pending"
        PROVE  mem[r] # "none" /\ plans[r][l] = "pending"
    BY <1>18, <2>1, CancelledNotPending DEF DbFaultInExpire
  <2> QED
    BY <1>18, <2>1 DEF DbFaultInExpire
<1>19. CASE Crash
  BY <1>19 DEF Crash
<1>20. CASE Restart
  BY <1>20 DEF Restart, RestoredStatus, RestoredPlans
<1>21. CASE PriceMove
  BY <1>21 DEF PriceMove
<1>22. CASE Tick
  BY <1>22 DEF Tick
<1>23. CASE UNCHANGED vars
  BY <1>23 DEF vars
<1> QED
  BY <1>1, <1>2, <1>3, <1>4, <1>5, <1>6, <1>7, <1>8, <1>9, <1>10, <1>11,
     <1>12, <1>13, <1>14, <1>15, <1>16, <1>17, <1>18, <1>19, <1>20, <1>21,
     <1>22, <1>23
     DEF Next, Handler, Reenter

\* IInv is inductive.
LEMMA InitIInv == Init => IInv
BY InitType, ReentryAssumption
   DEF Init, IInv, SigKnown, TodoPending, VisitedPending, DueOpen, TableNeverAhead,
       OpenIsDurable, EntriesBounded, OneEntryPerLevel, NoPlans, Open, TypeOK

LEMMA NextIInv == IInv /\ [Next]_vars => IInv'
<1> SUFFICES ASSUME IInv, [Next]_vars PROVE IInv'
  OBVIOUS
<1>1. TypeOK' /\ TickKnown'
  BY NextType DEF IInv
<1> QED
  BY <1>1, SigKnownStep, TodoPendingStep, VisitedPendingStep, DueOpenStep,
     TableNeverAheadStep, OpenIsDurableStep, EntriesStep DEF IInv

\* The inductive invariant holds in every reachable state.
THEOREM Invariant == Spec => []IInv
BY InitIInv, NextIInv, PTL DEF Spec

\* The active_signals table is never ahead of the registry: no save of
\* _persist_plans takes a settled level back, whatever other commits failed.
THEOREM NeverAhead == ASSUME RegisterSafe PROVE Spec => []TableNeverAhead
<1>1. IInv => TableNeverAhead
  BY RegisterSafe DEF IInv
<1> QED
  BY <1>1, Invariant, PTL

\* Every signal that can still enter the market survives a restart.
THEOREM Durability == ASSUME RegisterSafe PROVE Spec => []OpenIsDurable
<1>1. IInv => OpenIsDurable
  BY RegisterSafe DEF IInv
<1> QED
  BY <1>1, Invariant, PTL

\* A level has at most one entry more than there were kills of the process,
\* whatever commits failed.
THEOREM SingleEntry == Spec => []OneEntryPerLevel
<1>1. IInv => OneEntryPerLevel
  BY DEF IInv
<1> QED
  BY <1>1, Invariant, PTL

\* handle_reentry sends orders only for levels that the table has as pending,
\* in an open row, whatever commits other than those of registrations failed.
THEOREM NoLateEntry == ASSUME RegisterSafe PROVE Spec => NoEntryOnSettledLevel
<1> DEFINE Late == \A s \in Signals, l \in Levels :
                      at = "reentry" /\ entries'[s][l] # entries[s][l]
                         => row[s] \in Open /\ rowPlans[s][l] = "pending"
<1>1. IInv /\ [Next]_vars => [Late]_vars
  <2> SUFFICES ASSUME IInv, Next, at = "reentry",
                      NEW s \in Signals, NEW l \in Levels,
                      entries'[s][l] # entries[s][l]
               PROVE  row[s] \in Open /\ rowPlans[s][l] = "pending"
    OBVIOUS
  <2>1. ReentryAccepted
    BY DEF Next, Handler, Reenter, world, Arrive, ExecuteImmediate, Register,
           PollStart, ScanSignal, CheckLevel, SignalScanned, PollExpire,
           ExpireSignal, PollEnd, ReentryRejected, ReentryNoTick,
           CancelAllPending, SavePlans, SaveStatus, DbFault, DbFaultInExpire,
           Crash, Restart, PriceMove, Tick
  <2>2. /\ sig \in Signals /\ lvl \in Levels
        /\ mem[sig] \in Open /\ plans[sig][lvl] = "pending"
    BY DEF IInv, VisitedPending, SigKnown
  <2>3. s = sig /\ l = lvl
    BY <2>1, <2>2 DEF ReentryAccepted, IInv, TypeOK
  <2>4. row[sig] \in Open
    BY <2>2, RegisterSafe DEF IInv, OpenIsDurable
  <2>5. rowPlans[sig][lvl] = "pending"
    BY <2>2, NotOpen, RegisterSafe DEF IInv, TableNeverAhead
  <2> QED
    BY <2>3, <2>4, <2>5
<1> QED
  BY <1>1, Invariant, PTL DEF Spec, NoEntryOnSettledLevel

-----------------------------------------------------------------------------
(***************************************************************************)
(* The table implements SignalLifecycle if no commit fails, with any       *)
(* number of kills.  A handler that is about to save works on an open row, *)
(* and what it saves is a step of the lifecycle from there (SaveReady); a  *)
(* signal that memory does not have, or has closed, has no open row, so a  *)
(* registration starts a new lifecycle (ClosedTogether, UntrackedClosed).  *)
(***************************************************************************)

\* While the process runs, an open row belongs to a signal in memory.
UntrackedClosed ==
    at # "down" => \A s \in Signals : mem[s] = "none" => row[s] \notin Open

Saving(s) == at \in {"savePlans", "saveStatus"} /\ sig = s

\* A signal that is closed in memory has no open row, but for the one that is
\* being saved, and nothing of it is pending.
ClosedTogether ==
    \A s \in Signals : mem[s] \in Closed =>
        /\ row[s] \in Open => Saving(s)
        /\ \A l \in Levels : plans[s][l] # "pending"

\* What is saved moves an open row forward.
SaveReady ==
    /\ at \in {"savePlans", "saveStatus"} =>
          /\ row[sig] \in Open
          /\ mem[sig] \in {"pending", "partial", "completed"}
          /\ mem[sig] = "partial" => \E l \in Levels : plans[sig][l] = "pending"
    /\ at = "saveStatus" => rowPlans[sig] = plans[sig]

\* A partial signal has an executed level, and is partial in memory once it is
\* in the table.
PartialExecuted ==
    \A s \in Signals :
        /\ mem[s] = "partial" => \E l \in Levels : plans[s][l] = "executed"
        /\ row[s] = "partial" => /\ \E l \in Levels : rowPlans[s][l] = "executed"
                                 /\ mem[s] \in Open => mem[s] = "partial"

\* Before its registration only immediate levels of a signal are executed.
DraftOfImmediate ==
    at = "entry" =>
        /\ todo \subseteq {sig} \X Immediate[sig]
        /\ \A l \in Levels :
              /\ draft[l] \in {"pending", "executed"}
              /\ l \in Deferred(sig) => draft[l] = "pending"

RInv ==
    /\ UntrackedClosed
    /\ ClosedTogether
    /\ SaveReady
    /\ PartialExecuted
    /\ DraftOfImmediate

\* No commit fails.
NoFaults == DbFaultAt = {}

-----------------------------------------------------------------------------
(* The invariant is inductive                                              *)

\* What the status of an open signal becomes.
LEMMA RecomputedSteps ==
    ASSUME NEW status \in Open, NEW ps
    PROVE  /\ Recomputed(status, ps) \in {"pending", "partial", "completed"}
           /\ Recomputed(status, ps) = "completed" => \A l \in Levels : ps[l] # "pending"
           /\ Recomputed(status, ps) = "partial" =>
                 /\ \E l \in Levels : ps[l] = "pending"
                 /\ status = "partial" \/ \E l \in Levels : ps[l] = "executed"
           /\ Recomputed(status, ps) = "pending" => status = "pending"
BY DEF Recomputed, Open

\* A handler settles levels of an open signal in memory, to be saved next.
LEMMA SettlingKeeps ==
    ASSUME IInv, RInv, RegisterSafe, NEW s \in Signals, mem[s] \in Open,
           NEW ps \in [Levels -> PlanStatus],
           \A l \in Levels : plans[s][l] # "pending" => ps[l] = plans[s][l],
           plans' = [plans EXCEPT ![s] = ps],
           mem' = [mem EXCEPT ![s] = Recomputed(mem[s], ps)],
           UNCHANGED <<row, rowPlans>>,
           at \notin {"down", "savePlans", "saveStatus"}, at' = "savePlans", sig' = s
    PROVE  RInv'
<1> USE NotOpen DEF IInv, TypeOK
<1>1. /\ mem'[s] = Recomputed(mem[s], ps) /\ plans'[s] = ps
      /\ \A r \in Signals \ {s} : mem'[r] = mem[r] /\ plans'[r] = plans[r]
  OBVIOUS
<1>2. row[s] \in Open
  BY DEF OpenIsDurable
<1>3. /\ mem'[s] \in {"pending", "partial", "completed"}
      /\ mem'[s] = "completed" => \A l \in Levels : ps[l] # "pending"
      /\ mem'[s] = "partial" => /\ \E l \in Levels : ps[l] = "pending"
                                /\ mem[s] = "partial" \/ \E l \in Levels : ps[l] = "executed"
      /\ mem'[s] = "pending" => mem[s] = "pending"
  BY <1>1, RecomputedSteps
<1>4. UntrackedClosed'
  BY <1>1, <1>3 DEF RInv, UntrackedClosed
<1>5. ClosedTogether'
  BY <1>1, <1>2, <1>3 DEF RInv, ClosedTogether, Saving, Closed
<1>6. SaveReady'
  BY <1>1, <1>2, <1>3 DEF SaveReady
<1>7. PartialExecuted'
  <2>1. mem[s] = "partial" => \E l \in Levels : ps[l] = "executed"
    BY DEF RInv, PartialExecuted
  <2>2. row[s] = "partial" => mem[s] = "partial"
    BY DEF RInv, PartialExecuted
  <2>3. row[s] = "partial" /\ mem'[s] \in Open => mem'[s] = "partial"
    BY <1>3, <2>2 DEF Open
  <2>4. QED BY <1>1, <1>3, <2>1, <2>3 DEF RInv, PartialExecuted
<1>8. DraftOfImmediate'
  BY DEF DraftOfImmediate
<1>9. QED BY <1>4, <1>5, <1>6, <1>7, <1>8 DEF RInv

\* A handler that leaves the signals and the table alone.
LEMMA QuietKeeps ==
    ASSUME IInv, RInv, UNCHANGED <<mem, plans, row, rowPlans>>,
           at \notin {"down", "savePlans", "saveStatus"},
           at' \notin {"entry", "savePlans", "saveStatus"}
    PROVE  RInv'
BY DEF RInv, UntrackedClosed, ClosedTogether, Saving, SaveReady, PartialExecuted,
       DraftOfImmediate

LEMMA ArrivalKeeps ==
    ASSUME IInv, RInv,
           \/ \E s \in Signals : Arrive(s)
           \/ \E l \in Levels : ExecuteImmediate(l)
    PROVE  RInv'
<1> USE DEF memory, table
<1>1. /\ UNCHANGED <<mem, plans, row, rowPlans>>
      /\ at \in {"idle", "entry"} /\ at' = "entry"
  BY DEF Arrive, ExecuteImmediate
<1>2. UntrackedClosed' /\ ClosedTogether' /\ SaveReady' /\ PartialExecuted'
  BY <1>1 DEF RInv, UntrackedClosed, ClosedTogether, Saving, SaveReady, PartialExecuted
<1>3. DraftOfImmediate'
  <2>1. ASSUME NEW s \in Signals, Arrive(s) PROVE DraftOfImmediate'
    BY <2>1 DEF Arrive, DraftOfImmediate, NoPlans
  <2>2. ASSUME NEW l \in Levels, ExecuteImmediate(l) PROVE DraftOfImmediate'
    <3>1. /\ at = "entry" /\ sig' = sig /\ todo' \subseteq todo /\ <<sig, l>> \in todo
          /\ draft' = draft \/ draft' = [draft EXCEPT ![l] = "executed"]
      BY <2>2 DEF ExecuteImmediate
    <3>2. l \in Immediate[sig] /\ draft \in [Levels -> PlanStatus]
      BY <3>1 DEF RInv, DraftOfImmediate, IInv, TypeOK
    <3>3. \A k \in Levels : draft'[k] = draft[k] \/ (k = l /\ draft'[k] = "executed")
      BY <3>1, <3>2
    <3>4. QED BY <1>1, <3>1, <3>2, <3>3 DEF RInv, DraftOfImmediate, Deferred
  <2>3. QED BY <2>1, <2>2
<1>4. QED BY <1>2, <1>3 DEF RInv

LEMMA RegisterKeeps ==
    ASSUME IInv, RInv, NoFaults, Register
    PROVE  RInv'
<1> USE NotOpen DEF memory, table
<1>1. at = "entry" /\ at' = "idle" /\ sig \in Signals /\ todo = {}
  BY DEF Register, Finished, IInv, SigKnown
<1>2. CASE UNCHANGED <<mem, plans, row, rowPlans>>
  BY <1>1, <1>2, QuietKeeps
<1>3. CASE /\ mem' = [mem EXCEPT ![sig] = "pending"]
           /\ plans' = [plans EXCEPT ![sig] = draft]
           /\ row' = [row EXCEPT ![sig] = "pending"]
           /\ rowPlans' = [rowPlans EXCEPT ![sig] = draft]
  <2>1. /\ mem'[sig] = "pending" /\ row'[sig] = "pending"
        /\ \A r \in Signals \ {sig} :
              /\ mem'[r] = mem[r] /\ plans'[r] = plans[r]
              /\ row'[r] = row[r] /\ rowPlans'[r] = rowPlans[r]
    BY <1>1, <1>3 DEF IInv, TypeOK
  <2>2. UntrackedClosed' /\ SaveReady' /\ DraftOfImmediate'
    BY <1>1, <2>1 DEF RInv, UntrackedClosed, SaveReady, DraftOfImmediate
  <2>3. ClosedTogether'
    BY <1>1, <2>1 DEF RInv, ClosedTogether, Saving, Closed
  <2>4. PartialExecuted'
    BY <1>1, <2>1 DEF RInv, PartialExecuted
  <2>5. QED BY <2>2, <2>3, <2>4 DEF RInv
<1>4. QED BY <1>2, <1>3 DEF Register, NoFaults, RegisterMayFail

LEMMA ScanKeeps ==
    ASSUME IInv, RInv, RegisterSafe, NEW s \in Signals,
           ScanSignal(s) \/ CancelAllPending(s)
    PROVE  RInv'
<1> USE DEF table, world, Go
<1>1. CASE ScanSignal(s)
  <2>1. mem[s] \in Open /\ at = "scan"
    BY <1>1 DEF ScanSignal, IInv, TodoPending
  <2>2. CASE SlBreached(s, RefPrice(s, tick))
    <3>1. /\ plans' = [plans EXCEPT ![s] = CancelPending(plans[s])]
          /\ mem' = [mem EXCEPT ![s] = Recomputed(mem[s], plans'[s])]
          /\ UNCHANGED <<row, rowPlans>> /\ at' = "savePlans" /\ sig' = s
      BY <1>1, <2>2 DEF ScanSignal
    <3>2. plans'[s] = CancelPending(plans[s]) /\ plans[s] \in [Levels -> PlanStatus]
      BY <3>1 DEF IInv, TypeOK
    <3>3. QED
      BY <2>1, <3>1, <3>2, CancelPendingType, CancelKeepsSettled, SettlingKeeps
  <2>3. CASE ~SlBreached(s, RefPrice(s, tick))
    BY <1>1, <2>1, <2>3, QuietKeeps DEF ScanSignal
  <2>4. QED BY <2>2, <2>3
<1>2. CASE CancelAllPending(s)
  <2>1. mem[s] # "none" /\ (\E l \in Levels : plans[s][l] = "pending") /\ at = "idle"
    BY <1>2 DEF CancelAllPending
  <2>2. mem[s] \in Open
    BY <2>1 DEF RInv, ClosedTogether, IInv, TypeOK, Lifecycle
  <2>3. /\ plans' = [plans EXCEPT ![s] = CancelPending(plans[s])]
        /\ mem' = [mem EXCEPT ![s] = Recomputed(mem[s], plans'[s])]
        /\ UNCHANGED <<row, rowPlans>> /\ at' = "savePlans" /\ sig' = s
    BY <1>2 DEF CancelAllPending
  <2>4. plans'[s] = CancelPending(plans[s]) /\ plans[s] \in [Levels -> PlanStatus]
    BY <2>3 DEF IInv, TypeOK
  <2>5. QED
    BY <2>1, <2>2, <2>3, <2>4, CancelPendingType, CancelKeepsSettled, SettlingKeeps
<1>3. QED BY <1>1, <1>2

LEMMA ReentryKeeps ==
    ASSUME IInv, RInv, RegisterSafe, ReentryRejected \/ ReentryAccepted
    PROVE  RInv'
<1> USE DEF table, Go
<1>1. PICK status \in {"executed", "cancelled"} : SettleLevel(status) /\ at = "reentry"
  BY DEF ReentryRejected, ReentryAccepted
<1>2. /\ sig \in Signals /\ lvl \in Levels
      /\ mem[sig] \in Open /\ plans[sig][lvl] = "pending"
  BY <1>1 DEF IInv, SigKnown, VisitedPending
<1> DEFINE ps == [plans[sig] EXCEPT ![lvl] = status]
<1>3. /\ plans' = [plans EXCEPT ![sig] = ps]
      /\ mem' = [mem EXCEPT ![sig] = Recomputed(mem[sig], plans'[sig])]
      /\ UNCHANGED <<row, rowPlans, sig>> /\ at' = "savePlans"
  BY <1>1 DEF SettleLevel
<1>4. plans[sig] \in [Levels -> PlanStatus] /\ plans \in [Signals -> [Levels -> PlanStatus]]
  BY <1>2 DEF IInv, TypeOK
<1>5. /\ ps \in [Levels -> PlanStatus]
      /\ \A l \in Levels : plans[sig][l] # "pending" => ps[l] = plans[sig][l]
  BY <1>2, <1>4 DEF PlanStatus
<1> HIDE DEF ps
<1>6. plans'[sig] = ps
  BY <1>2, <1>3, <1>4
<1>7. QED BY <1>1, <1>2, <1>3, <1>5, <1>6, SettlingKeeps

\* What the table calls executed is executed in memory.
LEMMA ExecutedStays ==
    ASSUME IInv, RInv, RegisterSafe, NEW s \in Signals, mem[s] # "none", row[s] = "partial"
    PROVE  \E l \in Levels : plans[s][l] = "executed"
BY DEF RInv, PartialExecuted, IInv, TableNeverAhead

LEMMA SaveKeeps ==
    ASSUME IInv, RInv, RegisterSafe, SavePlans \/ SaveStatus
    PROVE  RInv'
<1> USE NotOpen DEF memory, table, world, Go, IInv, TypeOK
<1>1. /\ sig \in Signals /\ UNCHANGED <<mem, plans>>
      /\ at \in {"savePlans", "saveStatus"} /\ row[sig] \in Open
  BY DEF SavePlans, SaveStatus, SigKnown, RInv, SaveReady
<1>2. CASE SavePlans
  <2>1. /\ at = "savePlans" /\ at' = "saveStatus" /\ UNCHANGED <<row, sig>>
        /\ rowPlans' = [rowPlans EXCEPT ![sig] = plans[sig]]
    BY <1>1, <1>2 DEF SavePlans
  <2>2. /\ rowPlans'[sig] = plans[sig]
        /\ \A r \in Signals \ {sig} : rowPlans'[r] = rowPlans[r]
    BY <1>1, <2>1
  <2>3. UntrackedClosed' /\ ClosedTogether' /\ SaveReady' /\ DraftOfImmediate'
    BY <1>1, <2>1, <2>2
    DEF RInv, UntrackedClosed, ClosedTogether, Saving, SaveReady, DraftOfImmediate
  <2>4. PartialExecuted'
    <3>1. ASSUME row[sig] = "partial" PROVE \E l \in Levels : plans[sig][l] = "executed"
      <4>1. mem[sig] # "none"
        BY <1>1 DEF RInv, SaveReady
      <4>2. QED BY <1>1, <3>1, <4>1, ExecutedStays
    <3>2. QED BY <1>1, <2>1, <2>2, <3>1 DEF RInv, PartialExecuted
  <2>5. QED BY <2>3, <2>4 DEF RInv
<1>3. CASE SaveStatus
  <2>1. /\ at = "saveStatus" /\ UNCHANGED rowPlans
        /\ row' = [row EXCEPT ![sig] = mem[sig]]
    BY <1>1, <1>3 DEF SaveStatus
  <2>2. /\ row'[sig] = mem[sig]
        /\ \A r \in Signals \ {sig} : row'[r] = row[r]
    BY <1>1, <2>1
  <2>3. at' \in {"idle", "scan", "levels"}
    BY <1>3 DEF SaveStatus, Return, Finished
  <2>4. /\ mem[sig] \in {"pending", "partial", "completed"}
        /\ rowPlans[sig] = plans[sig]
    BY <1>1, <2>1 DEF RInv, SaveReady
  <2>5. UntrackedClosed' /\ SaveReady' /\ DraftOfImmediate'
    BY <1>1, <2>1, <2>2, <2>3, <2>4
    DEF RInv, UntrackedClosed, SaveReady, DraftOfImmediate
  <2>6. ClosedTogether'
    BY <1>1, <2>1, <2>2, <2>4 DEF RInv, ClosedTogether, Saving, Closed, Open
  <2>7. PartialExecuted'
    BY <1>1, <2>1, <2>2, <2>4 DEF RInv, PartialExecuted
  <2>8. QED BY <2>5, <2>6, <2>7 DEF RInv
<1>4. QED BY <1>2, <1>3

LEMMA ExpireKeeps ==
    ASSUME IInv, RInv, NEW s \in Signals, ExpireSignal(s)
    PROVE  RInv'
<1> USE NotOpen DEF IInv, TypeOK
<1>1. /\ at = "expire" /\ at' = "expire" /\ s \in due /\ UNCHANGED <<rowPlans, sig>>
      /\ plans' = [plans EXCEPT ![s] = CancelPending(plans[s])]
      /\ mem' = [mem EXCEPT ![s] = "expired"]
      /\ \/ row' = row /\ row[s] = "none"
         \/ row' = [row EXCEPT ![s] = "expired"]
  BY DEF ExpireSignal
<1>2. /\ mem'[s] = "expired" /\ plans'[s] = CancelPending(plans[s]) /\ row'[s] \notin Open
      /\ row'[s] # "partial"
      /\ \A r \in Signals \ {s} : mem'[r] = mem[r] /\ plans'[r] = plans[r] /\ row'[r] = row[r]
  BY <1>1
<1>3. \A l \in Levels : plans'[s][l] # "pending"
  BY <1>2, CancelledNotPending
<1>4. UntrackedClosed' /\ ClosedTogether' /\ SaveReady' /\ DraftOfImmediate'
  BY <1>1, <1>2, <1>3
  DEF RInv, UntrackedClosed, ClosedTogether, Saving, SaveReady, DraftOfImmediate
<1>5. PartialExecuted'
  BY <1>1, <1>2 DEF RInv, PartialExecuted
<1>6. QED BY <1>4, <1>5 DEF RInv

LEMMA PollEndKeeps ==
    ASSUME IInv, RInv, PollEnd
    PROVE  RInv'
<1> USE NotOpen DEF IInv, TypeOK, table
<1>1. /\ at = "expire" /\ at' = "idle" /\ UNCHANGED <<row, rowPlans>>
      /\ \A s \in Signals :
            /\ mem'[s] = IF mem[s] \in Closed THEN "none" ELSE mem[s]
            /\ mem[s] \notin Closed => plans'[s] = plans[s]
  BY DEF PollEnd, Finished, Gone
<1>2. UntrackedClosed' /\ ClosedTogether' /\ SaveReady' /\ DraftOfImmediate'
  BY <1>1
  DEF RInv, UntrackedClosed, ClosedTogether, Saving, SaveReady, DraftOfImmediate, Closed
<1>3. ASSUME NEW s \in Signals
      PROVE  /\ mem'[s] = "partial" => \E l \in Levels : plans'[s][l] = "executed"
             /\ row'[s] = "partial" => /\ \E l \in Levels : rowPlans'[s][l] = "executed"
                                       /\ mem'[s] \in Open => mem'[s] = "partial"
  <2>1. mem'[s] # "none" => mem[s] \notin Closed /\ mem'[s] = mem[s] /\ plans'[s] = plans[s]
    BY <1>1
  <2>2. CASE mem'[s] = "none"
    BY <1>1, <2>2 DEF RInv, PartialExecuted
  <2>3. CASE mem'[s] # "none"
    BY <1>1, <2>1, <2>3 DEF RInv, PartialExecuted
  <2>4. QED BY <2>2, <2>3
<1>4. QED BY <1>2, <1>3 DEF RInv, PartialExecuted

LEMMA ProcessKeeps ==
    ASSUME IInv, RInv, Crash \/ Restart
    PROVE  RInv'
<1> USE NotOpen DEF IInv, TypeOK, table, Go
<1>1. CASE Crash
  <2>1. /\ at' = "down" /\ UNCHANGED <<row, rowPlans>>
        /\ \A s \in Signals : mem'[s] = "none"
    BY <1>1 DEF Crash
  <2>2. QED
    BY <2>1
    DEF RInv, UntrackedClosed, ClosedTogether, SaveReady, PartialExecuted,
        DraftOfImmediate, Closed
<1>2. CASE Restart
  <2>1. /\ at' = "idle" /\ UNCHANGED <<row, rowPlans>>
        /\ \A s \in Signals :
              /\ mem'[s] = IF row[s] \in Open THEN row[s] ELSE "none"
              /\ row[s] \in Open => plans'[s] = rowPlans[s]
    BY <1>2 DEF Restart, RestoredStatus, RestoredPlans
  <2>2. UntrackedClosed' /\ ClosedTogether' /\ SaveReady' /\ DraftOfImmediate'
    BY <2>1
    DEF RInv, UntrackedClosed, ClosedTogether, SaveReady, DraftOfImmediate, Closed
  <2>3. ASSUME NEW s \in Signals
        PROVE  /\ mem'[s] = "partial" => \E l \in Levels : plans'[s][l] = "executed"
               /\ row'[s] = "partial" => /\ \E l \in Levels : rowPlans'[s][l] = "executed"
                                         /\ mem'[s] \in Open => mem'[s] = "partial"
    <3>1. row[s] = "partial" => \E l \in Levels : rowPlans[s][l] = "executed"
      BY DEF RInv, PartialExecuted
    <3>2. mem'[s] = "partial" => row[s] = "partial" /\ plans'[s] = rowPlans[s]
      BY <2>1
    <3>3. mem'[s] \in Open => mem'[s] = row[s]
      BY <2>1
    <3>4. QED BY <2>1, <3>1, <3>2, <3>3
  <2>4. QED BY <2>2, <2>3 DEF RInv, PartialExecuted
<1>3. QED BY <1>1, <1>2

LEMMA RStep == NoFaults /\ IInv /\ RInv /\ [Next]_vars => RInv'
<1> SUFFICES ASSUME NoFaults, IInv, RInv, [Next]_vars PROVE RInv'
  OBVIOUS
<1> USE DEF memory, table, control, world, Go
<1>1. RegisterSafe
  BY DEF NoFaults, RegisterSafe
<1>2. ASSUME NEW l \in Levels, CheckLevel(l) PROVE RInv'
  <2>1. /\ UNCHANGED <<mem, plans, row, rowPlans>> /\ at = "levels"
        /\ at' \in {"levels", "reentry"}
    BY <1>2 DEF CheckLevel
  <2>2. QED BY <2>1, QuietKeeps
<1>3. CASE PollStart \/ SignalScanned \/ PollExpire \/ ReentryNoTick
  BY <1>3, QuietKeeps DEF PollStart, SignalScanned, PollExpire, ReentryNoTick
<1>4. CASE PriceMove \/ Tick \/ UNCHANGED vars
  <2>1. UNCHANGED <<mem, plans, row, rowPlans, control>>
    BY <1>4 DEF PriceMove, Tick, vars
  <2>2. QED
    BY <2>1
    DEF RInv, UntrackedClosed, ClosedTogether, Saving, SaveReady, PartialExecuted,
        DraftOfImmediate
<1>5. ~DbFault /\ \A s \in Signals : ~DbFaultInExpire(s)
  BY DEF NoFaults, DbFault, DbFaultInExpire
<1>6. ASSUME NEW s \in Signals, ScanSignal(s) \/ CancelAllPending(s) \/ ExpireSignal(s)
      PROVE  RInv'
  BY <1>1, <1>6, ScanKeeps, ExpireKeeps
<1>7. CASE \/ \E s \in Signals : Arrive(s)
           \/ \E l \in Levels : ExecuteImmediate(l)
  BY <1>7, ArrivalKeeps
<1>8. CASE Register \/ SavePlans \/ SaveStatus \/ PollEnd \/ Crash \/ Restart
           \/ ReentryRejected \/ ReentryAccepted
  BY <1>1, <1>8, RegisterKeeps, SaveKeeps, PollEndKeeps, ProcessKeeps, ReentryKeeps
<1>9. QED
  BY <1>2, <1>3, <1>4, <1>5, <1>6, <1>7, <1>8 DEF Next, Handler, Reenter

\* Without failing commits the invariant of the refinement holds throughout.
LEMMA RefinementInvariant == NoFaults => (Spec => [](IInv /\ RInv))
<1> SUFFICES ASSUME NoFaults PROVE Spec => [](IInv /\ RInv)
  OBVIOUS
<1>1. Init => RInv
  BY NotOpen
  DEF Init, RInv, UntrackedClosed, ClosedTogether, SaveReady, PartialExecuted,
      DraftOfImmediate, Closed
<1>2. IInv /\ RInv /\ [Next]_vars => RInv'
  BY RStep
<1>3. Spec => []IInv
  BY Invariant
<1>4. QED BY <1>1, <1>2, <1>3, PTL DEF Spec

-----------------------------------------------------------------------------
(* Every step of the table is a step of the lifecycle                      *)

LEMMA InitRefines == Init => Durable!Init
BY DEF Init, Durable!Init, NoPlans

LEMMA RegisterRefines ==
    ASSUME IInv, RInv, NoFaults, Register
    PROVE  [Durable!Next]_Durable!vars
<1> USE DEF table, Durable!vars
<1>1. CASE UNCHANGED <<row, rowPlans>>
  BY <1>1
<1>2. CASE /\ Deferred(sig) # {} /\ mem[sig] = "none"
           /\ row' = [row EXCEPT ![sig] = "pending"]
           /\ rowPlans' = [rowPlans EXCEPT ![sig] = draft]
  <2>1. sig \in Signals /\ at = "entry"
    BY DEF Register, IInv, SigKnown
  <2>2. row[sig] \notin Durable!Open
    BY <1>2, <2>1 DEF RInv, UntrackedClosed, Open, Durable!Open
  <2>3. draft \in [Levels -> {"pending", "executed"}]
    BY <2>1 DEF IInv, TypeOK, RInv, DraftOfImmediate
  <2>4. \E l \in Levels : draft[l] = "pending"
    BY <1>2, <2>1 DEF RInv, DraftOfImmediate, Deferred
  <2>5. Durable!Register(sig)
    BY <1>2, <2>2, <2>3, <2>4 DEF Durable!Register
  <2>6. QED BY <2>1, <2>5 DEF Durable!Next
<1>3. QED BY <1>1, <1>2 DEF Register, NoFaults, RegisterMayFail

LEMMA SavePlansRefines ==
    ASSUME IInv, RInv, RegisterSafe, SavePlans
    PROVE  [Durable!Next]_Durable!vars
<1>1. sig \in Signals /\ row[sig] \in Open /\ mem[sig] # "none" /\ UNCHANGED row
  BY DEF SavePlans, IInv, SigKnown, RInv, SaveReady
<1>2. rowPlans' = [rowPlans EXCEPT ![sig] = plans[sig]]
  BY <1>1, NotOpen DEF SavePlans
<1>3. plans[sig] \in [Levels -> Durable!Settled \cup {"pending"}]
  BY <1>1 DEF IInv, TypeOK, PlanStatus, Durable!Settled
<1>4. \A l \in Levels : rowPlans[sig][l] \in Durable!Settled => plans[sig][l] = rowPlans[sig][l]
  BY <1>1 DEF IInv, TableNeverAhead, Durable!Settled
<1>5. Durable!Settle(sig)
  BY <1>1, <1>2, <1>3, <1>4 DEF Durable!Settle, Durable!Open, Open
<1>6. QED BY <1>1, <1>5 DEF Durable!Next

LEMMA SaveStatusRefines ==
    ASSUME IInv, RInv, SaveStatus
    PROVE  [Durable!Next]_Durable!vars
<1> USE DEF table, Durable!vars
<1>1. /\ sig \in Signals /\ row[sig] \in Open /\ UNCHANGED rowPlans
      /\ rowPlans[sig] = plans[sig]
      /\ mem[sig] \in {"pending", "partial", "completed"}
      /\ mem[sig] = "partial" => \E l \in Levels : plans[sig][l] = "pending"
  BY DEF SaveStatus, IInv, SigKnown, RInv, SaveReady
<1>2. row' = [row EXCEPT ![sig] = mem[sig]] /\ row \in [Signals -> Lifecycle \cup {"none"}]
  BY <1>1, NotOpen DEF SaveStatus, IInv, TypeOK
<1>3. CASE row[sig] = mem[sig]
  BY <1>1, <1>2, <1>3
<1>4. CASE mem[sig] = "completed"
  <2>1. \A l \in Levels : rowPlans[sig][l] \in Durable!Settled
    BY <1>1, <1>4 DEF RInv, ClosedTogether, Closed, IInv, TypeOK, PlanStatus, Durable!Settled
  <2>2. Durable!Advance(sig)
    BY <1>1, <1>2, <1>4, <2>1 DEF Durable!Advance, Durable!Open, Open
  <2>3. QED BY <1>1, <2>2 DEF Durable!Next
<1>5. CASE mem[sig] = "partial" /\ row[sig] = "pending"
  <2>1. \E l \in Levels : rowPlans[sig][l] = "executed"
    BY <1>1, <1>5 DEF RInv, PartialExecuted
  <2>2. Durable!Advance(sig)
    BY <1>1, <1>2, <1>5, <2>1 DEF Durable!Advance
  <2>3. QED BY <1>1, <2>2 DEF Durable!Next
<1>6. ~(mem[sig] = "pending" /\ row[sig] = "partial")
  BY <1>1 DEF RInv, PartialExecuted, Open
<1>7. QED BY <1>1, <1>3, <1>4, <1>5, <1>6 DEF Open

LEMMA ExpireRefines ==
    ASSUME IInv, RegisterSafe, NEW s \in Signals, ExpireSignal(s)
    PROVE  [Durable!Next]_Durable!vars
<1>1. row[s] \in Open
  BY DEF ExpireSignal, IInv, DueOpen, OpenIsDurable
<1>2. row' = [row EXCEPT ![s] = "expired"] /\ UNCHANGED rowPlans
  BY <1>1, NotOpen DEF ExpireSignal
<1>3. Durable!Expire(s)
  BY <1>1, <1>2 DEF Durable!Expire, Durable!Open, Open
<1>4. QED BY <1>3 DEF Durable!Next

LEMMA StepRefines ==
    NoFaults /\ IInv /\ RInv /\ [Next]_vars => [Durable!Next]_Durable!vars
<1> SUFFICES ASSUME NoFaults, IInv, RInv, [Next]_vars
             PROVE  [Durable!Next]_Durable!vars
  OBVIOUS
<1>1. RegisterSafe
  BY DEF NoFaults, RegisterSafe
<1>2. CASE UNCHANGED <<row, rowPlans>>
  BY <1>2 DEF Durable!vars
<1>3. CASE Register \/ SavePlans \/ SaveStatus \/ \E s \in Signals : ExpireSignal(s)
  BY <1>1, <1>3, RegisterRefines, SavePlansRefines, SaveStatusRefines, ExpireRefines
<1>4. QED
  BY <1>2, <1>3
  DEF Next, Handler, Reenter, vars, table, control, world, Arrive, ExecuteImmediate,
      PollStart, ScanSignal, CheckLevel, SignalScanned, PollExpire, PollEnd,
      ReentryRejected, ReentryNoTick, ReentryAccepted, SettleLevel, CancelAllPending,
      DbFault, DbFaultInExpire, Crash, Restart, PriceMove, Tick

-----------------------------------------------------------------------------
\* The table of active signals implements the lifecycle of a signal, whatever
\* kills come between its commits, if no commit fails: statuses only move
\* forward, a settled level stays settled until the signal is registered anew,
\* and a restart is invisible (SignalStateManager).
THEOREM Refinement == NoFaults => (Spec => DurableLifecycle)
<1> SUFFICES ASSUME NoFaults PROVE Spec => DurableLifecycle
  OBVIOUS
<1>1. IInv /\ RInv /\ [Next]_vars => [Durable!Next]_Durable!vars
  BY StepRefines
<1>2. Spec => [](IInv /\ RInv)
  BY RefinementInvariant
<1>3. QED BY <1>1, <1>2, InitRefines, PTL DEF Spec, DurableLifecycle, Durable!Spec

-----------------------------------------------------------------------------
(* Memory and table tell the same story                                    *)

\* The table has what the memory has, but for the signal that is being saved.
\* Only expire_old leaves the plans of a row behind those of the memory, and
\* what it closed is gone before the next handler.
Mirrored ==
    at # "down" =>
        \A s \in Signals : mem[s] # "none" =>
            /\ row[s] = mem[s] \/ Saving(s)
            /\ \/ rowPlans[s] = plans[s]
               \/ at = "savePlans" /\ sig = s
               \/ at = "expire" /\ mem[s] = "expired"
            /\ rowTtl[s] = ttl[s]

\* A handler settles levels of s in memory, to be saved next.
LEMMA SettlingMirrors ==
    ASSUME IInv, Mirrored, NEW s \in Signals,
           at \notin {"down", "savePlans", "saveStatus", "expire"}, mem[s] # "none",
           \A r \in Signals \ {s} : mem'[r] = mem[r] /\ plans'[r] = plans[r],
           UNCHANGED <<table, ttl>>, at' = "savePlans", sig' = s
    PROVE  Mirrored'
<1> SUFFICES ASSUME NEW r \in Signals, mem'[r] # "none"
             PROVE  /\ row'[r] = mem'[r] \/ r = s
                    /\ rowPlans'[r] = plans'[r] \/ r = s
                    /\ rowTtl'[r] = ttl'[r]
  BY DEF Mirrored, Saving
<1>1. UNCHANGED <<row, rowPlans, rowTtl, ttl>>
  BY DEF table
<1>2. CASE r = s
  BY <1>1, <1>2 DEF Mirrored
<1>3. CASE r # s
  BY <1>1, <1>3 DEF Mirrored, Saving
<1>4. QED BY <1>2, <1>3

\* A handler that leaves the signals and the table alone.
LEMMA QuietMirrors ==
    ASSUME Mirrored, UNCHANGED <<mem, plans, ttl, table>>,
           at \notin {"down", "savePlans", "saveStatus"},
           at = "expire" => at' = "expire"
    PROVE  Mirrored'
<1>1. UNCHANGED <<mem, plans, ttl, row, rowPlans, rowTtl>>
  BY DEF table
<1>2. QED BY <1>1 DEF Mirrored, Saving

LEMMA MirrorStep == NoFaults /\ IInv /\ RInv /\ Mirrored /\ [Next]_vars => Mirrored'
<1> SUFFICES ASSUME NoFaults, IInv, RInv, Mirrored, [Next]_vars PROVE Mirrored'
  OBVIOUS
<1> USE NotOpen DEF Go
<1> TypeOK
  BY DEF IInv
<1>1. ASSUME NEW s \in Signals, Arrive(s) PROVE Mirrored'
  BY <1>1, QuietMirrors DEF Arrive, memory
<1>2. ASSUME NEW l \in Levels, ExecuteImmediate(l) \/ CheckLevel(l) PROVE Mirrored'
  BY <1>2, QuietMirrors DEF ExecuteImmediate, CheckLevel, memory
<1>3. CASE Register
  <2>1. at = "entry" /\ at' = "idle" /\ sig \in Signals
    BY <1>3 DEF Register, Finished, IInv, SigKnown
  <2>2. CASE UNCHANGED <<mem, plans, ttl, table>>
    BY <2>1, <2>2, QuietMirrors
  <2>3. CASE /\ mem' = [mem EXCEPT ![sig] = "pending"]
             /\ plans' = [plans EXCEPT ![sig] = draft]
             /\ ttl' = [ttl EXCEPT ![sig] = SignalTtl]
             /\ row' = [row EXCEPT ![sig] = "pending"]
             /\ rowPlans' = [rowPlans EXCEPT ![sig] = draft]
             /\ rowTtl' = [rowTtl EXCEPT ![sig] = SignalTtl]
    BY <2>1, <2>3 DEF Mirrored, Saving, TypeOK
  <2>4. QED BY <1>3, <2>2, <2>3 DEF Register, NoFaults, RegisterMayFail
<1>4. CASE PollStart \/ SignalScanned \/ PollExpire \/ ReentryNoTick
  BY <1>4, QuietMirrors DEF PollStart, SignalScanned, PollExpire, ReentryNoTick, memory
<1>5. ASSUME NEW s \in Signals, ScanSignal(s) PROVE Mirrored'
  <2>1. at = "scan" /\ mem[s] \in Open
    BY <1>5 DEF ScanSignal, IInv, TodoPending
  <2>2. CASE SlBreached(s, RefPrice(s, tick))
    <3>1. /\ plans' = [plans EXCEPT ![s] = CancelPending(plans[s])]
          /\ mem' = [mem EXCEPT ![s] = Recomputed(mem[s], plans'[s])]
          /\ UNCHANGED <<table, ttl>> /\ at' = "savePlans" /\ sig' = s
      BY <1>5, <2>2 DEF ScanSignal
    <3>2. \A r \in Signals \ {s} : mem'[r] = mem[r] /\ plans'[r] = plans[r]
      BY <3>1 DEF TypeOK
    <3>3. QED BY <2>1, <3>1, <3>2, SettlingMirrors
  <2>3. CASE ~SlBreached(s, RefPrice(s, tick))
    BY <1>5, <2>1, <2>3, QuietMirrors DEF ScanSignal
  <2>4. QED BY <2>2, <2>3
<1>6. ASSUME NEW s \in Signals, CancelAllPending(s) PROVE Mirrored'
  <2>1. /\ at = "idle" /\ mem[s] # "none"
        /\ plans' = [plans EXCEPT ![s] = CancelPending(plans[s])]
        /\ mem' = [mem EXCEPT ![s] = Recomputed(mem[s], plans'[s])]
        /\ UNCHANGED <<table, ttl>> /\ at' = "savePlans" /\ sig' = s
    BY <1>6 DEF CancelAllPending
  <2>2. \A r \in Signals \ {s} : mem'[r] = mem[r] /\ plans'[r] = plans[r]
    BY <2>1 DEF TypeOK
  <2>3. QED BY <2>1, <2>2, SettlingMirrors
<1>7. CASE ReentryRejected \/ ReentryAccepted
  <2>1. PICK status : SettleLevel(status) /\ at = "reentry"
    BY <1>7 DEF ReentryRejected, ReentryAccepted
  <2>2. sig \in Signals /\ mem[sig] \in Open
    BY <2>1 DEF IInv, SigKnown, VisitedPending
  <2>3. /\ UNCHANGED <<table, ttl, sig>> /\ at' = "savePlans"
        /\ \A r \in Signals \ {sig} : mem'[r] = mem[r] /\ plans'[r] = plans[r]
    BY <2>1, <2>2 DEF SettleLevel, TypeOK
  <2>4. QED BY <2>1, <2>2, <2>3, SettlingMirrors
<1>8. CASE SavePlans
  <2>1. sig \in Signals /\ row[sig] \in Open
    BY <1>8 DEF SavePlans, IInv, SigKnown, RInv, SaveReady
  <2>2. /\ at = "savePlans" /\ at' = "saveStatus"
        /\ UNCHANGED <<mem, plans, ttl, row, rowTtl, sig>>
        /\ rowPlans' = [rowPlans EXCEPT ![sig] = plans[sig]]
    BY <1>8, <2>1 DEF SavePlans, memory
  <2>3. QED BY <2>1, <2>2 DEF Mirrored, Saving, TypeOK
<1>9. CASE SaveStatus
  <2>1. sig \in Signals /\ row[sig] \in Open /\ rowPlans[sig] = plans[sig]
    BY <1>9 DEF SaveStatus, IInv, SigKnown, RInv, SaveReady
  <2>2. /\ at = "saveStatus" /\ at' \in {"idle", "scan", "levels"}
        /\ UNCHANGED <<mem, plans, ttl, rowPlans, rowTtl>>
        /\ row' = [row EXCEPT ![sig] = mem[sig]]
    <3>1. at' \in {"idle", "scan", "levels"}
      BY <1>9 DEF SaveStatus, Return, Finished, TypeOK
    <3>2. QED BY <1>9, <2>1, <3>1 DEF SaveStatus, memory
  <2>3. QED BY <2>1, <2>2 DEF Mirrored, Saving, TypeOK
<1>10. ASSUME NEW s \in Signals, ExpireSignal(s) PROVE Mirrored'
  <2>1. /\ at = "expire" /\ at' = "expire" /\ UNCHANGED <<rowPlans, rowTtl, ttl, sig>>
        /\ mem[s] \in Open /\ row[s] \in Open
        /\ plans' = [plans EXCEPT ![s] = CancelPending(plans[s])]
        /\ mem' = [mem EXCEPT ![s] = "expired"]
    BY <1>10 DEF ExpireSignal, IInv, DueOpen, Mirrored, Saving
  <2>2. row' = [row EXCEPT ![s] = "expired"]
    BY <1>10, <2>1 DEF ExpireSignal
  <2>3. QED BY <2>1, <2>2 DEF Mirrored, Saving, TypeOK
<1>11. CASE PollEnd
  <2>1. /\ at = "expire" /\ at' = "idle" /\ UNCHANGED <<row, rowPlans, rowTtl>>
        /\ \A s \in Signals : mem'[s] # "none" =>
              /\ mem[s] \notin Closed /\ mem'[s] = mem[s]
              /\ plans'[s] = plans[s] /\ ttl'[s] = ttl[s]
    BY <1>11 DEF PollEnd, Finished, Gone, table
  <2>2. QED BY <2>1 DEF Mirrored, Saving, Closed
<1>12. CASE Crash
  BY <1>12 DEF Crash, Mirrored
<1>13. CASE Restart
  <2>1. /\ UNCHANGED <<row, rowPlans, rowTtl>>
        /\ \A s \in Signals : mem'[s] # "none" =>
              mem'[s] = row[s] /\ plans'[s] = rowPlans[s] /\ ttl'[s] = rowTtl[s]
    BY <1>13 DEF Restart, RestoredStatus, RestoredPlans, table
  <2>2. QED BY <2>1 DEF Mirrored
<1>14. CASE PriceMove \/ UNCHANGED vars
  BY <1>14 DEF PriceMove, vars, memory, table, control, Mirrored, Saving
<1>15. CASE Tick
  <2>1. /\ UNCHANGED <<mem, plans, row, rowPlans, at, sig>>
        /\ \A s \in Signals : ttl'[s] = Less(ttl[s]) /\ rowTtl'[s] = Less(rowTtl[s])
    BY <1>15 DEF Tick, control
  <2>2. QED BY <2>1 DEF Mirrored, Saving
<1>16. ~DbFault /\ \A s \in Signals : ~DbFaultInExpire(s)
  BY DEF NoFaults, DbFault, DbFaultInExpire
<1>17. QED
  BY <1>1, <1>2, <1>3, <1>4, <1>5, <1>6, <1>7, <1>8, <1>9, <1>10, <1>11, <1>12, <1>13,
     <1>14, <1>15, <1>16 DEF Next, Handler, Reenter

\* Between handlers, active_signals holds for every tracked signal the status,
\* the plans and the deadline of SignalStateManager._active, and no open row
\* for any other, if no commit fails: with any number of kills and restarts,
\* what rebuild_from_db reads is what the killed process knew.
THEOREM TableMatches == NoFaults => (Spec => []TableMatchesMemory)
<1> SUFFICES ASSUME NoFaults PROVE Spec => []TableMatchesMemory
  OBVIOUS
<1>1. Init => Mirrored
  BY DEF Init, Mirrored
<1>2. IInv /\ RInv /\ Mirrored /\ [Next]_vars => Mirrored'
  BY MirrorStep
<1>3. RInv /\ Mirrored => TableMatchesMemory
  BY DEF RInv, UntrackedClosed, Mirrored, Saving, TableMatchesMemory
<1>4. Spec => [](IInv /\ RInv)
  BY RefinementInvariant
<1>5. QED BY <1>1, <1>2, <1>3, <1>4, PTL DEF Spec

-----------------------------------------------------------------------------
(* Crossings                                                               *)

\* Between the first look at a signal in a poll and the last, a handler of a
\* re-entry and its commits included.
LookingAt ==
    \/ at \in {"levels", "reentry"}
    \/ at \in {"savePlans", "saveStatus"} /\ back = "levels"

\* The price a level is compared with is the one the poll found, or already the
\* one it looks at.
Looked == LookingAt => last[sig] \in {prev, RefPrice(sig, tick)}

LEMMA LookedStep == IInv /\ Looked /\ [Next]_vars => Looked'
<1> SUFFICES ASSUME IInv, Looked, [Next]_vars PROVE Looked'
  OBVIOUS
<1> USE DEF memory, table, control, world, Go, Finished, Looked, LookingAt
<1>0. TypeOK /\ SigKnown
  BY DEF IInv
<1>1. ASSUME NEW l \in Levels, CheckLevel(l) PROVE Looked'
  <2>1. sig \in Signals /\ last \in [Signals -> Int \cup {None}]
    BY <1>0, <1>1 DEF CheckLevel, SigKnown, TypeOK
  <2>2. last' = [last EXCEPT ![sig] = RefPrice(sig, tick)] /\ UNCHANGED <<sig, tick>>
    BY <1>1 DEF CheckLevel
  <2>3. last'[sig'] = RefPrice(sig', tick')
    BY <2>1, <2>2
  <2>4. QED BY <2>3 DEF RefPrice
<1>2. ASSUME NEW s \in Signals, ScanSignal(s) PROVE Looked'
  BY <1>2 DEF ScanSignal
<1>3. CASE Reenter
  BY <1>3 DEF Reenter, ReentryRejected, ReentryNoTick, ReentryAccepted, SettleLevel, RefPrice
<1>4. CASE SavePlans \/ SaveStatus \/ DbFault
  <2>1. back \in {"idle", "scan", "levels"} /\ (at = "entry" => back = "idle")
    BY <1>0 DEF TypeOK, SigKnown
  <2>2. CASE SavePlans
    BY <2>2 DEF SavePlans, RefPrice
  <2>3. CASE SaveStatus
    BY <2>1, <2>3 DEF SaveStatus, Return, RefPrice
  <2>4. CASE DbFault
    <3>1. at \in {"savePlans", "saveStatus", "entry"} /\ UNCHANGED last
      BY <2>4 DEF DbFault
    <3>2. Return(IF back = "levels" THEN "levels" ELSE "idle")
      BY <2>4 DEF DbFault
    <3>3. CASE back = "levels"
      BY <2>1, <3>1, <3>2, <3>3 DEF Return, RefPrice
    <3>4. CASE back # "levels"
      BY <3>2, <3>4 DEF Return
    <3>5. QED BY <3>3, <3>4
  <2>5. QED BY <1>4, <2>2, <2>3, <2>4
<1>5. CASE PriceMove \/ Tick \/ UNCHANGED vars
  BY <1>5 DEF PriceMove, Tick, vars, RefPrice
<1>6. ASSUME ~LookingAt' PROVE Looked'
  BY <1>6
<1>7. ASSUME NEW s \in Signals,
             Arrive(s) \/ ExpireSignal(s) \/ CancelAllPending(s) \/ DbFaultInExpire(s)
      PROVE  ~LookingAt'
  BY <1>7 DEF Arrive, ExpireSignal, CancelAllPending, DbFaultInExpire
<1>8. ASSUME NEW l \in Levels, ExecuteImmediate(l) PROVE ~LookingAt'
  BY <1>8 DEF ExecuteImmediate
<1>9. CASE Register \/ PollStart \/ SignalScanned \/ PollExpire \/ PollEnd \/ Crash \/ Restart
  BY <1>9 DEF Register, PollStart, SignalScanned, PollExpire, PollEnd, Crash, Restart
<1>10. QED
  BY <1>1, <1>2, <1>3, <1>4, <1>5, <1>6, <1>7, <1>8, <1>9 DEF Next, Handler

\* RangeMonitor starts a re-entry only if the price was on the other side of the
\* level at the previous poll, whatever levels of the signal were looked at, or
\* settled, before, and whatever commits failed.
THEOREM RealCrossings == Spec => TriggerNeedsCrossing
<1> DEFINE Crossed == at = "levels" /\ at' = "reentry" =>
              prev # None /\ Crosses(sig, lvl', prev, RefPrice(sig, tick))
<1>1. Init => Looked
  BY DEF Init, Looked, LookingAt
<1>2. IInv /\ Looked /\ [Next]_vars => [Crossed]_vars
  <2> SUFFICES ASSUME IInv, Looked, Next, at = "levels", at' = "reentry"
               PROVE  prev # None /\ Crosses(sig, lvl', prev, RefPrice(sig, tick))
    OBVIOUS
  <2>1. \E l \in Levels : CheckLevel(l)
    BY DEF Next, Handler, Reenter, memory, table, control, world, Go, Finished,
           Arrive, ExecuteImmediate, Register, PollStart, ScanSignal, SignalScanned,
           PollExpire, ExpireSignal, PollEnd, ReentryRejected, ReentryNoTick,
           ReentryAccepted, CancelAllPending, SavePlans, SaveStatus, DbFault,
           DbFaultInExpire, Crash, Restart, PriceMove, Tick
  <2>2. PICK l \in Levels : CheckLevel(l)
    BY <2>1
  <2> DEFINE ref == RefPrice(sig, tick)
  <2>3. Hit(sig, l, ref) /\ lvl' = l
    BY <2>2 DEF CheckLevel
  <2>4. sig \in Signals /\ tick \in Int
    BY <2>2 DEF CheckLevel, IInv, SigKnown, TickKnown
  <2>5. ref \in Int /\ LevelPrice[sig][l] \in Int /\ Tolerance \in Nat
    BY <2>4, ReentryAssumption DEF RefPrice
  <2>6. last[sig] \in {prev, ref}
    BY DEF Looked, LookingAt
  <2> HIDE DEF ref
  <2>7. ~Crosses(sig, l, ref, ref)
    BY <2>5 DEF Crosses
  <2>8. last[sig] # None /\ Crosses(sig, l, last[sig], ref)
    BY <2>3 DEF Hit
  <2>9. QED BY <2>3, <2>6, <2>7, <2>8 DEF ref
<1>3. QED
  BY <1>1, <1>2, Invariant, LookedStep, PTL DEF Spec, TriggerNeedsCrossing

=============================================================================
