------------------------------- MODULE Reentry -------------------------------
(***************************************************************************)
(* Deferred entries of multi-order signals.                                *)
(*                                                                         *)
(* A signal in "range" or "scale_in" mode is a set of entry plans (levels) *)
(* of which some are executed when the message arrives and the others are  *)
(* deferred: SignalStateManager keeps them in memory and in the            *)
(* active_signals table, RangeMonitor polls the price and calls            *)
(* Pipeline.handle_reentry for a level the price crossed, and a restart    *)
(* rebuilds the memory from the table.                                     *)
(*                                                                         *)
(* Every handler is synchronous on one asyncio loop, so handlers do not    *)
(* interleave with each other.  What does interleave with the middle of a  *)
(* handler is the world: the price moves, time passes (order_send blocks), *)
(* the process is killed between two commits, a commit fails.  A handler   *)
(* is therefore cut at the points where it talks to the broker or commits. *)
(*                                                                         *)
(* Simplifications: the signals are on one symbol (a poll treats symbols   *)
(* one after the other); prices are integers, in pips; time is counted in  *)
(* ticks down to a deadline; the verdict of the three guards that precede  *)
(* a re-entry (breaker, daily limits, exposure) is an input.               *)
(*                                                                         *)
(* Where a property's power is in doubt, a definition is preceded by a     *)
(* variant of it with a plausible bug, which the property must reject;     *)
(* PROJECT.json pairs them, and no specification uses them.                *)
(***************************************************************************)
EXTENDS Integers, FiniteSets

CONSTANTS
    Signals,         \* base fingerprints
    Levels,          \* level_id of the entry plans, 0 is the initial one
    Prices,          \* bid prices
    Side,            \* Side[s] is "BUY" or "SELL"
    LevelPrice,      \* LevelPrice[s][l]: EntryPlan.level
    StopLoss,        \* StopLoss[s]: SignalState.sl
    Immediate,       \* Immediate[s]: levels executed when the message arrives
    Spread,          \* ask - bid
    SignalTtl,       \* signal_ttl_minutes, in ticks
    Debounce,        \* debounce_seconds, in ticks
    Tolerance,       \* reentry_tolerance_pips (G5)
    MinSlDistance,   \* min_sl_distance_pips (G1), 0 disables it
    MaxReentryDistance, \* max_reentry_distance_pips (G7), 0 disables it
    DbFaultAt,       \* the commits that may fail
    MaxArrivals,     \* bound: messages handled
    MaxCrashes,      \* bound: kills of the process
    MaxDbFaults,     \* bound: failed commits
    None             \* no signal, no level, no price

Open == {"pending", "partial"}
Closed == {"completed", "expired"}
Lifecycle == Open \cup Closed
PlanStatus == {"pending", "executed", "cancelled"}
CommitSites == {"order", "register", "plans", "status", "expire"}

ASSUME ReentryAssumption ==
    /\ Levels \subseteq Nat /\ IsFiniteSet(Levels)
    /\ Prices \subseteq Int /\ Prices # {}
    /\ Side \in [Signals -> {"BUY", "SELL"}]
    /\ LevelPrice \in [Signals -> [Levels -> Int]]
    /\ StopLoss \in [Signals -> Int]
    /\ Immediate \in [Signals -> SUBSET Levels]
    /\ Spread \in Nat /\ Tolerance \in Nat
    /\ SignalTtl \in Nat /\ Debounce \in Nat
    /\ MinSlDistance \in Nat /\ MaxReentryDistance \in Nat
    /\ DbFaultAt \subseteq CommitSites
    /\ MaxArrivals \in Nat /\ MaxCrashes \in Nat /\ MaxDbFaults \in Nat
    /\ None \notin Signals /\ None \notin Levels /\ None \notin Int

VARIABLES
    \* SignalStateManager._active: status ("none": no entry), plan statuses,
    \* last_price, and the ticks left until expires_at
    mem, plans, last, ttl,
    \* RangeMonitor._last_trigger: ticks of debounce left
    cool,
    \* the active_signals table
    row, rowPlans, rowTtl,
    \* where the running handler is, and its local variables
    at,        \* the point it has reached, "idle" between handlers
    back,      \* where it goes on after a commit
    sig, lvl,  \* the signal and the level it works on
    tick,      \* the reference tick of the poll
    prev,      \* last_price of sig when the poll came to it (history only)
    todo,      \* the <<signal, level>> pairs it still has to visit
    due,       \* the signals expire_old still has to visit
    draft,     \* plan statuses of the signal that is being registered
    \* the world
    price,     \* the bid
    entries,   \* entries[s][l]: orders the broker accepted for the level
               \* since the signal was registered (history only)
    arrivals, crashes, dbFaults

memory == <<mem, plans, last, ttl, cool>>
table == <<row, rowPlans, rowTtl>>
control == <<at, back, sig, lvl, tick, prev, todo, due, draft>>
world == <<price, entries, arrivals, crashes, dbFaults>>
vars == <<memory, table, control, world>>

NoPlans == [l \in Levels |-> "pending"]
Points == {"idle", "entry", "scan", "levels", "reentry", "savePlans",
           "saveStatus", "expire", "down"}

TypeOK ==
    /\ mem \in [Signals -> Lifecycle \cup {"none"}]
    /\ plans \in [Signals -> [Levels -> PlanStatus]]
    /\ last \in [Signals -> Int \cup {None}]
    /\ ttl \in [Signals -> Nat]
    /\ cool \in [Signals -> [Levels -> Nat]]
    /\ row \in [Signals -> Lifecycle \cup {"none"}]
    /\ rowPlans \in [Signals -> [Levels -> PlanStatus]]
    /\ rowTtl \in [Signals -> Nat]
    /\ at \in Points
    /\ back \in {"idle", "scan", "levels"}
    /\ sig \in Signals \cup {None}
    /\ lvl \in Levels \cup {None}
    /\ tick \in Int \cup {None}
    /\ prev \in Int \cup {None}
    /\ todo \subseteq Signals \X Levels
    /\ due \subseteq Signals
    /\ draft \in [Levels -> PlanStatus]
    /\ price \in Prices
    /\ entries \in [Signals -> [Levels -> Nat]]
    /\ arrivals \in Nat /\ crashes \in Nat /\ dbFaults \in Nat

Init ==
    /\ mem = [s \in Signals |-> "none"]
    /\ plans = [s \in Signals |-> NoPlans]
    /\ last = [s \in Signals |-> None]
    /\ ttl = [s \in Signals |-> 0]
    /\ cool = [s \in Signals |-> [l \in Levels |-> 0]]
    /\ row = [s \in Signals |-> "none"]
    /\ rowPlans = [s \in Signals |-> NoPlans]
    /\ rowTtl = [s \in Signals |-> 0]
    /\ at = "idle" /\ back = "idle" /\ sig = None /\ lvl = None
    /\ tick = None /\ prev = None /\ todo = {} /\ due = {} /\ draft = NoPlans
    /\ price \in Prices
    /\ entries = [s \in Signals |-> [l \in Levels |-> 0]]
    /\ arrivals = 0 /\ crashes = 0 /\ dbFaults = 0

-----------------------------------------------------------------------------
(* Definitions shared by the handlers                                      *)

Distance(a, b) == IF a >= b THEN a - b ELSE b - a

\* The side of the book a signal is compared with: ask for BUY, bid for SELL.
RefPrice(s, bid) == IF Side[s] = "BUY" THEN bid + Spread ELSE bid

\* _update_lifecycle: the status a signal has once its plans are ps.
Recomputed(status, ps) ==
    IF \A l \in Levels : ps[l] # "pending" THEN "completed"
    ELSE IF \E l \in Levels : ps[l] = "executed" THEN "partial"
    ELSE status

CancelEvery(ps) == [l \in Levels |-> "cancelled"]
CancelPending(ps) ==
    [l \in Levels |-> IF ps[l] = "pending" THEN "cancelled" ELSE ps[l]]

\* _is_price_crossing, with the tolerance of G5 on the side of the approach.
Crosses(s, l, from, to) ==
    LET trigger == LevelPrice[s][l]
    IN  IF Side[s] = "BUY"
        THEN from > trigger + Tolerance /\ to <= trigger + Tolerance
        ELSE from < trigger - Tolerance /\ to >= trigger - Tolerance

SlBreached(s, ref) ==
    IF Side[s] = "BUY" THEN ref <= StopLoss[s] ELSE ref >= StopLoss[s]

TooCloseToSl(s, bid) ==
    /\ MinSlDistance > 0
    /\ Distance(RefPrice(s, bid), StopLoss[s]) < MinSlDistance

TooFarFromLevel(s, l, bid) ==
    /\ MaxReentryDistance > 0
    /\ Distance(RefPrice(s, bid), LevelPrice[s][l]) > MaxReentryDistance

\* The broker takes a market order only if its stop is on the losing side.
BrokerTakes(s) == ~SlBreached(s, RefPrice(s, price))

Go(point) == at' = point
Finished ==
    /\ at' = "idle" /\ back' = "idle" /\ sig' = None /\ lvl' = None
    /\ tick' = None /\ prev' = None /\ todo' = {} /\ due' = {}
    /\ draft' = NoPlans

-----------------------------------------------------------------------------
(* Arrival of a multi-order signal: Pipeline._execute_multi and            *)
(* SignalStateManager.register.                                            *)

\* G1 looks at the price of the call only, so it skips every plan or none.
Arrive(s) ==
    /\ at = "idle"
    /\ arrivals < MaxArrivals
    /\ ~TooCloseToSl(s, price)
    /\ arrivals' = arrivals + 1
    /\ at' = "entry" /\ sig' = s
    /\ todo' = {s} \X Immediate[s]
    /\ draft' = NoPlans
    /\ UNCHANGED <<memory, table, back, lvl, tick, prev, due,
                   price, entries, crashes, dbFaults>>

\* One immediate plan is sent.  A refused one keeps its status "pending".
ExecuteImmediate(l) ==
    /\ at = "entry"
    /\ <<sig, l>> \in todo
    /\ todo' = todo \ {<<sig, l>>}
    /\ draft' \in {draft, [draft EXCEPT ![l] = "executed"]}
    /\ UNCHANGED <<memory, table, at, back, sig, lvl, tick, prev, due, world>>

Deferred(s) == Levels \ Immediate[s]

RegisterMayFail == "register" \in DbFaultAt /\ dbFaults < MaxDbFaults

\* All plans are registered, executed ones included, if some are deferred and
\* the fingerprint is not tracked already: INSERT OR REPLACE, status pending.
\* The memory is filled first, and keeps the signal if the commit fails.
Register ==
    /\ at = "entry" /\ todo = {}
    /\ IF Deferred(sig) # {} /\ mem[sig] = "none"
       THEN /\ mem' = [mem EXCEPT ![sig] = "pending"]
            /\ plans' = [plans EXCEPT ![sig] = draft]
            /\ last' = [last EXCEPT ![sig] = None]
            /\ ttl' = [ttl EXCEPT ![sig] = SignalTtl]
            /\ entries' = [entries EXCEPT ![sig] =
                   [l \in Levels |-> IF draft[l] = "executed" THEN 1 ELSE 0]]
            /\ \/ /\ row' = [row EXCEPT ![sig] = "pending"]
                  /\ rowPlans' = [rowPlans EXCEPT ![sig] = draft]
                  /\ rowTtl' = [rowTtl EXCEPT ![sig] = SignalTtl]
                  /\ UNCHANGED dbFaults
               \/ /\ RegisterMayFail
                  /\ dbFaults' = dbFaults + 1
                  /\ UNCHANGED table
       ELSE UNCHANGED <<mem, plans, last, ttl, table, entries, dbFaults>>
    /\ Finished
    /\ UNCHANGED <<cool, price, arrivals, crashes>>

-----------------------------------------------------------------------------
(* The poll of RangeMonitor                                                *)

PendingOrNot(s) == {l \in Levels : mem[s] \in Open /\ ttl[s] > 0}
Pending(s) ==
    {l \in Levels : mem[s] \in Open /\ ttl[s] > 0 /\ plans[s][l] = "pending"}

\* get_pending_reentries takes a snapshot.  The tick may be unavailable: the
\* symbol is skipped.  Signals past their deadline are left to expire_old.
PollStart ==
    /\ at = "idle"
    /\ \/ tick' = price /\ todo' = UNION {{s} \X Pending(s) : s \in Signals}
       \/ tick' = None /\ todo' = {}
    /\ Go("scan")
    /\ UNCHANGED <<memory, table, back, sig, lvl, prev, due, draft, world>>

\* A signal whose stop is breached (G11) has its plans cancelled; the levels
\* of another one are checked one by one.
ScanSignal(s) ==
    /\ at = "scan"
    /\ \E l \in Levels : <<s, l>> \in todo
    /\ sig' = s /\ lvl' = None
    /\ IF SlBreached(s, RefPrice(s, tick))
       THEN /\ todo' = todo \ ({s} \X Levels)
            /\ plans' = [plans EXCEPT ![s] = CancelPending(@)]
            /\ mem' = [mem EXCEPT ![s] = Recomputed(@, plans'[s])]
            /\ Go("savePlans") /\ back' = "scan" /\ prev' = None
       ELSE /\ Go("levels") /\ prev' = last[s]
            /\ UNCHANGED <<mem, plans, todo, back>>
    /\ UNCHANGED <<last, ttl, cool, table, tick, due, draft, world>>

\* The first look after a registration or a restart has nothing to compare.
HitAtFirstLook(s, l, ref) == last[s] = None \/ Crosses(s, l, last[s], ref)
Hit(s, l, ref) == last[s] # None /\ Crosses(s, l, last[s], ref)

\* _check_reentries looks at the plans of the signal in their order.  Each
\* look stores the reference price, and starts a re-entry if the price stored
\* before was on the other side of the level and the level is not debounced.
CheckLevel(l) ==
    LET ref == RefPrice(sig, tick)
    IN  /\ at = "levels"
        /\ <<sig, l>> \in todo
        /\ \A m \in Levels : <<sig, m>> \in todo => l <= m
        /\ todo' = todo \ {<<sig, l>>}
        /\ last' = [last EXCEPT ![sig] = ref]
        /\ IF Hit(sig, l, ref) /\ cool[sig][l] = 0
           THEN /\ cool' = [cool EXCEPT ![sig][l] = Debounce]
                /\ lvl' = l /\ Go("reentry")
           ELSE UNCHANGED <<cool, lvl, at>>
        /\ UNCHANGED <<mem, plans, ttl, table, back, sig, tick, prev, due,
                       draft, world>>

SignalScanned ==
    /\ at = "levels"
    /\ \A l \in Levels : <<sig, l>> \notin todo
    /\ Go("scan") /\ sig' = None /\ lvl' = None /\ prev' = None
    /\ UNCHANGED <<memory, table, back, tick, todo, due, draft, world>>

OverduePending(s) == mem[s] = "pending" /\ ttl[s] = 0
Overdue(s) == mem[s] \in Open /\ ttl[s] = 0

\* After the last signal the loop calls expire_old.
PollExpire ==
    /\ at = "scan" /\ todo = {}
    /\ due' = {s \in Signals : Overdue(s)}
    /\ Go("expire") /\ sig' = None /\ lvl' = None /\ tick' = None
    /\ UNCHANGED <<memory, table, back, prev, todo, draft, world>>

\* An overdue signal is closed as expired.  Only the status is written, the
\* plans of the row stay as they are.
ExpireSignal(s) ==
    /\ at = "expire" /\ s \in due
    /\ due' = due \ {s}
    /\ plans' = [plans EXCEPT ![s] = CancelPending(@)]
    /\ mem' = [mem EXCEPT ![s] = "expired"]
    /\ row' = IF row[s] = "none" THEN row ELSE [row EXCEPT ![s] = "expired"]
    /\ UNCHANGED <<last, ttl, cool, rowPlans, rowTtl, at, back, sig, lvl, tick,
                   prev, todo, draft, world>>

GoneIfCompleted(s) == mem[s] = "completed"
Gone(s) == mem[s] \in Closed

\* Completed and expired signals leave the registry, and the poll is over.
PollEnd ==
    /\ at = "expire" /\ due = {}
    /\ mem' = [s \in Signals |-> IF Gone(s) THEN "none" ELSE mem[s]]
    /\ plans' = [s \in Signals |-> IF Gone(s) THEN NoPlans ELSE plans[s]]
    /\ last' = [s \in Signals |-> IF Gone(s) THEN None ELSE last[s]]
    /\ ttl' = [s \in Signals |-> IF Gone(s) THEN 0 ELSE ttl[s]]
    /\ Finished
    /\ UNCHANGED <<cool, table, world>>

-----------------------------------------------------------------------------
(* Pipeline.handle_reentry for <<sig, lvl>>, called by the poll            *)

\* The verdict on <<sig, lvl>> is recorded in memory, to be saved next.
SettleNothing(status) ==
    /\ Go("levels")
    /\ UNCHANGED <<memory, table, back, sig, lvl, tick, prev, todo, due, draft>>
SettleLevel(status) ==
    /\ plans' = [plans EXCEPT ![sig][lvl] = status]
    /\ mem' = [mem EXCEPT ![sig] = Recomputed(@, plans'[sig])]
    /\ Go("savePlans") /\ back' = "levels"
    /\ UNCHANGED <<last, ttl, cool, table, sig, lvl, tick, prev, todo, due,
                   draft>>

\* A guard refuses, G1 or G7 refuses, the volume is 0, or order_send fails:
\* the level is cancelled for good.
ReentryRejected ==
    /\ at = "reentry"
    /\ SettleLevel("cancelled")
    /\ UNCHANGED world

\* No fresh tick: the handler returns and the level stays pending.
ReentryNoTick ==
    /\ at = "reentry"
    /\ Go("levels")
    /\ UNCHANGED <<memory, table, back, sig, lvl, tick, prev, todo, due,
                   draft, world>>

\* The order is sent at the fresh price and the broker takes it.
ReentryAccepted ==
    /\ at = "reentry"
    /\ ~TooCloseToSl(sig, price)
    /\ ~TooFarFromLevel(sig, lvl, price)
    /\ BrokerTakes(sig)
    /\ entries' = [entries EXCEPT ![sig][lvl] = @ + 1]
    /\ SettleLevel("executed")
    /\ UNCHANGED <<price, arrivals, crashes, dbFaults>>

-----------------------------------------------------------------------------
(* Replies that stop a signal: CANCEL, a SECURE_PROFIT that secured, a     *)
(* selective CLOSE                                                         *)

CancelAllPending(s) ==
    /\ at = "idle"
    /\ mem[s] # "none"
    /\ \E l \in Levels : plans[s][l] = "pending"
    /\ plans' = [plans EXCEPT ![s] = CancelPending(@)]
    /\ mem' = [mem EXCEPT ![s] = Recomputed(@, plans'[s])]
    /\ Go("savePlans") /\ back' = "idle" /\ sig' = s
    /\ UNCHANGED <<last, ttl, cool, table, lvl, tick, prev, todo, due, draft,
                   world>>

-----------------------------------------------------------------------------
(* _persist_plans: two UPDATE statements, each with its commit             *)

Return(point) ==
    IF point = "idle" THEN Finished
    ELSE Go(point) /\ UNCHANGED <<back, sig, lvl, tick, prev, todo, due, draft>>

SavePlans ==
    /\ at = "savePlans"
    /\ rowPlans' = IF row[sig] = "none" THEN rowPlans
                   ELSE [rowPlans EXCEPT ![sig] = plans[sig]]
    /\ Go("saveStatus")
    /\ UNCHANGED <<memory, row, rowTtl, back, sig, lvl, tick, prev, todo, due,
                   draft, world>>

SaveStatusOfCompleted ==
    /\ at = "saveStatus"
    /\ row' = IF mem[sig] = "completed" THEN [row EXCEPT ![sig] = mem[sig]] ELSE row
    /\ Return(back)
    /\ UNCHANGED <<memory, rowPlans, rowTtl, world>>
SaveStatus ==
    /\ at = "saveStatus"
    /\ row' = IF row[sig] = "none" THEN row
              ELSE [row EXCEPT ![sig] = mem[sig]]
    /\ Return(back)
    /\ UNCHANGED <<memory, rowPlans, rowTtl, world>>

\* A commit fails for good (the retries of _execute_with_retry are used up):
\* of the plans, the status, or the record of an immediate order.  The
\* exception is swallowed around handle_reentry, and ends the poll or the
\* handler elsewhere; the memory keeps what the table did not take.
DbFault ==
    /\ \/ at = "savePlans" /\ "plans" \in DbFaultAt
       \/ at = "saveStatus" /\ "status" \in DbFaultAt
       \/ at = "entry" /\ "order" \in DbFaultAt /\ todo # {sig} \X Immediate[sig]
    /\ dbFaults < MaxDbFaults
    /\ dbFaults' = dbFaults + 1
    /\ Return(IF back = "levels" THEN "levels" ELSE "idle")
    /\ UNCHANGED <<memory, table, price, entries, arrivals, crashes>>

\* The same in expire_old: the loop is left before the registry is cleaned.
DbFaultInExpire(s) ==
    /\ at = "expire" /\ "expire" \in DbFaultAt
    /\ s \in due
    /\ dbFaults < MaxDbFaults
    /\ dbFaults' = dbFaults + 1
    /\ plans' = [plans EXCEPT ![s] = CancelPending(@)]
    /\ mem' = [mem EXCEPT ![s] = "expired"]
    /\ Finished
    /\ UNCHANGED <<last, ttl, cool, table, price, entries, arrivals, crashes>>

-----------------------------------------------------------------------------
(* The process and the world                                               *)

Crash ==
    /\ at # "down"
    /\ crashes < MaxCrashes
    /\ crashes' = crashes + 1
    /\ mem' = [s \in Signals |-> "none"]
    /\ plans' = [s \in Signals |-> NoPlans]
    /\ last' = [s \in Signals |-> None]
    /\ ttl' = [s \in Signals |-> 0]
    /\ cool' = [s \in Signals |-> [l \in Levels |-> 0]]
    /\ at' = "down" /\ back' = "idle" /\ sig' = None /\ lvl' = None
    /\ tick' = None /\ prev' = None /\ todo' = {} /\ due' = {}
    /\ draft' = NoPlans
    /\ UNCHANGED <<table, price, entries, arrivals, dbFaults>>

RestoredAnyStatus(s) == IF row[s] = "none" THEN "none" ELSE "pending"
RestoredStatus(s) == IF row[s] \in Open THEN row[s] ELSE "none"

RestoredFresh(s) == NoPlans
RestoredPlans(s) == IF row[s] \in Open THEN rowPlans[s] ELSE NoPlans

\* rebuild_from_db: the open rows, with their plans; last_price is not stored.
Restart ==
    /\ at = "down"
    /\ mem' = [s \in Signals |-> RestoredStatus(s)]
    /\ plans' = [s \in Signals |-> RestoredPlans(s)]
    /\ ttl' = [s \in Signals |-> IF row[s] \in Open THEN rowTtl[s] ELSE 0]
    /\ Go("idle")
    /\ UNCHANGED <<last, cool, table, back, sig, lvl, tick, prev, todo, due,
                   draft, world>>

PriceMove ==
    /\ price' \in Prices \ {price}
    /\ UNCHANGED <<memory, table, control, entries, arrivals, crashes, dbFaults>>

LessUnbounded(n) == n - 1
Less(n) == IF n = 0 THEN 0 ELSE n - 1

\* One tick of time.  Deadlines pass while the process is down, too.
Tick ==
    /\ ttl' = [s \in Signals |-> Less(ttl[s])]
    /\ rowTtl' = [s \in Signals |-> Less(rowTtl[s])]
    /\ cool' = [s \in Signals |-> [l \in Levels |-> Less(cool[s][l])]]
    /\ UNCHANGED <<mem, plans, last, row, rowPlans, control, world>>

-----------------------------------------------------------------------------
Reenter == ReentryRejected \/ ReentryNoTick \/ ReentryAccepted

\* The steps of a handler that has started.
Handler ==
    \/ \E l \in Levels : ExecuteImmediate(l) \/ CheckLevel(l)
    \/ Register
    \/ \E s \in Signals : ScanSignal(s) \/ ExpireSignal(s)
    \/ SignalScanned \/ PollExpire \/ PollEnd
    \/ Reenter
    \/ SavePlans \/ SaveStatus

Next ==
    \/ Handler
    \/ PollStart
    \/ \E s \in Signals : Arrive(s) \/ CancelAllPending(s) \/ DbFaultInExpire(s)
    \/ DbFault
    \/ Crash \/ Restart
    \/ PriceMove \/ Tick

Spec == Init /\ [][Next]_vars

\* The loop goes on with a handler it has started and polls again and again,
\* a supervisor restarts the process, and time passes.
FairSpec ==
    /\ Spec
    /\ WF_vars(Handler) /\ WF_vars(PollStart) /\ WF_vars(Restart)
    /\ WF_vars(Tick)

-----------------------------------------------------------------------------
(* Safety                                                                  *)

\* What the table says of a level is never ahead of the memory: a level that
\* is settled in the row of a tracked signal has the same status in memory.
\* So no later save takes a settled level back (_persist_plans writes all).
TableNeverAhead ==
    \A s \in Signals, l \in Levels :
        mem[s] # "none" /\ rowPlans[s][l] # "pending"
            => plans[s][l] = rowPlans[s][l]

\* A signal that can still enter the market has a row that a restart loads
\* (unless the commit of its registration failed).
OpenIsDurable == \A s \in Signals : mem[s] \in Open => row[s] \in Open

\* Between handlers the registry and the table tell the same story, if no
\* commit fails: the same status, plans and deadline for a tracked signal,
\* and no open row for one that is not tracked.
TableMatchesMemory ==
    at = "idle" =>
        \A s \in Signals :
            IF mem[s] = "none" THEN row[s] \notin Open
            ELSE /\ row[s] = mem[s] /\ rowPlans[s] = plans[s]
                 /\ rowTtl[s] = ttl[s]

\* A level is entered once.  Only a kill of the process, between the broker's
\* answer and the commit, can make the same level enter again: the failure of
\* a commit alone, or a repeated message, cannot.
OneEntryPerLevel ==
    \A s \in Signals, l \in Levels : entries[s][l] <= 1 + crashes

\* handle_reentry sends an order only for a level that is pending in an open
\* row: never after the level was executed, or cancelled by a reply, a guard
\* or a breached stop, and recorded so, whatever restarts lie in between.
NoEntryOnSettledLevel ==
    [][\A s \in Signals, l \in Levels :
          at = "reentry" /\ entries'[s][l] # entries[s][l]
              => row[s] \in Open /\ rowPlans[s][l] = "pending"]_vars

\* A re-entry starts only if the price was on the other side of the level when
\* the previous poll looked: the first look after a registration or a restart
\* starts none, and neither does the look at a later level of the same signal,
\* which compares the price with itself.
TriggerNeedsCrossing ==
    [][at = "levels" /\ at' = "reentry"
          => prev # None /\ Crosses(sig, lvl', prev, RefPrice(sig, tick))]_vars

-----------------------------------------------------------------------------
(* Liveness                                                                *)

\* An open row is closed in the end, unless a commit fails: no signal stays
\* restorable for ever.
RowCloses ==
    \A s \in Signals : row[s] \in Open ~> row[s] \in Closed \/ dbFaults > 0

\* The registry does not leak: a tracked signal is dropped in the end, even
\* if commits fail.
RegistryDrains == \A s \in Signals : mem[s] # "none" ~> mem[s] = "none"

-----------------------------------------------------------------------------
(* The table as the abstract lifecycle of a signal                         *)

Durable == INSTANCE SignalLifecycle WITH life <- row, levels <- rowPlans

\* The sequence of commits is a behaviour of the abstract lifecycle: statuses
\* only move forward, a settled level stays settled, kills and restarts are
\* invisible (if no commit fails).
DurableLifecycle == Durable!Spec

=============================================================================
