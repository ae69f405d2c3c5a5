---------------------------- MODULE GroupManager ----------------------------
(***************************************************************************)
(* Order groups: PositionManager and the replies, edits and deletions that *)
(* main.py routes to it.                                                   *)
(*                                                                         *)
(* The orders a signal places are registered as a group, in memory and in  *)
(* the signal_groups table.  A poll moves the stops of the group together, *)
(* manages positions outside any group one by one, and completes a group   *)
(* none of whose orders is a position.  Replies close and protect parts of *)
(* a group; a reply, an edit or a deletion cancels its unfilled orders; a  *)
(* re-entry joins the group of its signal; a restart rebuilds the groups   *)
(* from the table.                                                         *)
(*                                                                         *)
(* Handlers do not interleave with each other, they interleave with the    *)
(* broker, with kills of the process and with failed commits.  A handler   *)
(* is cut where it places an order, commits, or goes on to another object. *)
(*                                                                         *)
(* Simplifications: prices are in pips, in the direction of the trade      *)
(* (those of a SELL are counted down from a fixed one), so that higher is  *)
(* better for every group, and there is no spread; all groups are on one   *)
(* symbol; the level a group records for an order is the price it fills    *)
(* at; a fingerprint arrives once (duplicates are refused before an order  *)
(* is placed); the levels of a signal that wait for re-entry are a number  *)
(* (module Reentry has their detail); the broker may refuse any request.   *)
(*                                                                         *)
(* Where a property's power is in doubt, a definition is preceded by a     *)
(* variant of it with a plausible bug, which the property must reject.     *)
(***************************************************************************)
EXTENDS Integers, FiniteSets

CONSTANTS
    Groups,          \* base fingerprints
    MaxTickets,      \* bound: orders the broker accepts, over all groups
    Prices,          \* prices
    SignalSl,        \* SignalSl[g]: the stop in the signal, the stop of orders
    ZoneSl,          \* ZoneSl[g]: the zone's low end less sl_max_pips_from_zone
    SlMode,          \* SlMode[g]: "signal", "zone" or "fixed"
    FixedPips,       \* sl_max_pips_from_zone in mode "fixed"
    GroupTrailing,   \* GroupTrailing[g]: group_trailing_pips, 0 disables it
    BeOnPartial,     \* BeOnPartial[g]: group_be_on_partial_close
    CloseStrategy,   \* CloseStrategy[g]: reply_close_strategy
    ReplyLock,       \* reply_be_lock_pips
    BeTrigger, BeLock, \* breakeven_trigger_pips (0 disables it) and _lock_pips
    Trailing,        \* trailing_stop_pips, 0 disables it
    TakeProfit,      \* TakeProfit[g]: the first target of the signal
    PartialPercent,  \* partial_close_percent, 0 disables it
    Lots,            \* volume of an order, in steps of the symbol's minimum
    MaxDeferred,     \* bound: levels of a signal that wait for re-entry
    MaxOrders,       \* bound: orders placed when a signal arrives
    MaxCrashes,      \* bound: kills of the process
    MaxDbFaults,     \* bound: failed commits
    None             \* no group, no stop

Tickets == 1..MaxTickets

ASSUME GroupManagerAssumption ==
    /\ IsFiniteSet(Groups) /\ MaxTickets \in Nat
    /\ Prices \subseteq Nat /\ Prices # {}
    /\ SignalSl \in [Groups -> Int \cup {None}]
    /\ ZoneSl \in [Groups -> Int \cup {None}]
    /\ SlMode \in [Groups -> {"signal", "zone", "fixed"}]
    /\ FixedPips \in Nat /\ GroupTrailing \in [Groups -> Nat]
    /\ BeOnPartial \in [Groups -> BOOLEAN]
    /\ CloseStrategy \in [Groups -> {"all", "highest_entry", "lowest_entry", "oldest"}]
    /\ ReplyLock \in Nat /\ BeTrigger \in Nat /\ BeLock \in Nat
    /\ Trailing \in Nat /\ TakeProfit \in [Groups -> Int]
    /\ PartialPercent \in 0..100 /\ Lots \in Nat \ {0}
    /\ MaxDeferred \in Nat /\ MaxOrders \in Nat
    /\ MaxCrashes \in Nat /\ MaxDbFaults \in Nat
    /\ None \notin Groups /\ None \notin Int

VARIABLES
    \* PositionManager: _groups (status, tickets, current_group_sl),
    \* _ticket_to_group, _breakeven_applied and _partially_closed
    group, tickets, groupSl, routed, beDone, parted,
    \* the signal_groups table
    row, rowTickets, rowSl,
    \* the orders table and the levels that wait for re-entry
    owner,     \* owner[t]: the signal an order is recorded for
    deferred,  \* deferred[g]
    seen,      \* the signals that arrived
    \* where the running handler is, and its local variables
    at,
    sig,       \* the group it works on
    fresh,     \* the orders it has placed, the last of which is unrecorded
    open,      \* the positions the poll saw
    todo,      \* groups the poll still has to manage
    alone,     \* positions it still has to manage one by one
    \* the broker
    order,     \* order[t]: "none", "pending", "open" (a position) or "closed"
    entry,     \* entry[t]: the price of the order
    stop,      \* stop[t]: its stop
    lots,      \* lots[t]: its volume
    price,
    sent,      \* tickets given so far
    letGo,     \* orders a group forgot although they stayed (history only)
    crashes, dbFaults

managed == <<group, tickets, groupSl, routed>>
rules == <<beDone, parted>>
table == <<row, rowTickets, rowSl>>
records == <<owner, deferred, seen>>
control == <<at, sig, fresh, open, todo, alone>>
broker == <<order, entry, stop, lots, price, sent>>
bounds == <<letGo, crashes, dbFaults>>
vars == <<managed, rules, table, records, control, broker, bounds>>

Stop == Int \cup {None}
Status == {"none", "active", "completed"}
Points == {"idle", "entry", "record", "register", "joinRecord", "join", "poll",
           "groupBe", "cancelPlans", "cancelPending", "closeAll", "down"}

TypeOK ==
    /\ group \in [Groups -> Status]
    /\ tickets \in [Groups -> SUBSET Tickets]
    /\ groupSl \in [Groups -> Stop]
    /\ routed \in [Tickets -> Groups \cup {None}]
    /\ beDone \subseteq Tickets /\ parted \subseteq Tickets
    /\ row \in [Groups -> Status]
    /\ rowTickets \in [Groups -> SUBSET Tickets]
    /\ rowSl \in [Groups -> Stop]
    /\ owner \in [Tickets -> Groups \cup {None}]
    /\ deferred \in [Groups -> 0..MaxDeferred]
    /\ seen \subseteq Groups
    /\ at \in Points
    /\ sig \in Groups \cup {None}
    /\ fresh \subseteq Tickets /\ open \subseteq Tickets
    /\ todo \subseteq Groups /\ alone \subseteq Tickets
    /\ order \in [Tickets -> {"none", "pending", "open", "closed"}]
    /\ entry \in [Tickets -> Nat]
    /\ stop \in [Tickets -> Stop]
    /\ lots \in [Tickets -> 0..Lots]
    /\ price \in Prices
    /\ sent \in 0..MaxTickets
    /\ letGo \subseteq Tickets
    /\ crashes \in Nat /\ dbFaults \in Nat

Init ==
    /\ group = [g \in Groups |-> "none"]
    /\ tickets = [g \in Groups |-> {}]
    /\ groupSl = [g \in Groups |-> None]
    /\ routed = [t \in Tickets |-> None]
    /\ beDone = {} /\ parted = {}
    /\ row = [g \in Groups |-> "none"]
    /\ rowTickets = [g \in Groups |-> {}]
    /\ rowSl = [g \in Groups |-> None]
    /\ owner = [t \in Tickets |-> None]
    /\ deferred = [g \in Groups |-> 0]
    /\ seen = {}
    /\ at = "idle" /\ sig = None
    /\ fresh = {} /\ open = {} /\ todo = {} /\ alone = {}
    /\ order = [t \in Tickets |-> "none"]
    /\ entry = [t \in Tickets |-> 0]
    /\ stop = [t \in Tickets |-> None]
    /\ lots = [t \in Tickets |-> 0]
    /\ price \in Prices
    /\ sent = 0
    /\ letGo = {} /\ crashes = 0 /\ dbFaults = 0

-----------------------------------------------------------------------------
(* Definitions shared by the handlers                                      *)

IsOpen(t) == order[t] = "open"
OpenOf(g) == {t \in tickets[g] : IsOpen(t)}

LeastOf(S) == CHOOSE x \in S : \A y \in S : x <= y
MostOf(S) == CHOOSE x \in S : \A y \in S : x >= y

\* a is a better stop than b; a position without one takes any.
Better(a, b) == b = None \/ a > b

\* A request that moves the stop of the positions in ts to sl, one order_send
\* each: the broker takes it for those in ok.
Moved(ts, sl, ok) ==
    /\ ok \subseteq ts
    /\ ok # {} => sl < price
    /\ stop' = [t \in Tickets |-> IF t \in ok THEN sl ELSE stop[t]]

CanFail == dbFaults < MaxDbFaults

\* A commit to the table of groups that may fail; the failure is swallowed.
Commits(change) ==
    \/ change /\ UNCHANGED dbFaults
    \/ CanFail /\ dbFaults' = dbFaults + 1 /\ UNCHANGED table

Go(point) == at' = point
Finished ==
    at' = "idle" /\ sig' = None /\ fresh' = {} /\ open' = {} /\ todo' = {} /\ alone' = {}

-----------------------------------------------------------------------------
(* Arrival of a signal: Pipeline.execute_signal_plans                      *)

Arrive(g) ==
    /\ at = "idle" /\ g \notin seen
    /\ seen' = seen \cup {g}
    /\ Go("entry") /\ sig' = g
    /\ UNCHANGED <<managed, rules, table, owner, deferred, fresh, open, todo,
                   alone, broker, bounds>>

\* The broker accepts an order of signal g, with the stop of the signal: a
\* market order becomes a position, a limit order waits below the price.
Accepted(g, status, level) ==
    LET t == sent + 1
    IN  /\ sent < MaxTickets
        /\ SignalSl[g] # None => SignalSl[g] < level
        /\ sent' = t
        /\ order' = [order EXCEPT ![t] = status]
        /\ entry' = [entry EXCEPT ![t] = level]
        /\ stop' = [stop EXCEPT ![t] = SignalSl[g]]
        /\ lots' = [lots EXCEPT ![t] = Lots]
        /\ fresh' = fresh \cup {t}
        /\ UNCHANGED price

PlaceEntry ==
    /\ at = "entry"
    /\ Cardinality(fresh) < MaxOrders
    /\ \/ Accepted(sig, "open", price)
       \/ \E level \in Prices : level < price /\ Accepted(sig, "pending", level)
    /\ Go("record")
    /\ UNCHANGED <<managed, rules, table, records, sig, open, todo, alone, bounds>>

\* store_order.  If the commit fails the handler is over: the order is at the
\* broker and the bot has no record of it.
Record(point, next) ==
    /\ at = point
    /\ \/ /\ owner' = [owner EXCEPT ![sent] = sig]
          /\ Go(next)
          /\ UNCHANGED <<sig, fresh, open, todo, alone, dbFaults>>
       \/ /\ CanFail /\ dbFaults' = dbFaults + 1
          /\ Finished
          /\ UNCHANGED owner
    /\ UNCHANGED <<managed, rules, table, deferred, seen, broker, letGo, crashes>>

RecordEntry == Record("record", "entry")

\* The other levels of the signal, if any, wait for the price.
Defer ==
    /\ at = "entry"
    /\ \E n \in 0..MaxDeferred : deferred' = [deferred EXCEPT ![sig] = n]
    /\ Go("register")
    /\ UNCHANGED <<managed, rules, table, owner, seen, sig, fresh, open, todo,
                   alone, broker, bounds>>

RegisterGroup ==
    /\ at = "register"
    /\ IF fresh # {} /\ group[sig] = "none"
       THEN /\ group' = [group EXCEPT ![sig] = "active"]
            /\ tickets' = [tickets EXCEPT ![sig] = fresh]
            /\ groupSl' = [groupSl EXCEPT ![sig] = None]
            /\ routed' = [t \in Tickets |-> IF t \in fresh THEN sig ELSE routed[t]]
            /\ Commits(/\ row' = [row EXCEPT ![sig] = "active"]
                       /\ rowTickets' = [rowTickets EXCEPT ![sig] = fresh]
                       /\ rowSl' = [rowSl EXCEPT ![sig] = None])
       ELSE UNCHANGED <<managed, table, dbFaults>>
    /\ Finished
    /\ UNCHANGED <<rules, records, broker, letGo, crashes>>

-----------------------------------------------------------------------------
(* Re-entries: the part of Pipeline.handle_reentry that places the order,  *)
(* and add_order_to_group                                                  *)

ReenterSettled(g) ==
    /\ at = "idle"
    /\ g \in seen
    /\ deferred' = [deferred EXCEPT ![g] = @ - 1]
    /\ Accepted(g, "open", price)
    /\ Go("joinRecord") /\ sig' = g
    /\ UNCHANGED <<managed, rules, table, owner, seen, open, todo, alone, bounds>>
Reenter(g) ==
    /\ at = "idle"
    /\ deferred[g] > 0
    /\ deferred' = [deferred EXCEPT ![g] = @ - 1]
    /\ Accepted(g, "open", price)
    /\ Go("joinRecord") /\ sig' = g
    /\ UNCHANGED <<managed, rules, table, owner, seen, open, todo, alone, bounds>>

\* Levels are cancelled by a guard, a refused order, the deadline or a breach.
LevelsDropped(g) ==
    /\ at = "idle"
    /\ \E n \in 0..MaxDeferred :
          n < deferred[g] /\ deferred' = [deferred EXCEPT ![g] = n]
    /\ UNCHANGED <<managed, rules, table, owner, seen, control, broker, bounds>>

RecordReentry == Record("joinRecord", "join")

RowTickets(g, ts) ==
    /\ rowTickets' = IF row[g] = "none" THEN rowTickets
                     ELSE [rowTickets EXCEPT ![g] = ts]
    /\ UNCHANGED <<row, rowSl>>

\* The order joins whatever group the registry has, active or completed.
JoinTableOnly ==
    /\ at = "join"
    /\ Commits(RowTickets(sig, tickets[sig] \cup fresh))
    /\ Finished
    /\ UNCHANGED <<managed, rules, records, broker, letGo, crashes>>
Join ==
    /\ at = "join"
    /\ IF group[sig] = "none"
       THEN UNCHANGED <<managed, table, dbFaults>>
       ELSE /\ tickets' = [tickets EXCEPT ![sig] = @ \cup fresh]
            /\ routed' = [t \in Tickets |-> IF t \in fresh THEN sig ELSE routed[t]]
            /\ UNCHANGED <<group, groupSl>>
            /\ Commits(RowTickets(sig, tickets'[sig]))
    /\ Finished
    /\ UNCHANGED <<rules, records, broker, letGo, crashes>>

-----------------------------------------------------------------------------
(* The poll: PositionManager._check_positions                              *)

\* Positions of active groups with a common trailing are managed by group;
\* those of a group without it, and those routed to no group, one by one.
PollStart ==
    /\ at = "idle"
    /\ open' = {t \in Tickets : IsOpen(t)}
    /\ todo' = {g \in Groups : /\ group[g] = "active" /\ GroupTrailing[g] > 0
                               /\ \E t \in open' : routed[t] = g}
    /\ alone' = {t \in open' :
                   \/ routed[t] = None
                   \/ \E g \in Groups : /\ group[g] = "active"
                                        /\ GroupTrailing[g] = 0
                                        /\ t \in tickets[g]
                                        /\ \E u \in open' : routed[u] = g}
    /\ Go("poll")
    /\ UNCHANGED <<managed, rules, table, records, sig, fresh, broker, bounds>>

BaseStops(g) ==
    CASE SlMode[g] = "signal" -> {SignalSl[g]} \ {None}
      [] SlMode[g] = "zone"   -> {ZoneSl[g]} \ {None}
      [] SlMode[g] = "fixed"  -> {LeastOf({entry[t] : t \in tickets[g]}) - FixedPips}

\* _calculate_group_sl: the best of the base stop, the trailing stop and the
\* current one.
GroupStop(g) ==
    MostOf(BaseStops(g) \cup {price - GroupTrailing[g]} \cup ({groupSl[g]} \ {None}))

RowSl(g, sl) ==
    /\ rowSl' = IF row[g] = "none" THEN rowSl ELSE [rowSl EXCEPT ![g] = sl]
    /\ UNCHANGED <<row, rowTickets>>

\* _modify_group_sl: the stop of the group is the new one as soon as one of
\* the positions ts has it.
ModifyGroupSl(g, ts, sl) ==
    \E ok \in SUBSET {t \in ts : IsOpen(t) /\ stop[t] # sl} :
        /\ Moved(ts, sl, ok)
        /\ IF ok # {} \/ \E t \in ts : stop[t] = sl
           THEN /\ groupSl' = [groupSl EXCEPT ![g] = sl]
                /\ Commits(RowSl(g, sl))
           ELSE UNCHANGED <<groupSl, table, dbFaults>>

WorthMovingAnyway(g, sl) == TRUE
WorthMoving(g, sl) == Better(sl, groupSl[g])

ManageGroup(g) ==
    /\ at = "poll" /\ g \in todo
    /\ todo' = todo \ {g}
    /\ IF WorthMoving(g, GroupStop(g))
       THEN ModifyGroupSl(g, tickets[g] \cap open, GroupStop(g))
       ELSE UNCHANGED <<stop, groupSl, table, dbFaults>>
    /\ UNCHANGED <<group, tickets, routed, rules, records, at, sig, fresh, open,
                   alone, order, entry, lots, price, sent, letGo, crashes>>

\* Rules for one position, all from what the poll saw of it: breakeven, then
\* trailing, then the partial close near the target.
BreakevenDue(t) ==
    /\ BeTrigger > 0 /\ t \notin beDone
    /\ price - entry[t] >= BeTrigger
    /\ Better(entry[t] + BeLock, stop[t])

TrailingDue(t) ==
    /\ Trailing > 0 /\ price > entry[t]
    /\ Better(price - Trailing, stop[t])
    /\ price - Trailing >= entry[t]

PartialDue(t) ==
    /\ PartialPercent > 0 /\ t \notin parted
    /\ price > entry[t]
    /\ \E g \in Groups : owner[t] = g /\ price \in (TakeProfit[g] - 1)..(TakeProfit[g] + 1)

\* Rounded to the volume step (to even at the half), at least one step.
PartialLots(v) ==
    LET whole == (v * PartialPercent) \div 100
        part == (v * PartialPercent) % 100
        up == part > 50 \/ (part = 50 /\ whole % 2 = 1)
    IN  MostOf({1, IF up THEN whole + 1 ELSE whole})

\* The broker closes n steps of a position, and the position with the last.
Reduced(t, n) ==
    /\ lots' = [lots EXCEPT ![t] = IF n < @ THEN @ - n ELSE 0]
    /\ order' = IF n < lots[t] THEN order ELSE [order EXCEPT ![t] = "closed"]

ManageAlone(t) ==
    /\ at = "poll" /\ todo = {} /\ t \in alone
    /\ alone' = alone \ {t}
    /\ \E be, trail, part \in BOOLEAN :
        /\ be => BreakevenDue(t) /\ IsOpen(t) /\ entry[t] + BeLock < price
        /\ trail => TrailingDue(t) /\ IsOpen(t)
        /\ part => PartialDue(t) /\ IsOpen(t)
        /\ stop' = [stop EXCEPT ![t] = IF trail THEN price - Trailing
                                       ELSE IF be THEN entry[t] + BeLock ELSE @]
        /\ beDone' = IF be THEN beDone \cup {t} ELSE beDone
        /\ parted' = IF part THEN parted \cup {t} ELSE parted
        /\ IF part THEN Reduced(t, PartialLots(lots[t])) ELSE UNCHANGED <<lots, order>>
    /\ UNCHANGED <<managed, table, records, at, sig, fresh, open, todo, entry,
                   price, sent, bounds>>

\* A group none of whose orders was seen as a position is completed.
OverWhenEmpty(g) == group[g] = "active" /\ tickets[g] = {}
Over(g) == group[g] = "active" /\ tickets[g] \cap open = {}

PollEnd ==
    LET over == {g \in Groups : Over(g)}
    IN  /\ at = "poll" /\ todo = {} /\ alone = {}
        /\ group' = [g \in Groups |-> IF g \in over THEN "completed" ELSE group[g]]
        /\ routed' = [t \in Tickets |->
               IF \E g \in over : t \in tickets[g] THEN None ELSE routed[t]]
        /\ \E lost \in SUBSET over :
              /\ Cardinality(lost) <= MaxDbFaults - dbFaults
              /\ dbFaults' = dbFaults + Cardinality(lost)
              /\ row' = [g \in Groups |->
                     IF g \in over \ lost /\ row[g] # "none" THEN "completed" ELSE row[g]]
        /\ Finished
        /\ UNCHANGED <<tickets, groupSl, rules, rowTickets, rowSl, records,
                       broker, letGo, crashes>>

\* Once a day: completed groups leave the registry after a while, and closed
\* positions the rules.  Positions the broker does not report count as closed.
Cleanup ==
    /\ at = "idle"
    /\ \E old \in SUBSET {g \in Groups : group[g] = "completed"},
          positions \in {{}, {t \in Tickets : IsOpen(t)}} :
        /\ group' = [g \in Groups |-> IF g \in old THEN "none" ELSE group[g]]
        /\ tickets' = [g \in Groups |-> IF g \in old THEN {} ELSE tickets[g]]
        /\ groupSl' = [g \in Groups |-> IF g \in old THEN None ELSE groupSl[g]]
        /\ beDone' = beDone \cap positions
        /\ parted' = parted \cap positions
    /\ UNCHANGED <<routed, table, records, control, broker, bounds>>

-----------------------------------------------------------------------------
(* Replies, edits and deletions: Bot._process_reply, _process_edit,        *)
(* _process_delete                                                         *)

\* A reply is looked up by the orders recorded for the message it answers.
Answers(g) == at = "idle" /\ \E t \in Tickets : owner[t] = g

\* The broker closes the position, or refuses.
Closes(t) ==
    \/ /\ order' = [order EXCEPT ![t] = "closed"]
       /\ lots' = [lots EXCEPT ![t] = 0]
    \/ UNCHANGED <<order, lots>>

HighestEntry(ts) == CHOOSE t \in ts : \A u \in ts : entry[t] >= entry[u]
LowestEntry(ts) == CHOOSE t \in ts : \A u \in ts : entry[t] <= entry[u]

Selected(g) ==
    CASE CloseStrategy[g] = "highest_entry" -> HighestEntry(OpenOf(g))
      [] CloseStrategy[g] = "lowest_entry" -> LowestEntry(OpenOf(g))
      [] CloseStrategy[g] = "oldest" -> LeastOf(OpenOf(g))

Selectable(g) ==
    group[g] = "active" /\ CloseStrategy[g] # "all" /\ OpenOf(g) # {}

\* CLOSE with a selective strategy: one position is closed, and breakeven
\* follows if others remain, whether or not the broker closed it.
CloseSelective(g) ==
    /\ Answers(g) /\ Selectable(g)
    /\ Closes(Selected(g))
    /\ Go(IF BeOnPartial[g] /\ OpenOf(g) # {Selected(g)} THEN "groupBe" ELSE "cancelPlans")
    /\ sig' = g
    /\ UNCHANGED <<managed, rules, table, records, fresh, open, todo, alone,
                   entry, stop, price, sent, bounds>>

\* apply_group_be: the lowest entry of the positions that are open now.
GroupBe ==
    LET ts == OpenOf(sig)
        be == LeastOf({entry[t] : t \in ts})
    IN  /\ at = "groupBe"
        /\ IF ts # {} /\ WorthMoving(sig, be)
           THEN ModifyGroupSl(sig, ts, be)
           ELSE UNCHANGED <<stop, groupSl, table, dbFaults>>
        /\ Go("cancelPlans")
        /\ UNCHANGED <<group, tickets, routed, rules, records, sig, fresh, open,
                       todo, alone, order, entry, lots, price, sent, letGo, crashes>>

\* SECURE_PROFIT: the worst entry is closed if there are several, and the
\* others are protected by its price; a single one by its own.
SecureProfit(g) ==
    LET worst == HighestEntry(OpenOf(g))
        rest == IF OpenOf(g) = {worst} THEN {worst} ELSE OpenOf(g) \ {worst}
        floor == entry[worst] + ReplyLock
    IN  /\ Answers(g) /\ group[g] = "active" /\ OpenOf(g) # {}
        /\ IF rest = {worst} THEN UNCHANGED <<order, lots>> ELSE Closes(worst)
        /\ \E ok \in SUBSET {t \in rest : Better(floor, stop[t])} : Moved(rest, floor, ok)
        /\ Go("cancelPlans") /\ sig' = g
        /\ UNCHANGED <<managed, rules, table, records, fresh, open, todo, alone,
                       entry, price, sent, bounds>>

\* CANCEL: unfilled orders are removed at the broker first.
CancelReply(g) ==
    /\ Answers(g)
    /\ \E ok \in SUBSET {t \in Tickets : owner[t] = g /\ order[t] = "pending"} :
          order' = [t \in Tickets |-> IF t \in ok THEN "closed" ELSE order[t]]
    /\ Go("cancelPlans") /\ sig' = g
    /\ UNCHANGED <<managed, rules, table, records, fresh, open, todo, alone,
                   entry, stop, lots, price, sent, bounds>>

CancelPlans ==
    /\ at = "cancelPlans"
    /\ deferred' = [deferred EXCEPT ![sig] = 0]
    /\ Go("cancelPending")
    /\ UNCHANGED <<managed, rules, table, owner, seen, sig, fresh, open, todo,
                   alone, broker, bounds>>

\* cancel_group_pending_orders: unfilled orders of an active group are
\* cancelled and leave it, the broker's answer notwithstanding; closed ones
\* leave it, too; a group without orders is completed.
KeptUnfilled(g) == {t \in tickets[g] : order[t] \in {"open", "pending"}}
Kept(g) == OpenOf(g)

CancelPending ==
    /\ at = "cancelPending"
    /\ IF group[sig] = "active"
       THEN LET unfilled == {t \in tickets[sig] : order[t] = "pending"}
            IN  /\ \E ok \in SUBSET unfilled :
                      /\ order' = [t \in Tickets |-> IF t \in ok THEN "closed" ELSE order[t]]
                      /\ letGo' = letGo \cup (unfilled \ ok)
                /\ tickets' = [tickets EXCEPT ![sig] = Kept(sig)]
                /\ routed' = [t \in Tickets |->
                       IF t \in tickets[sig] \ OpenOf(sig) THEN None ELSE routed[t]]
                /\ group' = [group EXCEPT ![sig] = IF Kept(sig) = {} THEN "completed" ELSE @]
                /\ Commits(IF Kept(sig) # {} THEN RowTickets(sig, Kept(sig))
                           ELSE /\ row' = [row EXCEPT ![sig] = IF @ = "none" THEN @ ELSE "completed"]
                                /\ UNCHANGED <<rowTickets, rowSl>>)
                /\ UNCHANGED groupSl
       ELSE UNCHANGED <<managed, table, order, letGo, dbFaults>>
    /\ Finished
    /\ UNCHANGED <<rules, records, entry, stop, lots, price, sent, crashes>>

\* A changed or deleted message: only the unfilled orders are cancelled, by
\* group.  For a signal without a group the search by fingerprint finds none.
EditOrDelete(g) ==
    /\ at = "idle" /\ g \in seen
    /\ Go("cancelPending") /\ sig' = g
    /\ UNCHANGED <<managed, rules, table, records, fresh, open, todo, alone,
                   broker, bounds>>

\* Every other reply goes through all orders of the message; the rules of the
\* channel are looked up first, and the lookup raises.
ReplyToAll(g) ==
    /\ Answers(g)
    /\ Go("closeAll") /\ sig' = g
    /\ alone' = {t \in Tickets : owner[t] = g}
    /\ UNCHANGED <<managed, rules, table, records, fresh, open, todo, broker, bounds>>

RulesLookupRaises ==
    /\ at = "closeAll"
    /\ Finished
    /\ UNCHANGED <<managed, rules, table, records, broker, bounds>>

-----------------------------------------------------------------------------
(* The process and the broker                                              *)

Crash ==
    /\ at # "down"
    /\ crashes < MaxCrashes
    /\ crashes' = crashes + 1
    /\ group' = [g \in Groups |-> "none"]
    /\ tickets' = [g \in Groups |-> {}]
    /\ groupSl' = [g \in Groups |-> None]
    /\ routed' = [t \in Tickets |-> None]
    /\ beDone' = {} /\ parted' = {}
    /\ at' = "down" /\ sig' = None
    /\ fresh' = {} /\ open' = {} /\ todo' = {} /\ alone' = {}
    /\ UNCHANGED <<table, records, broker, letGo, dbFaults>>

\* _restore_groups_from_db: groups with a position are rebuilt, the others
\* are completed.
RestoredAnyStatus(g) == row[g] # "none" /\ \E t \in rowTickets[g] : IsOpen(t)
Restored(g) == row[g] = "active" /\ \E t \in rowTickets[g] : IsOpen(t)

Restart ==
    LET stale == {g \in Groups : row[g] = "active" /\ ~Restored(g)}
    IN  /\ at = "down"
        /\ group' = [g \in Groups |-> IF Restored(g) THEN "active" ELSE "none"]
        /\ tickets' = [g \in Groups |-> IF Restored(g) THEN rowTickets[g] ELSE {}]
        /\ groupSl' = [g \in Groups |-> IF Restored(g) THEN rowSl[g] ELSE None]
        /\ routed' = [t \in Tickets |->
               IF \E g \in Groups : Restored(g) /\ t \in rowTickets[g]
               THEN CHOOSE g \in Groups : Restored(g) /\ t \in rowTickets[g]
               ELSE None]
        /\ \E lost \in SUBSET stale :
              /\ Cardinality(lost) <= MaxDbFaults - dbFaults
              /\ dbFaults' = dbFaults + Cardinality(lost)
              /\ row' = [g \in Groups |-> IF g \in stale \ lost THEN "completed" ELSE row[g]]
        /\ Go("idle")
        /\ UNCHANGED <<rules, rowTickets, rowSl, records, sig, fresh, open, todo,
                       alone, broker, letGo, crashes>>

\* A price at or below the stop closes the position.
Stopped(t, p) == stop[t] # None /\ p <= stop[t]

Fill(t) ==
    /\ order[t] = "pending" /\ price <= entry[t]
    /\ order' = [order EXCEPT ![t] = IF Stopped(t, price) THEN "closed" ELSE "open"]
    /\ lots' = [lots EXCEPT ![t] = IF Stopped(t, price) THEN 0 ELSE @]
    /\ UNCHANGED <<managed, rules, table, records, control, entry, stop, price,
                   sent, bounds>>

\* A position closes at its target or by hand.  An unfilled order goes by its
\* time limit (OrderLifecycleManager) or by hand.
Ends(t) ==
    /\ order[t] \in {"pending", "open"}
    /\ order' = [order EXCEPT ![t] = "closed"]
    /\ lots' = [lots EXCEPT ![t] = 0]
    /\ UNCHANGED <<managed, rules, table, records, control, entry, stop, price,
                   sent, bounds>>

PriceMove ==
    /\ price' \in Prices \ {price}
    /\ order' = [t \in Tickets |->
           IF IsOpen(t) /\ Stopped(t, price') THEN "closed" ELSE order[t]]
    /\ lots' = [t \in Tickets |-> IF IsOpen(t) /\ Stopped(t, price') THEN 0 ELSE lots[t]]
    /\ UNCHANGED <<managed, rules, table, records, control, entry, stop, sent,
                   bounds>>

-----------------------------------------------------------------------------
Poll ==
    \/ \E g \in Groups : ManageGroup(g)
    \/ \E t \in Tickets : ManageAlone(t)
    \/ PollEnd

\* The steps of a handler that has started.
Handler ==
    \/ PlaceEntry \/ RecordEntry \/ Defer \/ RegisterGroup
    \/ RecordReentry \/ Join
    \/ Poll
    \/ GroupBe \/ CancelPlans \/ CancelPending \/ RulesLookupRaises

Message(g) ==
    Arrive(g) \/ CloseSelective(g) \/ SecureProfit(g) \/ CancelReply(g)
    \/ EditOrDelete(g) \/ ReplyToAll(g)

Next ==
    \/ Handler
    \/ PollStart \/ Cleanup
    \/ \E g \in Groups : Message(g) \/ Reenter(g) \/ LevelsDropped(g)
    \/ \E t \in Tickets : Fill(t) \/ Ends(t)
    \/ PriceMove
    \/ Crash \/ Restart

Spec == Init /\ [][Next]_vars

\* A handler that has started goes on, the poll gets its turn however many
\* messages come (the loop serves its timers), and a supervisor restarts the
\* process.
FairSpec == Spec /\ WF_vars(Handler) /\ SF_vars(PollStart) /\ WF_vars(Restart)

-----------------------------------------------------------------------------
(* Safety                                                                  *)

\* The two maps of PositionManager agree: an order of an active group is
\* routed to that group and to no other, and what is routed to an active
\* group is one of its orders.  Otherwise a position is managed by a group
\* that does not know it, or twice.
RoutesAgree ==
    \A g \in Groups :
        group[g] = "active" => tickets[g] = {t \in Tickets : routed[t] = g}

\* Between handlers the table of groups agrees with the registry, if no commit
\* fails: a restart finds the active groups, with the orders and the stop they
\* had.
TableMatchesGroups ==
    at = "idle" /\ dbFaults = 0 =>
        \A g \in Groups :
            /\ row[g] = "active" <=> group[g] = "active"
            /\ row[g] = "active" => rowTickets[g] = tickets[g] /\ rowSl[g] = groupSl[g]

\* Whatever commits fail, the stop in the table is not ahead of the one in
\* memory: a restart never makes a group believe it is protected better than
\* it is.
RowStopNeverAhead ==
    \A g \in Groups :
        group[g] = "active" /\ rowSl[g] # None => groupSl[g] # None /\ rowSl[g] <= groupSl[g]

\* As long as the process is not killed, a recorded order of a signal whose
\* group is active is outside the group only if the broker refused to cancel
\* it: no re-entry, edit or reply loses an order.
NoStrays ==
    at = "idle" /\ crashes = 0 =>
        \A g \in Groups, t \in Tickets :
            group[g] = "active" /\ owner[t] = g /\ order[t] \in {"pending", "open"}
                => t \in tickets[g] \cup letGo

\* The record of a group is a behaviour of GroupRecord: completed groups stay
\* completed, and the stop of an active one only rises, across replies,
\* re-entries, kills, restarts and failed commits.
Recorded == INSTANCE GroupRecord WITH
    Orders <- Tickets, life <- row, members <- rowTickets, floor <- rowSl
DurableGroup == Recorded!Spec

-----------------------------------------------------------------------------
(* Liveness                                                                *)

\* A group whose orders have all ended, and that waits for no re-entry, is
\* completed in the table in the end (if no commit fails).
Ended(g) ==
    /\ row[g] = "active" /\ at = "idle" /\ deferred[g] = 0
    /\ \A t \in rowTickets[g] : order[t] = "closed"
RowCompletes == \A g \in Groups : Ended(g) ~> row[g] = "completed" \/ dbFaults > 0

-----------------------------------------------------------------------------
(* What the documentation says of the code                                 *)

\* ARCHITECTURE.md: _modify_group_sl "only moves favorably".  No step of the
\* group rules lowers the stop of a position.
GroupStopsTighten ==
    [][\A t \in Tickets :
          ((at = "poll" /\ todo # todo') \/ at = "groupBe") /\ IsOpen(t) /\ stop[t] # None
              => stop'[t] # None /\ stop'[t] >= stop[t]]_vars

=============================================================================
