----------------------------- MODULE EntryPlans -----------------------------
(***************************************************************************)
(* What a signal is turned into: EntryStrategy plans its levels and splits *)
(* the volume that RiskManager computes, OrderBuilder decides the kind of  *)
(* each order, and Pipeline sends some orders at once and defers the       *)
(* others.  A deferred level is sent later, in any order and at any price  *)
(* (module Reentry says when), with a volume that is split anew.           *)
(*                                                                         *)
(* Prices are in points, volumes in hundredths of a lot.  The price a      *)
(* decision refers to is the ask for a BUY and the bid for a SELL; it is 0 *)
(* when MT5 has no tick.  Distances of the guards are in points.           *)
(* Variants with a bug precede some definitions.                           *)
(***************************************************************************)
EXTENDS Integers, Sequences, FiniteSets, Functions

CONSTANTS
    Signals,        \* [side, entry, zone, sl, isNow]; entry <<>>: none
    Channels,       \* strategies: [mode, entries, step, split, all, noStop,
                    \* minSl, maxDistance]
    Quotes,         \* reference prices
    FixedLots,      \* FIXED_LOT_SIZE
    LotMin, LotMax, LotStep,    \* of RiskManager
    Tolerances      \* MARKET_TOLERANCE_POINTS of OrderBuilder

ASSUME PlansAssumption ==
    /\ Quotes \subseteq Nat
    /\ FixedLots \subseteq Nat
    /\ LotMin \in Nat \ {0} /\ LotMax \in Nat /\ LotStep \in Nat \ {0}
    /\ LotMin <= LotMax
    /\ Tolerances \subseteq Nat
    /\ \A s \in Signals : /\ s.entry \in Seq(Int) /\ s.sl \in Int
                          /\ s.zone = <<>> \/ s.zone \in Int \X Int
    /\ \A c \in Channels : c.entries \in Int /\ c.step \in Int

VARIABLES
    signal, channel, tolerance,
    total,      \* the volume of the signal
    phase,      \* "new", "active": its state is registered, "done"
    plans,      \* sequence of [id, level, share, status]; share: history
    orders      \* accepted by the broker: [id, kind, price, volume, later]

inputs == <<signal, channel, tolerance, total>>
planVars == <<inputs, phase, plans, orders>>

Sum(f) == FoldFunction(+, 0, f)
Abs(x) == IF x < 0 THEN -x ELSE x
Larger(a, b) == IF a > b THEN a ELSE b
Smaller(a, b) == IF a < b THEN a ELSE b

-----------------------------------------------------------------------------
(* RiskManager and EntryStrategy                                           *)

\* calculate_volume: the pipeline passes no pip_value, so it is always the
\* fixed lot.  The quotient of two floats may be just below a whole number,
\* which floor takes down by one step.
Volume(lot) ==
    {Larger(LotMin, Smaller(n * LotStep, LotMax)) :
        n \in {lot \div LotStep} \cup
              {m \in {lot \div LotStep - 1} : lot % LotStep = 0 /\ m >= 0}}

\* Deeper into the zone, which is where the price is better.
Deeper(side) == IF side = "BUY" THEN -1 ELSE 1

KindAt(side, entry, ref, tol) ==
    IF Abs(entry - ref) <= tol THEN "MARKET"
    ELSE IF (entry - ref) * Deeper(side) > 0 THEN "LIMIT"
    ELSE "STOP"

\* The pipeline does not pass a tolerance to plan_entries.
PlanTolerance == 5

Entry(s, ref) == IF s.entry = <<>> THEN ref ELSE s.entry[1]
Nearest(a, b) == (2 * a + b) \div (2 * b)
HardCap == 10

\* _plan_single, _plan_range, _plan_scale_in: the levels in order.
Levels(s, c, ref) ==
    LET n == Smaller(c.entries, HardCap)
        steps(from) == [i \in 1..n |-> from + Deeper(s.side) * (i - 1) * c.step]
    IN  CASE c.mode = "range" /\ s.zone # <<>> /\ n > 1 ->
               LET first == IF s.side = "BUY" THEN s.zone[2] ELSE s.zone[1]
                   width == s.zone[2] - s.zone[1]
               IN  IF c.step > 0 THEN steps(first)
                   ELSE [i \in 1..n |->
                           first + Deeper(s.side) * Nearest((i - 1) * width, n - 1)]
          [] c.mode = "scale_in" /\ n > 1 /\ c.step > 0 -> steps(Entry(s, ref))
          [] OTHER -> <<Entry(s, ref)>>

Weights(split, levels, sl) ==
    LET n == Len(levels)
        distance == [i \in 1..n |-> Abs(levels[i] - sl)]
    IN  CASE split = "pyramid" -> [i \in 1..n |-> n + 1 - i]
          [] split = "risk_based" /\ Sum(distance) > 0 -> distance
          [] OTHER -> [i \in 1..n |-> 1]

\* split_volume.  The pipeline passes neither the step nor the minimum of the
\* settings: both are 0.01 lot.
SplitVolume(volume, split, levels, sl) ==
    LET w == Weights(split, levels, sl)
    IN  IF Len(levels) = 1 THEN <<volume>>
        ELSE [i \in DOMAIN levels |->
                IF split = "per_entry" THEN Larger(1, volume)
                ELSE Larger(1, (volume * w[i]) \div Sum(w))]

-----------------------------------------------------------------------------
(* OrderBuilder                                                            *)

\* Filled at what the price is.
MarketOrder == [kind |-> "MARKET", price |-> 0]
InZone(zone, ref) == zone # <<>> /\ zone[1] <= ref /\ ref <= zone[2]

DecideOpenInterval(side, entry, ref, tol, noStop, zone) ==
    LET kind == KindAt(side, entry, ref, tol - 1)
    IN  [kind |-> kind, price |-> entry]

\* decide_order_type for a plan.  Where stops are not allowed an order beyond
\* the price is sent at the price, or at the middle of the zone.
Decide(side, entry, ref, tol, noStop, zone) ==
    LET kind == KindAt(side, entry, ref, tol)
    IN  CASE kind = "MARKET" -> MarketOrder
          [] kind = "STOP" /\ noStop ->
               IF zone = <<>> \/ InZone(zone, ref) THEN MarketOrder
               ELSE [kind |-> "LIMIT", price |-> (zone[1] + zone[2]) \div 2]
          [] OTHER -> [kind |-> kind, price |-> entry]

\* The single mode passes the signal itself, with "now" and without the kinds
\* the channel allows.
DecideSingle(s, ref, tol) ==
    IF s.entry = <<>> \/ (s.isNow /\ InZone(s.zone, ref)) THEN MarketOrder
    ELSE Decide(s.side, s.entry[1], ref, tol, FALSE, <<>>)

\* An order of the broker, from build_request.
Order(id, volume, d, later) ==
    [id |-> id, kind |-> d.kind, price |-> d.price, volume |-> volume,
     later |-> later]

-----------------------------------------------------------------------------
(* Pipeline                                                                *)

\* execute_signal_plans in single mode.
ExecuteSingle(ref) ==
    /\ phase = "new" /\ channel.mode = "single"
    /\ orders' \in {{}, {Order(0, total, DecideSingle(signal, ref, tolerance), FALSE)}}
    /\ phase' = "done"
    /\ UNCHANGED <<inputs, plans>>

\* G1, for all plans of a signal or none: the price is that of the signal.
TooClose(ref) == channel.minSl > 0 /\ Abs(ref - signal.sl) < channel.minSl

Immediate(level, id, ref) ==
    \/ channel.all
    \/ id = 0
    \/ KindAt(signal.side, level, ref, PlanTolerance) = "MARKET"

\* _execute_multi: the broker accepts some of the orders sent at once.  A plan
\* whose order it refuses stays pending.
ExecuteMulti(ref) ==
    /\ phase = "new" /\ channel.mode # "single"
    /\ LET levels == Levels(signal, channel, ref)
           shares == SplitVolume(total, channel.split, levels, signal.sl)
           now == {i \in DOMAIN levels : ~TooClose(ref) /\ Immediate(levels[i], i - 1, ref)}
       IN  \E accepted \in SUBSET now :
             /\ plans' = [i \in DOMAIN levels |->
                   [id |-> i - 1, level |-> levels[i], share |-> shares[i],
                    status |-> IF TooClose(ref) THEN "cancelled"
                               ELSE IF i \in accepted THEN "executed"
                               ELSE "pending"]]
             /\ orders' = {Order(i - 1, shares[i],
                                 Decide(signal.side, levels[i], ref, tolerance,
                                        channel.noStop, signal.zone), FALSE)
                           : i \in accepted}
             /\ phase' = IF TooClose(ref) \/ now = DOMAIN levels THEN "done"
                         ELSE "active"
    /\ UNCHANGED inputs

Pending == {i \in DOMAIN plans : plans[i].status = "pending"}

\* The place of plan i among those that are pending, in the order of the plans.
Place(i) == Cardinality({j \in Pending : j <= i})

PendingLevels ==
    [k \in 1..Cardinality(Pending) |->
        plans[CHOOSE i \in Pending : Place(i) = k].level]

ReentryVolumeByLevel(i) ==
    LET volumes == SplitVolume(total, channel.split, PendingLevels, signal.sl)
    IN  IF i <= Len(volumes) THEN volumes[i] ELSE total

\* The whole volume is split among the plans that are pending, plan i included.
ReentryVolume(i) ==
    SplitVolume(total, channel.split, PendingLevels, signal.sl)[Place(i)]

\* A guard, G1 or G7 refuses, or the broker does.
Reject(i) ==
    /\ phase = "active" /\ plans[i].status = "pending"
    /\ plans' = [plans EXCEPT ![i].status = "cancelled"]
    /\ UNCHANGED <<inputs, phase, orders>>

\* handle_reentry: always at the market.
ReentryLeavesPending(i, ref) ==
    /\ phase = "active" /\ plans[i].status = "pending"
    /\ orders' = orders \cup {Order(i - 1, ReentryVolume(i), MarketOrder, TRUE)}
    /\ UNCHANGED <<inputs, phase, plans>>

Reentry(i, ref) ==
    /\ phase = "active" /\ plans[i].status = "pending"
    /\ ref > 0
    /\ ~TooClose(ref)
    /\ channel.maxDistance > 0 => Abs(ref - plans[i].level) <= channel.maxDistance
    /\ plans' = [plans EXCEPT ![i].status = "executed"]
    /\ orders' = orders \cup {Order(i - 1, ReentryVolume(i), MarketOrder, TRUE)}
    /\ UNCHANGED <<inputs, phase>>

\* The signal expires, its stop is breached, or a reply ends it.
Close ==
    /\ phase = "active"
    /\ phase' = "done"
    /\ UNCHANGED <<inputs, plans, orders>>

PlansInit ==
    /\ signal \in Signals
    /\ channel \in Channels
    /\ tolerance \in Tolerances
    /\ total \in UNION {Volume(l) : l \in FixedLots}
    /\ phase = "new"
    /\ plans = <<>>
    /\ orders = {}

PlansNext ==
    \/ \E ref \in Quotes : ExecuteSingle(ref) \/ ExecuteMulti(ref)
    \/ \E i \in DOMAIN plans : Reject(i) \/ \E ref \in Quotes : Reentry(i, ref)
    \/ Close

PlansSpec == PlansInit /\ [][PlansNext]_planVars

-----------------------------------------------------------------------------
(* Properties                                                              *)

\* A re-entry is never smaller than the share its level got when the signal
\* came, in whatever order levels are entered, refused and cancelled.  With a
\* pyramid this needs the deeper levels to be pending still: one that leaves
\* first moves the others towards the small end (handle_reentry).
NeverShrinks ==
    [][\A o \in orders' \ orders :
          /\ o.later
          /\ channel.split = "pyramid" =>
                \A i \in DOMAIN plans : i > o.id + 1 => plans[i].status = "pending"
          => o.volume >= plans[o.id + 1].share]_planVars

\* What a signal may open together.  Every re-entry splits the whole volume
\* again, so it exceeds the volume of the signal: by the harmonic number of its
\* levels when the split is equal, and by no more than one volume per level
\* (split_volume, handle_reentry).
SentBounded ==
    LET n == Len(plans)
        bound == IF channel.split = "equal" THEN Sum([k \in 1..n |-> Larger(1, total \div k)])
                 ELSE n * total
    IN  n > 1 => Sum([o \in orders |-> o.volume]) <= bound

\* A level other than the first is entered at the market or deferred; its order
\* never waits at the broker, where no guard of a re-entry sees it.  Strategy
\* and builder decide from two tolerances which levels are at the market, and
\* agree where the builder's is not the smaller one (_execute_multi,
\* decide_order_type).
DeferredNeverRest ==
    tolerance >= PlanTolerance /\ ~channel.all =>
        \A o \in orders : o.id > 0 => o.kind = "MARKET"
=============================================================================
