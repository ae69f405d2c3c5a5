------------------------- MODULE TradeTrackerProofs -------------------------
(***************************************************************************)
(* Proofs about TradeTracker, for any orders, times and bounds.            *)
(*                                                                         *)
(* ReportedOnce follows from the order of the code: the trade is committed *)
(* before its report is sent, and only a new trade is reported.            *)
(*                                                                         *)
(* The watermark needs more: the window includes its start, the deals of a *)
(* batch are processed oldest first, so that the deal that opened a        *)
(* position is settled before the one that closes it, and what the broker  *)
(* executes during a batch is not older than the time the poll will save.  *)
(***************************************************************************)
EXTENDS TradeTracker, TLAPS

\* The deal being reported is in the table and not reported yet.
ReportInv ==
    /\ ReportedOnce
    /\ at = "report" => cur \in stored /\ reports[cur] = 0

\* A position has a deal that opened it, and so has a deal that closed one;
\* if no commit failed the orders at the broker are recorded.
OrderInv ==
    /\ \A o \in Orders : status[o] \in {"open", "closed"} =>
          \E d \in DOMAIN deals : deals[d].kind = "in" /\ deals[d].order = o
    /\ \A d \in DOMAIN deals : deals[d].kind = "out" =>
          \E e \in DOMAIN deals :
             e < d /\ deals[e].kind = "in" /\ deals[e].order = deals[d].order
    /\ \A d \in DOMAIN deals : status[deals[d].order] # "none"
    /\ NoFaults => \A o \in Orders : status[o] # "none" => o \in recorded

\* Nothing is left to do for the deal.
Settled(d) ==
    /\ deals[d].kind = "in" => deals[d].order \in linked
    /\ deals[d].kind = "out" => d \in stored

Polling == at \in {"deals", "report"}

WatermarkInv ==
    NoFaults =>
        /\ \A d \in DOMAIN deals : deals[d].time < start => Settled(d)
        /\ Polling => \A d \in DOMAIN deals : deals[d].time < upTo => d \in batch \/ Settled(d)
        /\ Polling => \A d \in batch, e \in DOMAIN deals : e < d => e \in batch \/ Settled(e)

IInv == TypeOK /\ ReportInv /\ OrderInv /\ WatermarkInv

-----------------------------------------------------------------------------
(* Type correctness                                                        *)

\* What Executed does to the history.
LEMMA ExecutedDeal ==
    ASSUME TypeOK, NEW kind \in {"in", "out"}, NEW o \in Orders, NEW p \in BOOLEAN,
           Executed(kind, o, p)
    PROVE  /\ deals' \in Seq(Deal)
           /\ Len(deals') = Len(deals) + 1 /\ Len(deals') <= MaxDeals
           /\ Len(deals) \in Nat
           /\ DOMAIN deals = 1..Len(deals) /\ DOMAIN deals' = 1..(Len(deals) + 1)
           /\ DOMAIN deals \subseteq DOMAIN deals'
           /\ \A d \in DOMAIN deals : deals'[d] = deals[d]
           /\ deals'[Len(deals) + 1] =
                 [kind |-> kind, order |-> o, time |-> now, partial |-> p]
<1>1. [kind |-> kind, order |-> o, time |-> now, partial |-> p] \in Deal
  BY DEF TypeOK, Deal
<1> QED
  BY <1>1, TrackerAssumption DEF TypeOK, Executed

LEMMA InitType == Init => TypeOK
BY TrackerAssumption DEF Init, TypeOK, Nobody, Deals

LEMMA NextType == TypeOK /\ [Next]_vars => TypeOK'
<1> SUFFICES ASSUME TypeOK, [Next]_vars PROVE TypeOK'
  OBVIOUS
<1> USE TrackerAssumption DEF broker, database, memory, poll, faults
<1>1. ASSUME NEW o \in Orders, Place(o) PROVE TypeOK'
  <2>1. status' \in [Orders -> {"none", "pending", "open", "closed"}]
    BY <1>1 DEF Place, TypeOK
  <2>2. deals' = deals \/ Executed("in", o, FALSE)
    BY <1>1 DEF Place
  <2>3. deals' \in Seq(Deal) /\ Len(deals') <= MaxDeals /\ DOMAIN deals \subseteq DOMAIN deals'
    <3>1. CASE deals' = deals
      BY <3>1 DEF TypeOK
    <3>2. CASE Executed("in", o, FALSE)
      BY <3>2, ExecutedDeal
    <3> QED
      BY <2>2, <3>1, <3>2
  <2>4. recorded' \subseteq Orders /\ dbFaults' \in Nat
    BY <1>1 DEF Place, Failed, TypeOK
  <2> QED
    BY <1>1, <2>1, <2>3, <2>4 DEF Place, TypeOK
<1>2. ASSUME NEW o \in Orders,
             NEW kind \in {"in", "out"}, NEW p \in BOOLEAN, Executed(kind, o, p),
             status' \in [Orders -> {"none", "pending", "open", "closed"}],
             marks' \in [Orders -> 0..ReplyTtl],
             UNCHANGED <<now, database, quiet, poll, reports, faults>>
      PROVE  TypeOK'
  <2>1. deals' \in Seq(Deal) /\ Len(deals') <= MaxDeals /\ DOMAIN deals \subseteq DOMAIN deals'
    BY <1>2, ExecutedDeal
  <2> QED
    BY <1>2, <2>1 DEF TypeOK
<1>3. ASSUME NEW o \in Orders, Fill(o) \/ End(o) \/ PartialClose(o) \/ ReplyClose(o)
      PROVE  TypeOK'
  <2>1. PICK kind \in {"in", "out"}, p \in BOOLEAN : Executed(kind, o, p)
    BY <1>3 DEF Fill, End, PartialClose, ReplyClose
  <2>2. status' \in [Orders -> {"none", "pending", "open", "closed"}]
    BY <1>3 DEF Fill, End, PartialClose, ReplyClose, TypeOK
  <2>3. marks' \in [Orders -> 0..ReplyTtl]
    <3>1. marks' = marks \/ marks' = [marks EXCEPT ![o] = ReplyTtl]
      BY <1>3 DEF Fill, End, PartialClose, ReplyClose
    <3>2. marks \in [Orders -> 0..ReplyTtl] /\ ReplyTtl \in 0..ReplyTtl
      BY DEF TypeOK
    <3> QED
      BY <3>1, <3>2
  <2>4. UNCHANGED <<now, database, quiet, poll, reports, faults>>
    BY <1>3 DEF Fill, End, PartialClose, ReplyClose
  <2> QED
    BY <1>2, <2>1, <2>2, <2>3, <2>4
<1>4. CASE Tick
  BY <1>4 DEF Tick, Less, TypeOK
<1>5. CASE PollStart
  <2>1. batch' \subseteq DOMAIN deals
    BY <1>5 DEF PollStart, Window
  <2> QED
    BY <1>5, <2>1 DEF PollStart, TypeOK
<1>6. ASSUME NEW d \in Deals, ProcessDeal(d) PROVE TypeOK'
  <2>1. d \in DOMAIN deals /\ deals[d] \in Deal
    BY <1>6 DEF ProcessDeal, TypeOK
  <2>2. deals[d].order \in Orders
    BY <2>1 DEF Deal
  <2>3. /\ linked' = linked \/ linked' = linked \cup {deals[d].order}
        /\ stored' = stored \/ stored' = stored \cup {d}
        /\ marks' = marks \/ marks' = [marks EXCEPT ![deals[d].order] = 0]
        /\ quiet' = quiet \/ quiet' = [quiet EXCEPT ![deals[d].order] = PartialCooldown]
        /\ dbFaults' = dbFaults \/ dbFaults' = dbFaults + 1
        /\ at' = at \/ at' = "report"
        /\ cur' = cur \/ cur' = d
    BY <1>6 DEF ProcessDeal, Opening, Closing, Failed
  <2>4. /\ batch' \subseteq batch
        /\ UNCHANGED <<broker, now, recorded, start, upTo, reports, crashes, noAnswers>>
    BY <1>6 DEF ProcessDeal
  <2>5. marks' \in [Orders -> 0..ReplyTtl]
    <3>1. marks \in [Orders -> 0..ReplyTtl] /\ 0 \in 0..ReplyTtl
      BY DEF TypeOK
    <3> QED
      BY ONLY <2>2, <2>3, <3>1
  <2>6. quiet' \in [Orders -> 0..PartialCooldown]
    <3>1. quiet \in [Orders -> 0..PartialCooldown] /\ PartialCooldown \in 0..PartialCooldown
      BY DEF TypeOK
    <3> QED
      BY ONLY <2>2, <2>3, <3>1
  <2>7. /\ linked' \subseteq Orders /\ stored' \subseteq DOMAIN deals
        /\ batch' \subseteq DOMAIN deals /\ cur' \in {0} \cup DOMAIN deals
    <3>1. /\ linked \subseteq Orders /\ stored \subseteq DOMAIN deals
          /\ batch \subseteq DOMAIN deals /\ cur \in {0} \cup DOMAIN deals
      BY DEF TypeOK
    <3> QED
      BY ONLY <2>1, <2>2, <2>3, <2>4, <3>1
  <2>8. dbFaults' \in Nat /\ at' \in {"idle", "deals", "report", "again", "down"}
    BY <2>3 DEF TypeOK
  <2> QED
    BY <2>4, <2>5, <2>6, <2>7, <2>8 DEF TypeOK
<1>7. CASE Report
  <2>1. reports' \in [Deals -> Nat]
    <3>1. reports' = reports \/ reports' = [reports EXCEPT ![cur] = reports[cur] + 1]
      BY <1>7 DEF Report
    <3>2. reports \in [Deals -> Nat]
      BY DEF TypeOK
    <3> QED
      BY ONLY <3>1, <3>2
  <2> QED
    BY <1>7, <2>1 DEF Report, TypeOK
<1>8. CASE SavePollTime
  BY <1>8 DEF SavePollTime, Failed, TypeOK
<1>9. CASE Crash
  BY <1>9 DEF Crash, Nobody, TypeOK
<1>10. CASE Restart
  BY <1>10 DEF Restart, TypeOK
<1>11. CASE UNCHANGED vars
  BY <1>11 DEF vars, TypeOK
<1> QED
  BY <1>1, <1>3, <1>4, <1>5, <1>6, <1>7, <1>8, <1>9, <1>10, <1>11 DEF Next, World, Poll

\* Every reachable state of the tracker is well typed.
THEOREM TypeCorrect == Spec => []TypeOK
BY InitType, NextType, PTL DEF Spec

-----------------------------------------------------------------------------
(* Reports                                                                 *)

LEMMA ReportStep ==
    ASSUME TypeOK, ReportInv, [Next]_vars
    PROVE  ReportInv'
<1> USE DEF database, poll, faults
<1>1. CASE UNCHANGED <<reports, stored, at, cur>>
  BY <1>1 DEF ReportInv, ReportedOnce
<1>2. CASE UNCHANGED <<reports, stored>> /\ at' # "report"
  BY <1>2 DEF ReportInv, ReportedOnce
<1>3. ASSUME NEW d \in Deals, ProcessDeal(d) PROVE ReportInv'
  <2>1. CASE UNCHANGED <<reports, stored, at, cur>>
    BY <1>1, <2>1
  <2>2. CASE ~UNCHANGED <<reports, stored, at, cur>>
    <3>1. /\ d \notin stored /\ stored' = stored \cup {d} /\ reports' = reports
          /\ at' = at \/ (at' = "report" /\ cur' = d)
          /\ at = "deals"
      BY <1>3, <2>2 DEF ProcessDeal, Opening, Closing, New
    <3>2. reports[d] = 0
      BY <3>1 DEF ReportInv, ReportedOnce, TypeOK
    <3> QED
      BY <3>1, <3>2 DEF ReportInv, ReportedOnce
  <2> QED
    BY <2>1, <2>2
<1>4. CASE Report
  <2>1. cur \in stored /\ reports[cur] = 0 /\ at' = "deals" /\ stored' = stored
    BY <1>4 DEF Report, ReportInv
  <2>2. reports' = reports \/ reports' = [reports EXCEPT ![cur] = reports[cur] + 1]
    BY <1>4 DEF Report
  <2>3. \A d \in Deals : reports'[d] = reports[d] \/ (d = cur /\ reports'[d] = 1)
    BY <2>1, <2>2 DEF TypeOK
  <2> QED
    BY <2>1, <2>3 DEF ReportInv, ReportedOnce
<1>5. ASSUME NEW o \in Orders, World(o) PROVE ReportInv'
  BY <1>1, <1>5 DEF World, Place, Fill, End, PartialClose, ReplyClose
<1>6. CASE Tick
  BY <1>1, <1>6 DEF Tick
<1>7. CASE PollStart \/ SavePollTime \/ Crash \/ Restart
  BY <1>2, <1>7 DEF PollStart, SavePollTime, Crash, Restart
<1>8. CASE UNCHANGED vars
  BY <1>1, <1>8 DEF vars
<1> QED
  BY <1>3, <1>4, <1>5, <1>6, <1>7, <1>8 DEF Next, Poll

-----------------------------------------------------------------------------
(* Orders and their deals                                                  *)

\* A fault stays counted.
LEMMA FaultsStay == TypeOK /\ [Next]_vars => (NoFaults' => NoFaults)
<1> SUFFICES ASSUME TypeOK, [Next]_vars PROVE NoFaults' => NoFaults
  OBVIOUS
<1>1. dbFaults' \in {dbFaults, dbFaults + 1} /\ noAnswers' \in {noAnswers, noAnswers + 1}
  BY DEF Next, World, Poll, Place, Fill, End, PartialClose, ReplyClose, Tick, PollStart,
         ProcessDeal, Opening, Closing, Report, SavePollTime, Failed, Crash, Restart, vars,
         broker, database, poll, faults
<1> QED
  BY <1>1 DEF NoFaults, TypeOK

\* A deal is executed for o, whose position is opened or was open before.
LEMMA OrderDeal ==
    ASSUME TypeOK, OrderInv, NoFaults' => NoFaults,
           NEW kind \in {"in", "out"}, NEW o \in Orders, NEW p \in BOOLEAN,
           Executed(kind, o, p),
           kind = "out" => \E e \in DOMAIN deals : deals[e].kind = "in" /\ deals[e].order = o,
           \A x \in Orders : x # o => status'[x] = status[x],
           status'[o] \in {"open", "closed"},
           recorded \subseteq recorded', NoFaults' => o \in recorded'
    PROVE  OrderInv'
<1> DEFINE n == Len(deals) + 1
<1>0. /\ Len(deals) \in Nat
      /\ DOMAIN deals = 1..Len(deals) /\ DOMAIN deals' = 1..n
      /\ \A d \in DOMAIN deals : deals'[d] = deals[d]
      /\ deals'[n] = [kind |-> kind, order |-> o, time |-> now, partial |-> p]
  BY ExecutedDeal
<1>1. /\ Len(deals) \in Nat /\ DOMAIN deals = 1..Len(deals)
      /\ DOMAIN deals' = DOMAIN deals \cup {n} /\ n \in DOMAIN deals'
      /\ \A d \in DOMAIN deals : deals'[d] = deals[d] /\ d < n
      /\ deals'[n].kind = kind /\ deals'[n].order = o
  <2>1. 1..n = 1..Len(deals) \cup {n} /\ \A d \in 1..Len(deals) : d < n
    BY <1>0
  <2> HIDE DEF n
  <2>2. deals'[n].kind = kind /\ deals'[n].order = o
    BY ONLY <1>0
  <2> QED
    BY <1>0, <2>1, <2>2
<1>2. ASSUME NEW d \in DOMAIN deals PROVE deals[d].order \in Orders
  <2>1. deals[d] \in Deal
    BY <1>0 DEF TypeOK
  <2> QED
    BY <2>1 DEF Deal
<1> HIDE DEF n
<1>3. ASSUME NEW x \in Orders, status'[x] \in {"open", "closed"}
      PROVE  \E d \in DOMAIN deals' : deals'[d].kind = "in" /\ deals'[d].order = x
  <2>1. CASE x = o
    BY <1>1, <2>1
  <2>2. CASE x # o
    <3>1. PICK d \in DOMAIN deals : deals[d].kind = "in" /\ deals[d].order = x
      BY <1>3, <2>2 DEF OrderInv
    <3> QED
      BY <1>1, <3>1
  <2> QED
    BY <2>1, <2>2
<1>4. ASSUME NEW d \in DOMAIN deals', deals'[d].kind = "out"
      PROVE  \E e \in DOMAIN deals' :
                e < d /\ deals'[e].kind = "in" /\ deals'[e].order = deals'[d].order
  <2>1. CASE d \in DOMAIN deals
    <3>1. PICK e \in DOMAIN deals :
              e < d /\ deals[e].kind = "in" /\ deals[e].order = deals[d].order
      BY <1>1, <1>4, <2>1 DEF OrderInv
    <3> QED
      BY <1>1, <2>1, <3>1
  <2>2. CASE d = n
    <3>1. PICK e \in DOMAIN deals : deals[e].kind = "in" /\ deals[e].order = o
      BY <1>1, <1>4, <2>2
    <3> QED
      BY <1>1, <2>2, <3>1
  <2> QED
    BY <1>1, <2>1, <2>2
<1>5. \A d \in DOMAIN deals' : status'[deals'[d].order] # "none"
  BY <1>1, <1>2 DEF OrderInv
<1>6. NoFaults' => \A x \in Orders : status'[x] # "none" => x \in recorded'
  BY DEF OrderInv
<1> QED
  BY <1>3, <1>4, <1>5, <1>6 DEF OrderInv

LEMMA OrderStep ==
    ASSUME TypeOK, OrderInv, [Next]_vars
    PROVE  OrderInv'
<1> USE DEF broker, database, poll, faults
<1>0. NoFaults' => NoFaults
  BY FaultsStay
<1>1. CASE UNCHANGED <<status, deals, recorded>>
  BY <1>0, <1>1 DEF OrderInv
<1>2. ASSUME NEW o \in Orders, Place(o) PROVE OrderInv'
  <2>1. NoFaults' => o \in recorded'
    BY <1>2 DEF Place, Failed, NoFaults, TypeOK
  <2>2. recorded \subseteq recorded' /\ status[o] = "none"
    BY <1>2 DEF Place
  <2>3. CASE o \in Limits
    <3>1. deals' = deals /\ status' = [status EXCEPT ![o] = "pending"]
      BY <1>2, <2>3 DEF Place
    <3> QED
      BY <1>0, <2>1, <2>2, <3>1 DEF OrderInv, TypeOK
  <2>4. CASE o \notin Limits
    <3>1. Executed("in", o, FALSE) /\ status' = [status EXCEPT ![o] = "open"]
      BY <1>2, <2>4 DEF Place
    <3> QED
      BY <1>0, <2>1, <2>2, <3>1, OrderDeal DEF TypeOK
  <2> QED
    BY <2>3, <2>4
<1>3. ASSUME NEW o \in Orders, Fill(o) PROVE OrderInv'
  <2>1. /\ Executed("in", o, FALSE) /\ status' = [status EXCEPT ![o] = "open"]
        /\ status[o] = "pending" /\ recorded' = recorded
    BY <1>3 DEF Fill
  <2>2. NoFaults' => o \in recorded'
    BY <1>0, <2>1 DEF OrderInv
  <2> QED
    BY <1>0, <2>1, <2>2, OrderDeal DEF TypeOK
<1>4. ASSUME NEW o \in Orders, End(o) \/ PartialClose(o) \/ ReplyClose(o) PROVE OrderInv'
  <2>1. PICK p \in BOOLEAN : Executed("out", o, p)
    BY <1>4 DEF End, PartialClose, ReplyClose
  <2>2. /\ status' = status \/ status' = [status EXCEPT ![o] = "closed"]
        /\ status[o] = "open" /\ UNCHANGED recorded
    BY <1>4 DEF End, PartialClose, ReplyClose
  <2>3. PICK e \in DOMAIN deals : deals[e].kind = "in" /\ deals[e].order = o
    BY <2>2 DEF OrderInv
  <2>4. NoFaults' => o \in recorded'
    BY <1>0, <2>2 DEF OrderInv
  <2>5. /\ \A x \in Orders : x # o => status'[x] = status[x]
        /\ status'[o] \in {"open", "closed"}
    BY <2>2 DEF TypeOK
  <2>6. recorded \subseteq recorded'
    BY <2>2
  <2> QED
    BY <1>0, <2>1, <2>3, <2>4, <2>5, <2>6, OrderDeal
<1>5. CASE Tick \/ PollStart \/ Poll \/ Crash \/ Restart \/ UNCHANGED vars
  BY <1>1, <1>5 DEF Tick, PollStart, Poll, ProcessDeal, Report, SavePollTime, Crash,
                    Restart, vars
<1> QED
  BY <1>2, <1>3, <1>4, <1>5 DEF Next, World
-----------------------------------------------------------------------------
(* The watermark                                                           *)

LEMMA SettledStays ==
    ASSUME NEW d, Settled(d), deals'[d] = deals[d],
           linked \subseteq linked', stored \subseteq stored'
    PROVE  Settled(d)'
BY DEF Settled

\* The broker executes a deal: it is not older than the window of the poll.
LEMMA WatermarkDeal ==
    ASSUME TypeOK, WatermarkInv, NoFaults' => NoFaults,
           NEW kind \in {"in", "out"}, NEW o \in Orders, NEW p \in BOOLEAN,
           Executed(kind, o, p),
           UNCHANGED <<linked, stored, start, at, batch, upTo>>
    PROVE  WatermarkInv'
<1> DEFINE n == Len(deals) + 1
<1>0. /\ Len(deals) \in Nat
      /\ DOMAIN deals = 1..Len(deals) /\ DOMAIN deals' = 1..n
      /\ \A d \in DOMAIN deals : deals'[d] = deals[d]
      /\ deals'[n] = [kind |-> kind, order |-> o, time |-> now, partial |-> p]
  BY ExecutedDeal
<1>1. 1..n = 1..Len(deals) \cup {n} /\ \A d \in 1..Len(deals) : d < n
  BY <1>0
<1> HIDE DEF n
<1>2. deals'[n].time = now
  BY ONLY <1>0
<1>3. /\ start \in Nat /\ upTo \in Nat /\ now \in Nat
      /\ start <= now /\ upTo <= now /\ batch \subseteq DOMAIN deals
  BY TrackerAssumption DEF TypeOK
<1>4. \A d \in DOMAIN deals : Settled(d) => Settled(d)'
  BY <1>0, SettledStays
<1> SUFFICES ASSUME NoFaults, NoFaults' PROVE WatermarkInv'
  BY DEF WatermarkInv
<1>5. ASSUME NEW d \in DOMAIN deals', deals'[d].time < start' PROVE Settled(d)'
  <2>1. d # n
    BY <1>2, <1>3, <1>5
  <2> QED
    BY <1>0, <1>1, <1>4, <1>5, <2>1 DEF WatermarkInv
<1>6. ASSUME Polling', NEW d \in DOMAIN deals', deals'[d].time < upTo'
      PROVE  d \in batch' \/ Settled(d)'
  <2>1. d # n
    BY <1>2, <1>3, <1>6
  <2> QED
    BY <1>0, <1>1, <1>4, <1>6, <2>1 DEF WatermarkInv, Polling
<1>7. ASSUME Polling', NEW d \in batch', NEW e \in DOMAIN deals', e < d
      PROVE  e \in batch' \/ Settled(e)'
  <2>1. d \in batch /\ d < n
    BY <1>0, <1>1, <1>3
  <2>2. e # n
    BY <1>0, <1>3, <1>7, <2>1
  <2> QED
    BY <1>0, <1>1, <1>4, <1>7, <2>1, <2>2 DEF WatermarkInv, Polling
<1> QED
  BY <1>5, <1>6, <1>7 DEF WatermarkInv

\* A deal of the batch is settled when it is processed.
LEMMA WatermarkProcess ==
    ASSUME TypeOK, OrderInv, WatermarkInv, NoFaults' => NoFaults,
           NEW d \in Deals, ProcessDeal(d)
    PROVE  WatermarkInv'
<1> DEFINE o == deals[d].order
<1> SUFFICES ASSUME NoFaults, NoFaults' PROVE WatermarkInv'
  BY DEF WatermarkInv
<1>1. /\ at = "deals" /\ d \in batch /\ batch' = batch \ {d}
      /\ \A e \in batch : d <= e
      /\ UNCHANGED <<status, deals, now, recorded, start, upTo>>
      /\ deals[d].kind = "in" => Opening(d)
      /\ deals[d].kind # "in" => Closing(d)
  BY DEF ProcessDeal, broker
<1>2. d \in DOMAIN deals /\ batch \subseteq DOMAIN deals /\ deals[d] \in Deal
  BY <1>1 DEF TypeOK
<1>3. o \in Orders /\ deals[d].kind \in {"in", "out"}
  BY <1>2 DEF Deal
<1>4. o \in recorded
  BY <1>2, <1>3 DEF OrderInv
<1>5. ~Failed
  BY DEF Failed, NoFaults, TypeOK
<1>6. linked \subseteq linked' /\ stored \subseteq stored'
  BY <1>1 DEF Opening, Closing
<1>7. Settled(d)'
  <2>1. CASE deals[d].kind = "in"
    <3>1. o \in linked'
      BY <1>1, <1>4, <1>5, <2>1 DEF Opening
    <3> QED
      BY <1>1, <2>1, <3>1 DEF Settled
  <2>2. CASE deals[d].kind = "out"
    <3>1. PICK e \in DOMAIN deals : e < d /\ deals[e].kind = "in" /\ deals[e].order = o
      BY <1>2, <2>2 DEF OrderInv
    <3>2. e \notin batch
      BY <1>1, <1>2, <3>1 DEF TypeOK
    <3>3. Settled(e)
      BY <1>1, <3>1, <3>2 DEF WatermarkInv, Polling
    <3>4. Resolved(o)
      BY <1>4, <3>1, <3>3 DEF Settled, Resolved
    <3>5. d \in stored'
      BY <1>1, <1>5, <2>2, <3>4 DEF Closing, New
    <3> QED
      BY <1>1, <2>2, <3>5 DEF Settled
  <2> QED
    BY <1>3, <2>1, <2>2
<1>8. \A e \in DOMAIN deals : Settled(e) => Settled(e)'
  BY <1>1, <1>6, SettledStays
<1>9. \A e \in DOMAIN deals : deals[e].time < start => Settled(e)'
  BY <1>8 DEF WatermarkInv
<1>10. \A e \in DOMAIN deals : deals[e].time < upTo => e \in batch' \/ Settled(e)'
  BY <1>1, <1>7, <1>8 DEF WatermarkInv, Polling
<1>11. \A f \in batch', e \in DOMAIN deals : e < f => e \in batch' \/ Settled(e)'
  BY <1>1, <1>7, <1>8 DEF WatermarkInv, Polling
<1> QED
  BY <1>1, <1>9, <1>10, <1>11 DEF WatermarkInv

LEMMA WatermarkStep ==
    ASSUME TypeOK, OrderInv, WatermarkInv, [Next]_vars
    PROVE  WatermarkInv'
<1> USE DEF broker, database, poll, faults
<1>0. NoFaults' => NoFaults
  BY FaultsStay
<1>1. CASE UNCHANGED <<deals, linked, stored, start, batch, upTo>> /\ (Polling' => Polling)
  <2>1. \A d \in DOMAIN deals : Settled(d)' = Settled(d)
    BY <1>1 DEF Settled
  <2> QED
    BY <1>0, <1>1, <2>1 DEF WatermarkInv
<1>2. ASSUME NEW o \in Orders, World(o) PROVE WatermarkInv'
  <2>1. UNCHANGED <<linked, stored, start, at, batch, upTo>>
    BY <1>2 DEF World, Place, Fill, End, PartialClose, ReplyClose
  <2>2. CASE deals' = deals
    BY <1>1, <2>1, <2>2 DEF Polling
  <2>3. CASE deals' # deals
    <3>1. PICK kind \in {"in", "out"}, p \in BOOLEAN : Executed(kind, o, p)
      BY <1>2, <2>3 DEF World, Place, Fill, End, PartialClose, ReplyClose
    <3> QED
      BY <1>0, <2>1, <3>1, WatermarkDeal
  <2> QED
    BY <2>2, <2>3
<1>3. CASE PollStart
  <2>1. CASE batch' = Window
    <3>1. /\ UNCHANGED <<deals, linked, stored, start>> /\ at' = "deals"
      BY <1>3 DEF PollStart
    <3>2. \A d \in DOMAIN deals : Settled(d)' = Settled(d)
      BY <3>1 DEF Settled
    <3>3. \A d \in DOMAIN deals : deals[d].time \in Nat
      <4>1. \A d \in DOMAIN deals : deals[d] \in Deal
        BY DEF TypeOK
      <4> QED
        BY <4>1 DEF Deal
    <3>4. start \in Nat
      BY TrackerAssumption DEF TypeOK
    <3>5. \A d \in DOMAIN deals : d \notin batch' => deals[d].time < start
      BY <2>1, <3>3, <3>4 DEF Window
    <3>6. NoFaults' => \A d \in DOMAIN deals : d \in batch' \/ Settled(d)'
      BY <1>0, <3>2, <3>5 DEF WatermarkInv
    <3> QED
      BY <1>0, <3>1, <3>2, <3>6 DEF WatermarkInv
  <2>2. CASE noAnswers' = noAnswers + 1
    BY <2>2 DEF WatermarkInv, NoFaults, TypeOK
  <2> QED
    BY <1>3, <2>1, <2>2 DEF PollStart
<1>4. CASE SavePollTime
  <2>1. CASE start' = upTo
    <3>1. /\ batch = {} /\ at = "deals" /\ UNCHANGED <<deals, linked, stored>>
          /\ at' \in {"idle", "again"}
      BY <1>4 DEF SavePollTime
    <3>2. \A d \in DOMAIN deals : Settled(d)' = Settled(d)
      BY <3>1 DEF Settled
    <3> QED
      BY <1>0, <2>1, <3>1, <3>2 DEF WatermarkInv, Polling
  <2>2. CASE start' # upTo
    <3>1. dbFaults' = dbFaults + 1
      BY <1>4, <2>2 DEF SavePollTime, Failed
    <3> QED
      BY <3>1 DEF WatermarkInv, NoFaults, TypeOK
  <2> QED
    BY <2>1, <2>2
<1>5. CASE \E d \in Deals : ProcessDeal(d)
  BY <1>0, <1>5, WatermarkProcess
<1>6. CASE Report
  BY <1>1, <1>6 DEF Report, Polling
<1>7. CASE Crash
  <2>1. UNCHANGED <<deals, linked, stored, start>> /\ at' = "down"
    BY <1>7 DEF Crash
  <2>2. \A d \in DOMAIN deals : Settled(d)' = Settled(d)
    BY <2>1 DEF Settled
  <2> QED
    BY <1>0, <2>1, <2>2 DEF WatermarkInv, Polling
<1>8. CASE Tick \/ Restart \/ UNCHANGED vars
  BY <1>1, <1>8 DEF Tick, Restart, Polling, vars
<1> QED
  BY <1>2, <1>3, <1>4, <1>5, <1>6, <1>7, <1>8 DEF Next, Poll

-----------------------------------------------------------------------------
(* The theorems                                                            *)

LEMMA InitIInv == Init => IInv
<1> SUFFICES ASSUME Init PROVE IInv
  OBVIOUS
<1>1. TypeOK
  BY InitType
<1>2. ReportInv
  BY DEF Init, ReportInv, ReportedOnce
<1>3. DOMAIN deals = {}
  BY DEF Init
<1>4. OrderInv
  BY <1>3 DEF Init, OrderInv
<1>5. WatermarkInv
  BY <1>3 DEF Init, WatermarkInv, Polling
<1> QED
  BY <1>1, <1>2, <1>4, <1>5 DEF IInv

\* The inductive invariant: the steps of the poll, the orders and their deals,
\* and what is settled before the time of the last poll.
THEOREM Invariant == Spec => []IInv
<1>1. IInv /\ [Next]_vars => IInv'
  BY NextType, ReportStep, OrderStep, WatermarkStep DEF IInv
<1> QED
  BY InitIInv, <1>1, PTL DEF Spec

\* No deal is reported twice, and only deals of the table are reported, with
\* any number of kills and failed commits.
THEOREM ReportedAtMostOnce == Spec => []ReportedOnce
<1>1. IInv => ReportedOnce
  BY DEF IInv, ReportInv
<1> QED
  BY Invariant, <1>1, PTL

\* Without a failed commit or request, every deal that closed before the time
\* of the last poll is in the table.
THEOREM Watermark == Spec => []AccountedUpToStart
<1>1. IInv => AccountedUpToStart
  BY DEF IInv, WatermarkInv, Settled, AccountedUpToStart
<1> QED
  BY Invariant, <1>1, PTL
=============================================================================
