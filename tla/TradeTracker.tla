---------------------------- MODULE TradeTracker ----------------------------
(***************************************************************************)
(* TradeTracker: it polls the deals MT5 has executed since the last poll,  *)
(* records the closing ones in the table trades and reports each as a      *)
(* reply to the signal.  The time of the last poll is in tracker_state.    *)
(*                                                                         *)
(* Sending a report gives the loop to the other handlers, which place,     *)
(* close and record orders in the middle of a batch of deals.  The broker  *)
(* executes deals at any time.  A kill may come between any two commits; a *)
(* commit, or the request for deals, may fail.                             *)
(*                                                                         *)
(* Simplifications: deals of other programs (other magic numbers) are left *)
(* out; time is counted in seconds as MT5 rounds it, from the first start  *)
(* of the tracker; the position of a market order has the ticket of the    *)
(* order, the position of a limit order one of its own, as the docstring   *)
(* of update_position_ticket has it; nothing is deleted in the dashboard.  *)
(* Variants with a bug precede some definitions.                           *)
(***************************************************************************)
EXTENDS Integers, Sequences

CONSTANTS
    Orders,         \* tickets of the orders the bot may place
    Limits,         \* those that are limit orders
    ReplyTtl,       \* _REPLY_CLOSED_TTL
    PartialCooldown, \* _PARTIAL_REPLY_COOLDOWN
    MaxDeals,       \* bound: deals
    MaxTime,        \* bound: the clock
    MaxCrashes,     \* bound: kills of the process
    MaxDbFaults,    \* bound: failed commits
    MaxNoAnswers    \* bound: requests for deals without an answer

ASSUME TrackerAssumption ==
    /\ Limits \subseteq Orders
    /\ ReplyTtl \in Nat /\ PartialCooldown \in Nat
    /\ MaxDeals \in Nat /\ MaxTime \in Nat
    /\ MaxCrashes \in Nat /\ MaxDbFaults \in Nat /\ MaxNoAnswers \in Nat

Deals == 1..MaxDeals

VARIABLES
    \* the broker
    status,     \* status[o]: "none", "pending", "open" or "closed"
    deals,      \* the deals executed so far, in order of time
    now,
    \* the database
    recorded,   \* orders in the table orders
    linked,     \* those with a position_ticket
    stored,     \* deals in the table trades
    start,      \* last_deal_poll_time
    \* TradeTracker
    marks,      \* marks[o]: seconds left of the mark in _reply_closed
    quiet,      \* quiet[o]: seconds left of the pause in _partial_reply_times
    at,         \* where the poll is
    batch,      \* deals it still has to process
    upTo,       \* to_time
    cur,        \* the deal being reported, 0: none
    \* Telegram and bounds
    reports,    \* reports[d]: reports of a deal sent
    crashes, dbFaults, noAnswers

broker == <<status, deals>>
database == <<recorded, linked, stored, start>>
memory == <<marks, quiet>>
poll == <<at, batch, upTo, cur>>
faults == <<crashes, dbFaults, noAnswers>>
vars == <<broker, now, database, memory, poll, reports, faults>>

Deal == [kind : {"in", "out"}, order : Orders, time : Nat, partial : BOOLEAN]

TypeOK ==
    /\ status \in [Orders -> {"none", "pending", "open", "closed"}]
    /\ deals \in Seq(Deal) /\ Len(deals) <= MaxDeals
    /\ now \in 0..MaxTime
    /\ recorded \subseteq Orders /\ linked \subseteq Orders
    /\ stored \subseteq DOMAIN deals
    /\ start \in 0..now
    /\ marks \in [Orders -> 0..ReplyTtl]
    /\ quiet \in [Orders -> 0..PartialCooldown]
    /\ at \in {"idle", "deals", "report", "again", "down"}
    /\ batch \subseteq DOMAIN deals
    /\ upTo \in 0..now
    /\ cur \in {0} \cup DOMAIN deals
    /\ reports \in [Deals -> Nat]
    /\ crashes \in Nat /\ dbFaults \in Nat /\ noAnswers \in Nat

Nobody == [o \in Orders |-> 0]

Init ==
    /\ status = [o \in Orders |-> "none"]
    /\ deals = <<>> /\ now = 0
    /\ recorded = {} /\ linked = {} /\ stored = {} /\ start = 0
    /\ marks = Nobody /\ quiet = Nobody
    /\ at = "idle" /\ batch = {} /\ upTo = 0 /\ cur = 0
    /\ reports = [d \in Deals |-> 0]
    /\ crashes = 0 /\ dbFaults = 0 /\ noAnswers = 0

-----------------------------------------------------------------------------
(* The broker and the other handlers                                       *)

Executed(kind, o, partial) ==
    /\ Len(deals) < MaxDeals
    /\ deals' = Append(deals, [kind |-> kind, order |-> o, time |-> now, partial |-> partial])

CanFail == dbFaults < MaxDbFaults
Failed == CanFail /\ dbFaults' = dbFaults + 1

\* The loop runs other handlers while the tracker sleeps or sends a report.
LoopFree == at \in {"idle", "report"}

\* A handler places an order and records it before it gives the loop back.  If
\* the commit fails the order has no record.
Place(o) ==
    /\ LoopFree /\ status[o] = "none"
    /\ IF o \in Limits
       THEN status' = [status EXCEPT ![o] = "pending"] /\ UNCHANGED deals
       ELSE status' = [status EXCEPT ![o] = "open"] /\ Executed("in", o, FALSE)
    /\ \/ recorded' = recorded \cup {o} /\ UNCHANGED dbFaults
       \/ Failed /\ UNCHANGED recorded
    /\ UNCHANGED <<now, linked, stored, start, memory, poll, reports, crashes, noAnswers>>

Fill(o) ==
    /\ status[o] = "pending"
    /\ status' = [status EXCEPT ![o] = "open"]
    /\ Executed("in", o, FALSE)
    /\ UNCHANGED <<now, database, memory, poll, reports, faults>>

\* A stop, a target or a hand closes the position.
End(o) ==
    /\ status[o] = "open"
    /\ status' = [status EXCEPT ![o] = "closed"]
    /\ Executed("out", o, FALSE)
    /\ UNCHANGED <<now, database, memory, poll, reports, faults>>

\* PositionManager closes a part.
PartialClose(o) ==
    /\ LoopFree /\ status[o] = "open"
    /\ Executed("out", o, TRUE)
    /\ UNCHANGED <<status, now, database, memory, poll, reports, faults>>

\* A reply closes the position, and mark_reply_closed marks the order's ticket.
\* (Replies find positions by the ticket of the order.)
ReplyClose(o) ==
    /\ LoopFree /\ status[o] = "open" /\ o \in recorded \ Limits
    /\ status' = [status EXCEPT ![o] = "closed"]
    /\ Executed("out", o, FALSE)
    /\ marks' = [marks EXCEPT ![o] = ReplyTtl]
    /\ UNCHANGED <<now, database, quiet, poll, reports, faults>>

LessUnbounded(n) == n - 1
Less(n) == IF n > 0 THEN n - 1 ELSE 0

Tick ==
    /\ now < MaxTime
    /\ now' = now + 1
    /\ marks' = [o \in Orders |-> Less(marks[o])]
    /\ quiet' = [o \in Orders |-> Less(quiet[o])]
    /\ UNCHANGED <<broker, database, poll, reports, faults>>

-----------------------------------------------------------------------------
(* The poll: _poll_deals                                                   *)

\* history_deals_get includes both ends of the window.
WindowOpenAtStart == {d \in DOMAIN deals : start < deals[d].time}
Window == {d \in DOMAIN deals : start <= deals[d].time}

\* A request without an answer counts as one without deals.
PollStart ==
    /\ at \in {"idle", "again"}
    /\ upTo' = now
    /\ \/ batch' = Window /\ UNCHANGED noAnswers
       \/ /\ noAnswers < MaxNoAnswers /\ noAnswers' = noAnswers + 1
          /\ batch' = {}
    /\ at' = "deals" /\ cur' = 0
    /\ UNCHANGED <<broker, now, database, memory, reports, crashes, dbFaults>>

\* A market order is found by the ticket, a limit order by position_ticket.
Resolved(o) == o \in recorded /\ (o \in Limits => o \in linked)

\* The deal that opened a position: the order gets its position_ticket.
Opening(d) ==
    LET o == deals[d].order
    IN  /\ \/ /\ linked' = IF o \in recorded THEN linked \cup {o} ELSE linked
              /\ UNCHANGED dbFaults
           \/ o \in recorded \ linked /\ Failed /\ UNCHANGED linked
        /\ UNCHANGED <<stored, memory, at, cur>>

\* A closing deal is stored unless it is there already (deal_ticket is UNIQUE),
\* and reported unless a reply closed the position or a part of it was reported
\* a moment ago.  A mark is used up.  An exception drops the deal.
NewWithoutKey(d) == TRUE
New(d) == d \notin stored

Closing(d) ==
    LET o == deals[d].order
        muted == marks[o] > 0
        throttled == deals[d].partial /\ quiet[o] > 0
    IN  /\ UNCHANGED linked
        /\ IF ~Resolved(o) \/ ~New(d)
           THEN UNCHANGED <<stored, memory, at, cur, dbFaults>>
           ELSE \/ /\ stored' = stored \cup {d}
                   /\ marks' = [marks EXCEPT ![o] = 0]
                   /\ quiet' = IF deals[d].partial /\ ~muted /\ ~throttled
                               THEN [quiet EXCEPT ![o] = PartialCooldown] ELSE quiet
                   /\ IF muted \/ throttled THEN UNCHANGED <<at, cur>>
                      ELSE at' = "report" /\ cur' = d
                   /\ UNCHANGED dbFaults
                \/ Failed /\ UNCHANGED <<stored, memory, at, cur>>

\* The deals of the batch, oldest first.
ProcessDeal(d) ==
    /\ at = "deals" /\ d \in batch
    /\ \A e \in batch : d <= e
    /\ batch' = batch \ {d}
    /\ IF deals[d].kind = "in" THEN Opening(d) ELSE Closing(d)
    /\ UNCHANGED <<broker, now, recorded, start, upTo, reports, crashes, noAnswers>>

\* The report arrives, or Telegram refuses it, which is logged.
Report ==
    /\ at = "report"
    /\ at' = "deals" /\ cur' = 0
    /\ reports' \in {reports, [reports EXCEPT ![cur] = @ + 1]}
    /\ UNCHANGED <<broker, now, database, memory, batch, upTo, faults>>

\* If the time cannot be saved, the loop polls again without a pause.
SavePollTime ==
    /\ at = "deals" /\ batch = {}
    /\ \/ start' = upTo /\ at' = "idle" /\ UNCHANGED dbFaults
       \/ Failed /\ at' = "again" /\ UNCHANGED start
    /\ UNCHANGED <<broker, now, recorded, linked, stored, memory, batch, upTo,
                   cur, reports, crashes, noAnswers>>

Crash ==
    /\ at # "down" /\ crashes < MaxCrashes
    /\ crashes' = crashes + 1
    /\ marks' = Nobody /\ quiet' = Nobody
    /\ at' = "down" /\ batch' = {} /\ upTo' = 0 /\ cur' = 0
    /\ UNCHANGED <<broker, now, database, reports, dbFaults, noAnswers>>

\* The tracker polls at once.
Restart ==
    /\ at = "down"
    /\ at' = "idle"
    /\ UNCHANGED <<broker, now, database, memory, batch, upTo, cur, reports, faults>>

-----------------------------------------------------------------------------
Poll == (\E d \in Deals : ProcessDeal(d)) \/ Report \/ SavePollTime

World(o) == Place(o) \/ Fill(o) \/ End(o) \/ PartialClose(o) \/ ReplyClose(o)

Next ==
    \/ \E o \in Orders : World(o)
    \/ Tick
    \/ PollStart \/ Poll
    \/ Crash \/ Restart

Spec == Init /\ [][Next]_vars

\* A poll goes on, the timer of the next fires although other handlers run,
\* and a supervisor restarts the process.
FairSpec ==
    Spec /\ WF_vars(Poll) /\ SF_vars(PollStart) /\ WF_vars(Restart)

-----------------------------------------------------------------------------
(* Safety                                                                  *)

\* No deal is reported twice, and none is reported that is not in the table:
\* not when windows overlap, a poll is repeated, or the process is killed
\* between the commit of a trade and that of the time of the poll.
ReportedOnce ==
    \A d \in Deals : reports[d] <= 1 /\ (reports[d] = 1 => d \in stored)

NoFaults == dbFaults = 0 /\ noAnswers = 0

\* The time of the last poll is a watermark: what closed before it is in the
\* table, if no commit and no request failed, whatever happened during the
\* batches and however often the process was killed.
AccountedUpToStart ==
    NoFaults =>
        \A d \in DOMAIN deals :
            deals[d].kind = "out" /\ deals[d].time < start => d \in stored

-----------------------------------------------------------------------------
(* Liveness                                                                *)

\* Every closing deal gets into the table (under the same condition), also one
\* of the second in which the poll looked.
EveryCloseStored ==
    \A d \in Deals :
        d \in DOMAIN deals /\ deals[d].kind = "out" ~> d \in stored \/ ~NoFaults

=============================================================================
