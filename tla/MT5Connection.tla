---------------------------- MODULE MT5Connection ----------------------------
(***************************************************************************)
(* The connection to the MT5 terminal.  MT5Watchdog asks for the account   *)
(* every interval and, after a failure, shuts the session down and opens   *)
(* it again; TradeExecutor sends an order request up to MaxRetries times.  *)
(*                                                                         *)
(* Both block the asyncio loop while they sleep, so a check never runs     *)
(* within a request nor the other way round; the link to the broker may    *)
(* come and go at any time, also in the middle of either.                  *)
(* Variants with a bug precede some definitions.                           *)
(***************************************************************************)
EXTENDS Integers

CONSTANTS
    MaxReinit,      \* max_reinit_retries
    MaxRetries      \* max_retries of execute

ASSUME ConnectionAssumption ==
    MaxReinit \in Nat \ {0} /\ MaxRetries \in Nat \ {0}

VARIABLES
    link,           \* the broker answers the terminal
    session,        \* mt5.initialize succeeded and mt5.shutdown was not called
    weekend,        \* _is_market_closed
    failures,       \* _consecutive_failures; more than MaxReinit + 1 are counted
                    \* as MaxReinit + 1
    at,             \* "idle", "reinit": the session is shut down, "request"
    outage,         \* history: what happened since the last healthy check
    order           \* the last request: attempts made, those without an answer,
                    \* orders the broker made of it, and the result

vars == <<link, session, weekend, failures, at, outage, order>>

Quiet == [attempts |-> 0, skipped |-> 0, told |-> FALSE, gaveUp |-> FALSE]
NoOrder == [attempts |-> 0, silent |-> 0, placed |-> 0, result |-> "none"]
MostFailures == MaxReinit + 1

TypeOK ==
    /\ link \in BOOLEAN /\ session \in BOOLEAN /\ weekend \in BOOLEAN
    /\ failures \in 0..MostFailures
    /\ at \in {"idle", "reinit", "request"}
    /\ outage \in [attempts : 0..MostFailures, skipped : 0..MostFailures,
                   told : BOOLEAN, gaveUp : BOOLEAN]
    /\ order \in [attempts : 0..MaxRetries, silent : Nat, placed : Nat,
                  result : {"none", "ticket", "failed"}]

\* account_info is not None.
Connected == session /\ link

-----------------------------------------------------------------------------
(* MT5Watchdog                                                             *)

AtMost(n, bound) == IF n > bound THEN bound ELSE n

Healthy ==
    /\ at = "idle"
    /\ Connected
    /\ failures' = 0
    /\ outage' = Quiet
    /\ UNCHANGED <<link, session, weekend, at, order>>

\* A failure of a weekend is counted, and nothing else.
FailWeekend ==
    /\ at = "idle"
    /\ ~Connected /\ weekend
    /\ failures' = AtMost(failures + 1, MostFailures)
    /\ outage' = [outage EXCEPT !.skipped = AtMost(@ + 1, MostFailures)]
    /\ UNCHANGED <<link, session, weekend, at, order>>

FailOffByOne ==
    /\ at = "idle"
    /\ ~Connected /\ ~weekend
    /\ failures' = AtMost(failures + 1, MostFailures)
    /\ IF failures' < MaxReinit
       THEN /\ session' = FALSE
            /\ at' = "reinit"
            /\ outage' = [outage EXCEPT !.attempts = AtMost(@ + 1, MostFailures),
                                !.told = @ \/ failures' = 1]
       ELSE /\ outage' = [outage EXCEPT !.gaveUp = TRUE, !.told = @ \/ failures' = 1]
            /\ UNCHANGED <<session, at>>
    /\ UNCHANGED <<link, weekend, order>>

FailToldLate ==
    /\ at = "idle"
    /\ ~Connected /\ ~weekend
    /\ failures' = AtMost(failures + 1, MostFailures)
    /\ IF failures' <= MaxReinit
       THEN /\ session' = FALSE
            /\ at' = "reinit"
            /\ outage' = [outage EXCEPT !.attempts = AtMost(@ + 1, MostFailures),
                                !.told = @ \/ failures = 1]
       ELSE /\ outage' = [outage EXCEPT !.gaveUp = TRUE, !.told = @ \/ failures = 1]
            /\ UNCHANGED <<session, at>>
    /\ UNCHANGED <<link, weekend, order>>

\* The first failure calls on_connection_lost; up to MaxReinit failures shut the
\* session down for an attempt, the others call on_reinit_exhausted.
Fail ==
    /\ at = "idle"
    /\ ~Connected /\ ~weekend
    /\ failures' = AtMost(failures + 1, MostFailures)
    /\ IF failures' <= MaxReinit
       THEN /\ session' = FALSE
            /\ at' = "reinit"
            /\ outage' = [outage EXCEPT !.attempts = AtMost(@ + 1, MostFailures),
                                !.told = @ \/ failures' = 1]
       ELSE /\ outage' = [outage EXCEPT !.gaveUp = TRUE, !.told = @ \/ failures' = 1]
            /\ UNCHANGED <<session, at>>
    /\ UNCHANGED <<link, weekend, order>>

ReinitForgets ==
    /\ at = "reinit"
    /\ session' = link
    /\ at' = "idle"
    /\ failures' = 0
    /\ UNCHANGED <<link, weekend, outage, order>>

\* After the delay: init_mt5 opens a session, if there is an account.
Reinit ==
    /\ at = "reinit"
    /\ session' = link
    /\ at' = "idle"
    /\ UNCHANGED <<link, weekend, failures, outage, order>>

Check == Healthy \/ FailWeekend \/ Fail

-----------------------------------------------------------------------------
(* TradeExecutor.execute                                                   *)

Execute ==
    /\ at = "idle"
    /\ at' = "request"
    /\ order' = NoOrder
    /\ UNCHANGED <<link, session, weekend, failures, outage>>

\* The loop goes on, or all attempts are used up.
Retry(o) ==
    IF o.attempts = MaxRetries
    THEN order' = [o EXCEPT !.result = "failed"] /\ at' = "idle"
    ELSE order' = o /\ UNCHANGED at

AcceptedRetried ==
    /\ at = "request" /\ Connected
    /\ Retry([order EXCEPT !.attempts = @ + 1, !.placed = @ + 1])
    /\ UNCHANGED <<link, session, weekend, failures, outage>>

\* The order is made and the answer has its ticket.
Accepted ==
    /\ at = "request" /\ Connected
    /\ order' = [order EXCEPT !.attempts = @ + 1, !.placed = @ + 1, !.result = "ticket"]
    /\ at' = "idle"
    /\ UNCHANGED <<link, session, weekend, failures, outage>>

\* A return code that is not retried.
Refused ==
    /\ at = "request" /\ Connected
    /\ order' = [order EXCEPT !.attempts = @ + 1, !.result = "failed"]
    /\ at' = "idle"
    /\ UNCHANGED <<link, session, weekend, failures, outage>>

\* A return code that is retried: no order is made.
RefusedForNow ==
    /\ at = "request" /\ session
    /\ Retry([order EXCEPT !.attempts = @ + 1])
    /\ UNCHANGED <<link, session, weekend, failures, outage>>

\* order_send returns None, whatever the broker has done.
Silent ==
    /\ at = "request"
    /\ \E made \in {0} \cup {n \in {1} : Connected} :
          Retry([order EXCEPT !.attempts = @ + 1, !.silent = @ + 1, !.placed = @ + made])
    /\ UNCHANGED <<link, session, weekend, failures, outage>>

-----------------------------------------------------------------------------
(* The world                                                               *)

Link ==
    /\ link' = ~link
    /\ UNCHANGED <<session, weekend, failures, at, outage, order>>

\* The day is asked for only at the start of a check.
Weekend ==
    /\ at = "idle"
    /\ weekend' = ~weekend
    /\ UNCHANGED <<link, session, failures, at, outage, order>>

\* The bot starts only with a connection.
Init ==
    /\ link = TRUE /\ session = TRUE
    /\ weekend \in BOOLEAN
    /\ failures = 0
    /\ at = "idle"
    /\ outage = Quiet
    /\ order = NoOrder

Request == Accepted \/ Refused \/ RefusedForNow \/ Silent

Next == Check \/ Reinit \/ Execute \/ Request \/ Link \/ Weekend

Spec == Init /\ [][Next]_vars

\* The loop runs on, the monitor's sleep ends although orders are executed in
\* between, and weekends end: some check finds the market open.
FairSpec ==
    /\ Spec
    /\ WF_vars(Reinit) /\ WF_vars(Request)
    /\ SF_vars(Healthy) /\ SF_vars(Fail) /\ SF_vars(FailWeekend)
    /\ SF_vars(weekend /\ Weekend)

-----------------------------------------------------------------------------
(* Properties                                                              *)

\* The watchdog gives up only after MaxReinit attempts, but for those that
\* failures of a weekend have used up without one being made (_health_check).
GivesUpAfterTrying ==
    outage.gaveUp => outage.attempts + outage.skipped >= MaxReinit

\* Once the session has been shut down, the operator has been told that the
\* connection is lost, except in an outage that a weekend's check found: its
\* first failure passes silently and the next is not the first (_health_check).
LossAnnounced ==
    outage.attempts > 0 /\ outage.skipped = 0 => outage.told

\* The broker makes at most one order more of a request than requests stayed
\* without an answer, and none that the bot does not know of when all were
\* answered: a retry can only double what got no answer (execute).
DoubledOnlyBySilence ==
    /\ order.placed <= order.silent + (IF order.result = "ticket" THEN 1 ELSE 0)
    /\ order.placed <= MaxRetries

\* An outage ends, or the operator is told that the watchdog has given up,
\* however the link comes and goes (_monitor_loop, _attempt_reinit).
OutageEnds == ~Connected ~> (Connected \/ outage.gaveUp)
=============================================================================
