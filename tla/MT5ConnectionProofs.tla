------------------------- MODULE MT5ConnectionProofs -------------------------
(***************************************************************************)
(* The watchdog counts its failures, and every failure is an attempt to    *)
(* reconnect, a check of a weekend, or one too many.  A request counts its *)
(* attempts.  Both counts are tied to what has happened.                   *)
(***************************************************************************)
EXTENDS MT5Connection, TLAPS

\* Up to the number of attempts, each failure was an attempt or skipped.
FailuresCounted ==
    /\ failures <= MaxReinit => failures <= outage.attempts + outage.skipped
    /\ failures > MaxReinit => outage.attempts + outage.skipped >= MaxReinit

\* The first failure of an outage is announced, unless it was skipped.
FirstAnnounced ==
    /\ outage.attempts > 0 => failures > 0
    /\ failures > 0 /\ outage.skipped = 0 => outage.told

\* Of the attempts of a request, only the last has an answer that ends it.
AttemptsCounted ==
    /\ at = "request" => order.attempts < MaxRetries /\ order.result = "none"
    /\ order.placed <= order.attempts

IInv ==
    /\ TypeOK
    /\ FailuresCounted
    /\ FirstAnnounced
    /\ AttemptsCounted
    /\ GivesUpAfterTrying
    /\ DoubledOnlyBySilence

Orders == [attempts : 0..MaxRetries, silent : Nat, placed : Nat,
           result : {"none", "ticket", "failed"}]

\* An attempt with no final answer leaves the loop only when it was the last.
LEMMA RetryProperties ==
    ASSUME NEW n \in 0..MaxRetries, NEW s \in Nat, NEW p \in Nat,
           order \in Orders, order.result = "none",
           Retry([order EXCEPT !.attempts = n, !.silent = s, !.placed = p])
    PROVE  /\ order' \in Orders
           /\ order'.attempts = n /\ order'.silent = s /\ order'.placed = p
           /\ order'.result # "ticket"
           /\ at' \in {at, "idle"}
           /\ n < MaxRetries => order'.result = "none"
           /\ n = MaxRetries => at' = "idle"
  <1> DEFINE o == [order EXCEPT !.attempts = n, !.silent = s, !.placed = p]
  <1>1. o \in Orders /\ o.attempts = n /\ o.silent = s /\ o.placed = p /\ o.result = "none"
    BY DEF Orders
  <1>2. IF o.attempts = MaxRetries
        THEN order' = [o EXCEPT !.result = "failed"] /\ at' = "idle"
        ELSE order' = o /\ UNCHANGED at
    BY DEF Retry
  <1> HIDE DEF o
  <1>3. QED
    <2>1. CASE n = MaxRetries
      BY <1>1, <1>2, <2>1 DEF Orders
    <2>2. CASE n # MaxRetries
      BY <1>1, <1>2, <2>2, ConnectionAssumption
    <2>3. QED BY <2>1, <2>2

-----------------------------------------------------------------------------

LEMMA InitIInv == Init => IInv
  BY ConnectionAssumption
  DEF Init, IInv, TypeOK, FailuresCounted, FirstAnnounced, AttemptsCounted,
      GivesUpAfterTrying, DoubledOnlyBySilence, Quiet, NoOrder, MostFailures

\* What an attempt does to the request, in whatever way it ends.
LEMMA RequestEffect ==
    ASSUME TypeOK, AttemptsCounted, Request
    PROVE  /\ at = "request" /\ order.result = "none"
           /\ order' \in Orders /\ at' \in {"request", "idle"}
           /\ order'.attempts = order.attempts + 1
           /\ at' = "request" => order'.attempts < MaxRetries /\ order'.result = "none"
           /\ \/ /\ order'.placed = order.placed + 1 /\ order'.silent = order.silent
                 /\ order'.result = "ticket"
              \/ /\ order'.placed \in {order.placed, order.placed + 1}
                 /\ order'.silent = order.silent + 1
              \/ order'.placed = order.placed /\ order'.silent = order.silent
  <1> USE ConnectionAssumption
  <1>1. /\ at = "request" /\ order \in Orders
        /\ order.attempts < MaxRetries /\ order.result = "none"
    BY DEF Request, Accepted, Refused, RefusedForNow, Silent, AttemptsCounted, TypeOK, Orders
  <1>2. /\ order.attempts + 1 \in 0..MaxRetries /\ order.attempts \in Nat
        /\ order.silent \in Nat /\ order.placed \in Nat
    BY <1>1 DEF Orders
  <1>3. CASE Accepted
    <2>1. /\ order' = [order EXCEPT !.attempts = order.attempts + 1,
                                    !.placed = order.placed + 1, !.result = "ticket"]
          /\ at' = "idle"
      BY <1>3 DEF Accepted
    <2> DEFINE n == order.attempts + 1
               p == order.placed + 1
    <2>2. n \in 0..MaxRetries /\ p \in Nat /\ order' = [order EXCEPT !.attempts = n,
                                                   !.placed = p, !.result = "ticket"]
      BY <1>2, <2>1
    <2> HIDE DEF n, p
    <2>3. /\ order' \in Orders /\ order'.result = "ticket"
          /\ order'.attempts = n /\ order'.placed = p /\ order'.silent = order.silent
      BY <1>1, <2>2 DEF Orders
    <2>4. QED BY <1>1, <2>1, <2>3 DEF n, p
  <1>4. CASE Refused
    <2>1. /\ order' = [order EXCEPT !.attempts = @ + 1, !.result = "failed"]
          /\ at' = "idle"
      BY <1>4 DEF Refused
    <2>2. QED BY <1>1, <1>2, <2>1 DEF Orders
  <1>5. CASE RefusedForNow
    <2>1. [order EXCEPT !.attempts = @ + 1]
          = [order EXCEPT !.attempts = order.attempts + 1, !.silent = order.silent,
                          !.placed = order.placed]
      BY <1>1 DEF Orders
    <2>2. Retry([order EXCEPT !.attempts = order.attempts + 1, !.silent = order.silent,
                              !.placed = order.placed])
      BY <1>5, <2>1 DEF RefusedForNow
    <2>3. /\ order' \in Orders
          /\ order'.attempts = order.attempts + 1
          /\ order'.silent = order.silent /\ order'.placed = order.placed
          /\ at' \in {at, "idle"}
          /\ order.attempts + 1 < MaxRetries => order'.result = "none"
          /\ order.attempts + 1 = MaxRetries => at' = "idle"
      BY <1>1, <1>2, <2>2, RetryProperties
    <2>4. QED BY <1>1, <1>2, <2>3
  <1>6. CASE Silent
    <2>1. PICK made \in {0, 1} :
            Retry([order EXCEPT !.attempts = @ + 1, !.silent = @ + 1, !.placed = @ + made])
      BY <1>6 DEF Silent
    <2>2. [order EXCEPT !.attempts = @ + 1, !.silent = @ + 1, !.placed = @ + made]
          = [order EXCEPT !.attempts = order.attempts + 1, !.silent = order.silent + 1,
                          !.placed = order.placed + made]
      BY <1>1 DEF Orders
    <2>3. Retry([order EXCEPT !.attempts = order.attempts + 1, !.silent = order.silent + 1,
                              !.placed = order.placed + made])
      BY <2>1, <2>2
    <2>4. order.placed + made \in Nat /\ order.silent + 1 \in Nat
      BY <1>2
    <2>5. /\ order' \in Orders
          /\ order'.attempts = order.attempts + 1
          /\ order'.silent = order.silent + 1 /\ order'.placed = order.placed + made
          /\ at' \in {at, "idle"}
          /\ order.attempts + 1 < MaxRetries => order'.result = "none"
          /\ order.attempts + 1 = MaxRetries => at' = "idle"
      BY <1>1, <1>2, <2>3, <2>4, RetryProperties
    <2>6. QED BY <1>1, <1>2, <2>5
  <1>7. QED BY <1>3, <1>4, <1>5, <1>6 DEF Request

LEMMA TypeStep == IInv /\ [Next]_vars => TypeOK'
  <1> SUFFICES ASSUME IInv, [Next]_vars PROVE TypeOK'
    OBVIOUS
  <1> USE ConnectionAssumption
  <1>0. TypeOK /\ AttemptsCounted
    BY DEF IInv
  <1>1. CASE Healthy
    BY <1>0, <1>1 DEF Healthy, TypeOK, Quiet, MostFailures
  <1>2. CASE FailWeekend
    <2>1. AtMost(failures + 1, MostFailures) \in 0..MostFailures
          /\ AtMost(outage.skipped + 1, MostFailures) \in 0..MostFailures
      BY <1>0 DEF AtMost, TypeOK, MostFailures
    <2>2. QED BY <1>0, <1>2, <2>1 DEF FailWeekend, TypeOK
  <1>3. CASE Fail
    <2>1. AtMost(failures + 1, MostFailures) \in 0..MostFailures
          /\ AtMost(outage.attempts + 1, MostFailures) \in 0..MostFailures
      BY <1>0 DEF AtMost, TypeOK, MostFailures
    <2>2. QED BY <1>0, <1>3, <2>1 DEF Fail, TypeOK
  <1>4. CASE Reinit
    BY <1>0, <1>4 DEF Reinit, TypeOK
  <1>5. CASE Execute
    BY <1>0, <1>5 DEF Execute, TypeOK, NoOrder
  <1>6. CASE Request
    <2>1. at = "request" /\ order' \in Orders /\ at' \in {"request", "idle"}
      BY <1>0, <1>6, RequestEffect
    <2>2. UNCHANGED <<link, session, weekend, failures, outage>>
      BY <1>6 DEF Request, Accepted, Refused, RefusedForNow, Silent
    <2>3. QED BY <1>0, <2>1, <2>2 DEF TypeOK, Orders
  <1>7. CASE Link \/ Weekend \/ UNCHANGED vars
    BY <1>0, <1>7 DEF Link, Weekend, vars, TypeOK
  <1>8. QED
    BY <1>1, <1>2, <1>3, <1>4, <1>5, <1>6, <1>7
    DEF Next, Check

\* A step of the watchdog keeps its counts tied together.
LEMMA OutageStep ==
    IInv /\ [Next]_vars => FailuresCounted' /\ FirstAnnounced' /\ GivesUpAfterTrying'
  <1> SUFFICES ASSUME IInv, [Next]_vars
               PROVE  FailuresCounted' /\ FirstAnnounced' /\ GivesUpAfterTrying'
    OBVIOUS
  <1> USE ConnectionAssumption
  <1>0. TypeOK /\ FailuresCounted /\ FirstAnnounced /\ GivesUpAfterTrying
    BY DEF IInv
  <1>1. CASE Healthy
    BY <1>0, <1>1
    DEF Healthy, Quiet, TypeOK, FailuresCounted, FirstAnnounced, GivesUpAfterTrying
  <1>2. CASE FailWeekend
    <2> DEFINE f == AtMost(failures + 1, MostFailures)
               s == AtMost(outage.skipped + 1, MostFailures)
    <2>1. /\ f \in 0..MaxReinit + 1 /\ f <= failures + 1 /\ f > 0
          /\ f <= MaxReinit => f = failures + 1
          /\ s \in 0..MaxReinit + 1 /\ s >= outage.skipped /\ s > 0
          /\ s = outage.skipped + 1 \/ s > MaxReinit
      BY <1>0 DEF AtMost, TypeOK, MostFailures
    <2>2. /\ failures' = f
          /\ outage' = [outage EXCEPT !.skipped = s]
      BY <1>2 DEF FailWeekend
    <2>3. /\ outage'.skipped = s /\ outage'.attempts = outage.attempts
          /\ outage'.gaveUp = outage.gaveUp /\ outage'.told = outage.told
      BY <1>0, <2>2 DEF TypeOK
    <2>4. failures \in Nat /\ outage.attempts \in Nat /\ outage.skipped \in Nat
          /\ failures <= MaxReinit + 1
      BY <1>0 DEF TypeOK, MostFailures
    <2> HIDE DEF f, s
    <2>5. QED
      BY <1>0, <2>1, <2>2, <2>3, <2>4
      DEF FailuresCounted, FirstAnnounced, GivesUpAfterTrying
  <1>3. CASE Fail
    <2> DEFINE f == AtMost(failures + 1, MostFailures)
               a == AtMost(outage.attempts + 1, MostFailures)
    <2>1. /\ f \in 0..MaxReinit + 1 /\ f <= failures + 1 /\ f > 0
          /\ f <= MaxReinit => f = failures + 1
          /\ a \in 0..MaxReinit + 1 /\ a >= outage.attempts /\ a > 0
          /\ a = outage.attempts + 1 \/ a > MaxReinit
      BY <1>0 DEF AtMost, TypeOK, MostFailures
    <2>2. failures \in Nat /\ outage.attempts \in Nat /\ outage.skipped \in Nat
          /\ failures <= MaxReinit + 1
      BY <1>0 DEF TypeOK, MostFailures
    <2>3. failures = 0 => f = 1
      BY <2>1, <2>2
    <2>4. failures' = f
      BY <1>3 DEF Fail
    <2>5. CASE f <= MaxReinit
      <3>1. outage' = [outage EXCEPT !.attempts = a, !.told = @ \/ f = 1]
        BY <1>3, <2>4, <2>5 DEF Fail
      <3>2. /\ outage'.attempts = a /\ outage'.skipped = outage.skipped
            /\ outage'.gaveUp = outage.gaveUp
            /\ outage'.told <=> (outage.told \/ f = 1)
        BY <1>0, <3>1 DEF TypeOK
      <3> HIDE DEF f, a
      <3>3. QED
        BY <1>0, <2>1, <2>2, <2>3, <2>4, <2>5, <3>2
        DEF FailuresCounted, FirstAnnounced, GivesUpAfterTrying
    <2>6. CASE ~(f <= MaxReinit)
      <3>1. outage' = [outage EXCEPT !.gaveUp = TRUE, !.told = @ \/ f = 1]
        BY <1>3, <2>4, <2>6 DEF Fail
      <3>2. /\ outage'.attempts = outage.attempts /\ outage'.skipped = outage.skipped
            /\ outage'.told <=> (outage.told \/ f = 1)
        BY <1>0, <3>1 DEF TypeOK
      <3>3. failures >= MaxReinit
        BY <2>1, <2>2, <2>6
      <3> HIDE DEF f, a
      <3>4. QED
        BY <1>0, <2>1, <2>2, <2>3, <2>4, <2>6, <3>2, <3>3
        DEF FailuresCounted, FirstAnnounced, GivesUpAfterTrying
    <2>7. QED BY <2>5, <2>6
  <1>4. CASE UNCHANGED <<failures, outage>>
    BY <1>0, <1>4 DEF FailuresCounted, FirstAnnounced, GivesUpAfterTrying
  <1>5. QED
    BY <1>1, <1>2, <1>3, <1>4
    DEF Next, Check, Request, Reinit, Execute, Accepted, Refused, RefusedForNow,
        Silent, Link, Weekend, vars

\* A step of a request keeps its counts tied together.
LEMMA RequestStep ==
    IInv /\ [Next]_vars => AttemptsCounted' /\ DoubledOnlyBySilence'
  <1> SUFFICES ASSUME IInv, [Next]_vars
               PROVE  AttemptsCounted' /\ DoubledOnlyBySilence'
    OBVIOUS
  <1> USE ConnectionAssumption
  <1>0. TypeOK /\ AttemptsCounted /\ DoubledOnlyBySilence
    BY DEF IInv
  <1>1. CASE Execute
    BY <1>0, <1>1 DEF Execute, NoOrder, TypeOK, AttemptsCounted, DoubledOnlyBySilence
  <1>2. CASE Request
    <2>1. order.attempts \in Nat /\ order.silent \in Nat /\ order.placed \in Nat
          /\ order'.attempts \in 0..MaxRetries /\ MaxRetries \in Nat
          /\ order'.placed \in Nat /\ order.result # "ticket"
      BY <1>0, <1>2, RequestEffect DEF TypeOK, Orders
    <2>2. AttemptsCounted'
      BY <1>0, <1>2, <2>1, RequestEffect DEF AttemptsCounted
    <2>3. order'.placed <= order'.silent + (IF order'.result = "ticket" THEN 1 ELSE 0)
      BY <1>0, <1>2, <2>1, RequestEffect DEF DoubledOnlyBySilence
    <2>4. QED
      BY <2>1, <2>2, <2>3 DEF AttemptsCounted, DoubledOnlyBySilence
  <1>3. CASE UNCHANGED order /\ (at' = "request" => at = "request")
    BY <1>0, <1>3 DEF AttemptsCounted, DoubledOnlyBySilence
  <1>4. QED
    BY <1>1, <1>2, <1>3
    DEF Next, Check, Healthy, FailWeekend, Fail, Reinit, Link, Weekend, vars

-----------------------------------------------------------------------------
(* The theorems                                                            *)

\* The inductive invariant of the watchdog and of a request.
THEOREM Invariant == Spec => []IInv
  <1>1. IInv /\ [Next]_vars => IInv'
    BY TypeStep, OutageStep, RequestStep DEF IInv
  <1>2. QED BY InitIInv, <1>1, PTL DEF Spec

\* The watchdog tells the operator that it has given up only after the attempts
\* that the configuration allows, whatever their number (_health_check).
THEOREM GivesUpLate == Spec => []GivesUpAfterTrying
  BY Invariant, PTL DEF IInv

\* A session is shut down only in an outage that was announced, or whose first
\* failure was on a weekend (_health_check).
THEOREM Announced == Spec => []LossAnnounced
  <1>1. IInv => LossAnnounced
    BY DEF IInv, TypeOK, FirstAnnounced, LossAnnounced
  <1>2. QED BY Invariant, <1>1, PTL

\* A request makes one order more than its unanswered attempts at most, for any
\* number of retries (execute).
THEOREM DoubledBySilence == Spec => []DoubledOnlyBySilence
  BY Invariant, PTL DEF IInv
=============================================================================
