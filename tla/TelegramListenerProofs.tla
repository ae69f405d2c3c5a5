------------------------ MODULE TelegramListenerProofs ------------------------
(***************************************************************************)
(* The clients that count are those connected and those that a coroutine   *)
(* is starting, without self._client.  They are no more than the retries,  *)
(* and fewer where the two coroutines are about to add one: a retry paid   *)
(* for, a reset that finds a client of a retry in its way.                 *)
(***************************************************************************)
EXTENDS TelegramListener, FiniteSetTheorems, TLAPS

\* A client that a coroutine is starting, whatever became of it meanwhile.
Held == (IF main = "starting" THEN {mainOn} ELSE {})
            \cup (IF reset = "starting" THEN {resetOn} ELSE {})

Active == Open \cup Held
Others == Active \ {current}

Num(cond) == IF cond THEN 1 ELSE 0

\* The retry in progress is counted, and its client not yet there.
Paid == Num(main = "backoff")

\* A retry has replaced the client that the reset has closed.
Overtaken == Num(reset = "disconnected" /\ current \in Active)

\* A retry from rest had lost its client.
FromRest == Num(settled /\ main = "starting")
Lost == Num(settled /\ current \in Active /\ mainOn \notin Active)

Slack == Paid + Overtaken + FromRest + Lost

OthersBounded == Cardinality(Others) + Slack <= retry

\* A reset starts from rest, and a retry from rest has lost its client.
RestFirst ==
    settled => /\ reset = "sleep"
               /\ main = "backoff" => state[mainOn] # "open"

RetriesLeft == main # "ended" => retry <= MaxRetries

IInv == TypeOK /\ RestFirst /\ RetriesLeft /\ OthersBounded

-----------------------------------------------------------------------------
(* Counting clients                                                        *)

\* Sets of clients are finite, and a smaller set counts less.
LEMMA CountClients ==
    ASSUME NEW S \in SUBSET Clients
    PROVE  /\ Cardinality(S) \in Nat
           /\ \A T \in SUBSET S : Cardinality(T) <= Cardinality(S)
           /\ \A x \in S : \A T \in SUBSET (S \ {x}) : Cardinality(T) + 1 <= Cardinality(S)
           /\ \A x \in Clients : \A T \in SUBSET (S \cup {x}) : Cardinality(T) <= Cardinality(S) + 1
  <1>1. IsFiniteSet(Clients)
    BY FS_Interval, ListenerAssumption DEF Clients
  <1>2. IsFiniteSet(S) /\ Cardinality(S) \in Nat
    BY <1>1, FS_Subset, FS_CardinalityType
  <1>3. \A T \in SUBSET S : Cardinality(T) <= Cardinality(S)
    BY <1>2, FS_Subset
  <1>4. ASSUME NEW x \in S, NEW T \in SUBSET (S \ {x})
        PROVE  Cardinality(T) + 1 <= Cardinality(S)
    <2>1. /\ IsFiniteSet(S \ {x})
          /\ Cardinality(S \ {x}) = Cardinality(S) - 1
      BY <1>2, FS_RemoveElement
    <2>2. Cardinality(T) <= Cardinality(S \ {x}) /\ Cardinality(T) \in Nat
      BY <2>1, FS_Subset, FS_CardinalityType
    <2>3. QED BY <1>2, <2>1, <2>2
  <1>5. ASSUME NEW x \in Clients, NEW T \in SUBSET (S \cup {x})
        PROVE  Cardinality(T) <= Cardinality(S) + 1
    <2>1. /\ IsFiniteSet(S \cup {x})
          /\ Cardinality(S \cup {x}) <= Cardinality(S) + 1
      BY <1>2, FS_AddElement
    <2>2. /\ Cardinality(T) <= Cardinality(S \cup {x})
          /\ Cardinality(T) \in Nat /\ Cardinality(S \cup {x}) \in Nat
      BY <2>1, FS_Subset, FS_CardinalityType
    <2>3. QED BY <1>2, <2>1, <2>2
  <1>6. QED BY <1>2, <1>3, <1>4, <1>5

LEMMA OthersTyped ==
    ASSUME TypeOK
    PROVE  /\ Others \in SUBSET Clients /\ Active \in SUBSET Clients
           /\ Cardinality(Others) \in Nat
  <1>1. Others \in SUBSET Clients /\ Active \in SUBSET Clients
    BY DEF TypeOK, Others, Active, Open, Held
  <1>2. QED BY <1>1, CountClients

LEMMA TypedNext == ASSUME TypeOK, RetriesLeft, [Next]_vars PROVE TypeOK' /\ RetriesLeft'
  <1> USE ListenerAssumption DEF TypeOK, RetriesLeft
  <1>1. CASE Woken
    BY <1>1 DEF Woken, CountRetry, listener
  <1>2. CASE Reconnect
    BY <1>2 DEF Reconnect, Create
  <1>3. CASE Reconnected
    BY <1>3 DEF Reconnected, Started
  <1>4. CASE ReconnectFailed
    BY <1>4 DEF ReconnectFailed, Failed, CountRetry
  <1>5. CASE Resume
    BY <1>5 DEF Resume, listener
  <1>6. CASE Disconnect
    <2>1. state' \in [Clients -> {"none", "starting", "open", "closed"}]
      BY <1>6 DEF Disconnect
    <2>2. resets' \in 0..MaxResets
      BY <1>6 DEF Disconnect
    <2>3. QED BY <1>6, <2>1, <2>2 DEF Disconnect
  <1>7. CASE ResetConnect
    BY <1>7 DEF ResetConnect, Create
  <1>8. CASE Reset
    BY <1>8 DEF Reset, Started
  <1>9. CASE ResetFailed
    BY <1>9 DEF ResetFailed, Failed
  <1>10. CASE Settle
    BY <1>10 DEF Settle, listener
  <1>11. ASSUME NEW c \in Clients, Drop(c) PROVE TypeOK' /\ RetriesLeft'
    BY <1>11 DEF Drop
  <1>12. CASE UNCHANGED vars
    BY <1>12 DEF vars, listener
  <1>13. QED
    BY <1>1, <1>2, <1>3, <1>4, <1>5, <1>6, <1>7, <1>8, <1>9, <1>10, <1>11, <1>12
       DEF Next, Main, ResetLoop

\* If no other client is added and nothing new is owed, the bound stays.
LEMMA FewerOthers ==
    ASSUME IInv, TypeOK', Others' \subseteq Others, Slack' - retry' <= Slack - retry
    PROVE  OthersBounded'
  <1>1. Others \in SUBSET Clients /\ Cardinality(Others) \in Nat
    BY OthersTyped DEF IInv
  <1>2. Cardinality(Others') <= Cardinality(Others)
    BY <1>1, CountClients
  <1>3. Cardinality(Others') \in Nat
    BY <1>1, CountClients
  <1>4. Slack \in Int /\ Slack' \in Int /\ retry \in Int /\ retry' \in Int
    BY ListenerAssumption DEF Slack, Paid, Overtaken, FromRest, Lost, Num, IInv, TypeOK
  <1>5. Cardinality(Others) + Slack <= retry
    BY DEF IInv, OthersBounded
  <1>6. \A n, m \in Nat, s, t, r, q \in Int :
            n + s <= r /\ m <= n /\ t - q <= s - r => m + t <= q
    OBVIOUS
  <1>7. QED BY <1>1, <1>2, <1>3, <1>4, <1>5, <1>6 DEF OthersBounded

\* A new client leaves the one it replaces among the others.
LEMMA OneMore ==
    ASSUME IInv, TypeOK', Others' \subseteq Others \cup {current},
           Slack' - retry' < Slack - retry
    PROVE  OthersBounded'
  <1>1. Others \in SUBSET Clients /\ Cardinality(Others) \in Nat /\ current \in Clients
    BY OthersTyped DEF IInv, TypeOK
  <1>2. Cardinality(Others') <= Cardinality(Others) + 1
    BY <1>1, CountClients
  <1>3. Cardinality(Others') \in Nat
    <2>1. Others' \in SUBSET Clients
      BY <1>1
    <2>2. QED BY <2>1, CountClients
  <1>4. Slack \in Int /\ Slack' \in Int /\ retry \in Int /\ retry' \in Int
    BY ListenerAssumption DEF Slack, Paid, Overtaken, FromRest, Lost, Num, IInv, TypeOK
  <1>5. Cardinality(Others) + Slack <= retry
    BY DEF IInv, OthersBounded
  <1>6. \A n, m \in Nat, s, t, r, q \in Int :
            n + s <= r /\ m <= n + 1 /\ t - q < s - r => m + t <= q
    OBVIOUS
  <1>7. QED BY <1>1, <1>2, <1>3, <1>4, <1>5, <1>6 DEF OthersBounded

-----------------------------------------------------------------------------
LEMMA BoundedNext == ASSUME IInv, [Next]_vars PROVE OthersBounded'
  <1>1. TypeOK /\ RestFirst
    BY DEF IInv
  <1>2. TypeOK'
    BY TypedNext DEF IInv
  <1> DEFINE Slacks == Slack' - retry' <= Slack - retry
  <1>3. CASE Woken
    <2>1. /\ Active' \subseteq Active /\ Others' \subseteq Others
          /\ current' \in Active' <=> current \in Active
          /\ mainOn' \in Active' <=> mainOn \in Active
      BY <1>3 DEF Woken, CountRetry, listener, Active, Others, Open, Held
    <2>2. Slacks
      BY <1>1, <1>3, <2>1, ListenerAssumption
         DEF Woken, CountRetry, listener, TypeOK, Slack, Paid, Overtaken, FromRest, Lost, Num
    <2>3. QED BY <1>2, <2>1, <2>2, FewerOthers
  <1>4. CASE Reconnect
    <2>1. Others' \subseteq Others \cup ({current} \cap Active)
      BY <1>1, <1>4 DEF Reconnect, Create, TypeOK, Active, Others, Open, Held
    <2>2. current' \in Active' /\ mainOn' \in Active'
      BY <1>1, <1>4 DEF Reconnect, Create, TypeOK, Active, Held
    <2>3. settled => mainOn \notin Active
      BY <1>1, <1>4 DEF Reconnect, RestFirst, Active, Open, Held
    <2>4. CASE current \in Active
      <3>1. Slack' - retry' < Slack - retry
        BY <1>1, <1>4, <2>2, <2>3, <2>4, ListenerAssumption
           DEF Reconnect, TypeOK, RestFirst, Slack, Paid, Overtaken, FromRest, Lost, Num
      <3>2. QED BY <1>2, <2>1, <3>1, OneMore
    <2>5. CASE current \notin Active
      <3>1. Slacks
        BY <1>1, <1>4, <2>2, <2>5, ListenerAssumption
           DEF Reconnect, TypeOK, RestFirst, Slack, Paid, Overtaken, FromRest, Lost, Num
      <3>2. Others' \subseteq Others
        BY <2>1, <2>5
      <3>3. QED BY <1>2, <3>1, <3>2, FewerOthers
    <2>6. QED BY <2>4, <2>5
  <1>5. CASE Reconnected
    <2>1. Active' \subseteq Active /\ Others' \subseteq Others
      BY <1>1, <1>5 DEF Reconnected, Started, TypeOK, Active, Others, Open, Held
    <2>2. current' = current /\ mainOn' = current
      BY <1>5 DEF Reconnected, Started
    <2>3. Slacks
      BY <1>1, <1>5, <2>1, <2>2, ListenerAssumption
         DEF Reconnected, TypeOK, RestFirst, Slack, Paid, Overtaken, FromRest, Lost, Num
    <2>4. QED BY <1>2, <2>1, <2>3, FewerOthers
  <1>6. CASE ReconnectFailed
    <2>1. Active' \subseteq Active /\ Others' \subseteq Others /\ current' = current
      BY <1>1, <1>6 DEF ReconnectFailed, Failed, CountRetry, TypeOK, Active, Others, Open, Held
    <2>2. Slacks
      BY <1>1, <1>6, <2>1, ListenerAssumption
         DEF ReconnectFailed, CountRetry, TypeOK, RestFirst,
             Slack, Paid, Overtaken, FromRest, Lost, Num
    <2>3. QED BY <1>2, <2>1, <2>2, FewerOthers
  <1>7. CASE Resume
    <2>1. Active' \subseteq Active /\ Others' \subseteq Others
          /\ current' = current /\ mainOn' = current
      BY <1>7 DEF Resume, listener, Active, Others, Open, Held
    <2>2. Slacks
      BY <1>1, <1>7, <2>1, ListenerAssumption
         DEF Resume, TypeOK, RestFirst, Slack, Paid, Overtaken, FromRest, Lost, Num
    <2>3. QED BY <1>2, <2>1, <2>2, FewerOthers
  <1>8. CASE Disconnect
    <2>1. Active' \subseteq Active /\ Others' \subseteq Others
      BY <1>1, <1>8 DEF Disconnect, TypeOK, Active, Others, Open, Held
    <2>2. current' \in Active' => main = "starting"
      BY <1>1, <1>8 DEF Disconnect, TypeOK, Active, Open, Held
    <2>3. Slacks
      BY <1>1, <1>8, <2>1, <2>2, ListenerAssumption
         DEF Disconnect, TypeOK, RestFirst, Slack, Paid, Overtaken, FromRest, Lost, Num
    <2>4. QED BY <1>2, <2>1, <2>3, FewerOthers
  <1>9. CASE ResetConnect
    <2>1. Others' \subseteq Others \cup ({current} \cap Active)
      BY <1>1, <1>9 DEF ResetConnect, Create, TypeOK, Active, Others, Open, Held
    <2>2. ~settled /\ ~settled'
      BY <1>1, <1>9 DEF ResetConnect, RestFirst
    <2>3. CASE current \in Active
      <3>1. Slack' - retry' < Slack - retry
        BY <1>1, <1>9, <2>2, <2>3, ListenerAssumption
           DEF ResetConnect, TypeOK, Slack, Paid, Overtaken, FromRest, Lost, Num
      <3>2. QED BY <1>2, <2>1, <3>1, OneMore
    <2>4. CASE current \notin Active
      <3>1. Slacks
        BY <1>1, <1>9, <2>2, <2>4, ListenerAssumption
           DEF ResetConnect, TypeOK, Slack, Paid, Overtaken, FromRest, Lost, Num
      <3>2. Others' \subseteq Others
        BY <2>1, <2>4
      <3>3. QED BY <1>2, <3>1, <3>2, FewerOthers
    <2>5. QED BY <2>3, <2>4
  <1>10. CASE Reset
    <2>1. Active' \subseteq Active /\ Others' \subseteq Others
      BY <1>1, <1>10 DEF Reset, Started, TypeOK, Active, Others, Open, Held
    <2>2. ~settled /\ ~settled'
      BY <1>1, <1>10 DEF Reset, RestFirst
    <2>3. Slacks
      BY <1>1, <1>10, <2>2, ListenerAssumption
         DEF Reset, TypeOK, Slack, Paid, Overtaken, FromRest, Lost, Num
    <2>4. QED BY <1>2, <2>1, <2>3, FewerOthers
  <1>11. CASE ResetFailed
    <2>1. Active' \subseteq Active /\ Others' \subseteq Others
      BY <1>1, <1>11 DEF ResetFailed, Failed, TypeOK, Active, Others, Open, Held
    <2>2. ~settled /\ ~settled'
      BY <1>1, <1>11 DEF ResetFailed, RestFirst
    <2>3. Slacks
      BY <1>1, <1>11, <2>2, ListenerAssumption
         DEF ResetFailed, TypeOK, Slack, Paid, Overtaken, FromRest, Lost, Num
    <2>4. QED BY <1>2, <2>1, <2>3, FewerOthers
  <1>12. CASE Settle
    <2>1. Active' \subseteq Active /\ Others' \subseteq Others
      BY <1>12 DEF Settle, listener, Active, Others, Open, Held
    <2>2. mainOn' \in Active'
      BY <1>1, <1>12 DEF Settle, listener, TypeOK, Active, Open
    <2>3. Slacks
      BY <1>1, <1>12, <2>2, ListenerAssumption
         DEF Settle, listener, TypeOK, Slack, Paid, Overtaken, FromRest, Lost, Num
    <2>4. QED BY <1>2, <2>1, <2>3, FewerOthers
  <1>13. ASSUME NEW c \in Clients, Drop(c) PROVE OthersBounded'
    <2>1. /\ Active \ {c} \subseteq Active' /\ Active' \subseteq Active
          /\ current' = current /\ mainOn' = mainOn /\ Others' \subseteq Others
      BY <1>1, <1>13 DEF Drop, TypeOK, Active, Others, Open, Held
    <2>2. UNCHANGED <<main, reset, settled, retry>>
      BY <1>13 DEF Drop
    <2>3. CASE Lost' <= Lost
      <3>1. Slacks
        BY <1>1, <2>1, <2>2, <2>3, ListenerAssumption
           DEF TypeOK, Slack, Paid, Overtaken, FromRest, Lost, Num
      <3>2. QED BY <1>2, <2>1, <3>1, FewerOthers
    <2>4. CASE ~(Lost' <= Lost)
      <3>1. /\ current \in Active' /\ mainOn \in Active /\ mainOn \notin Active'
            /\ Lost' = 1 /\ Lost = 0
        BY <2>1, <2>2, <2>4 DEF Lost, Num
      <3>2. mainOn \in Others /\ Others' \subseteq Others \ {mainOn}
        BY <2>1, <3>1 DEF Others
      <3>3. /\ Cardinality(Others') + 1 <= Cardinality(Others)
            /\ Cardinality(Others) \in Nat /\ Cardinality(Others') \in Nat
        BY <1>1, <2>1, <3>2, OthersTyped, CountClients
      <3>4. Slack' <= Slack + 1
        BY <1>1, <2>1, <2>2, <3>1 DEF Slack, Paid, Overtaken, FromRest, Num
      <3>5. Slack \in Int /\ Slack' \in Int /\ retry \in Int /\ retry' = retry
        BY <1>1, <2>2, ListenerAssumption
           DEF Slack, Paid, Overtaken, FromRest, Lost, Num, TypeOK
      <3>6. QED BY <3>3, <3>4, <3>5 DEF IInv, OthersBounded
    <2>5. QED BY <2>3, <2>4
  <1>14. CASE UNCHANGED vars
    <2>1. Others' \subseteq Others /\ Slack' = Slack /\ retry' = retry
      BY <1>14 DEF vars, listener, Others, Active, Open, Held, Slack, Paid,
                   Overtaken, FromRest, Lost
    <2>2. Slacks
      BY <1>1, <2>1, ListenerAssumption
         DEF Slack, Paid, Overtaken, FromRest, Lost, Num, TypeOK
    <2>3. QED BY <1>2, <2>1, <2>2, FewerOthers
  <1>15. QED
    BY <1>3, <1>4, <1>5, <1>6, <1>7, <1>8, <1>9, <1>10, <1>11, <1>12, <1>13, <1>14
       DEF Next, Main, ResetLoop

LEMMA RestNext == ASSUME TypeOK, RestFirst, [Next]_vars PROVE RestFirst'
  BY DEF TypeOK, RestFirst, CountRetry, Next, Main, ResetLoop, Woken, Reconnect, Reconnected,
         ReconnectFailed, Resume, Disconnect, ResetConnect, Reset, ResetFailed, Settle, Drop, vars, listener

LEMMA Initially == ASSUME Init PROVE IInv
  <1>1. TypeOK /\ RestFirst /\ RetriesLeft
    BY ListenerAssumption DEF Init, TypeOK, RestFirst, RetriesLeft, Clients
  <1>2. Others = {}
    BY <1>1 DEF Init, TypeOK, Others, Active, Open, Held
  <1>3. mainOn \in Active
    BY <1>1 DEF Init, TypeOK, Active, Open
  <1>4. Slack = 0
    BY <1>3 DEF Init, Slack, Paid, Overtaken, FromRest, Lost, Num
  <1>5. OthersBounded
    BY <1>2, <1>4, FS_EmptySet DEF OthersBounded, Init
  <1>6. QED BY <1>1, <1>5 DEF IInv

-----------------------------------------------------------------------------
(* Theorems                                                                *)

\* Every reachable state is well typed, and the invariant holds: the retries
\* pay for the clients besides self._client (TelegramListener).
THEOREM Invariant == Spec => []IInv
  <1>1. Init => IInv
    BY Initially
  <1>2. IInv /\ [Next]_vars => IInv'
    BY TypedNext, BoundedNext, RestNext DEF IInv
  <1>3. QED BY <1>1, <1>2, PTL DEF Spec

\* However the two coroutines interleave and clients are lost, the clients
\* left connected are no more than the retries and one
\* (_session_reset_loop, run_until_disconnected).
THEOREM Bounded == Spec => []ClientsBounded
  <1>1. IInv => ClientsBounded
    <2> SUFFICES ASSUME IInv PROVE ClientsBounded
      OBVIOUS
    <2>1. /\ Others \in SUBSET Clients /\ Cardinality(Others) \in Nat
          /\ current \in Clients /\ retry \in Nat
      BY OthersTyped, ListenerAssumption DEF IInv, TypeOK
    <2>2. Open \in SUBSET (Others \cup {current})
      BY DEF Others, Active
    <2>3. Cardinality(Open) <= Cardinality(Others) + 1
      BY <2>1, <2>2, CountClients
    <2>4. Cardinality(Open) \in Nat
      BY CountClients DEF Open
    <2>5. Slack \in Nat
      BY DEF Slack, Paid, Overtaken, FromRest, Lost, Num
    <2>6. Cardinality(Others) <= retry
      BY <2>1, <2>5 DEF IInv, OthersBounded
    <2>7. QED BY <2>1, <2>3, <2>4, <2>6 DEF ClientsBounded
  <1>2. QED BY <1>1, Invariant, PTL
=============================================================================
