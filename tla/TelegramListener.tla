--------------------------- MODULE TelegramListener ---------------------------
(***************************************************************************)
(* TelegramListener keeps a client connected with two coroutines that know *)
(* nothing of each other: run_until_disconnected waits for the client to   *)
(* disconnect and connects a new one, and _session_reset_loop disconnects  *)
(* the client every few hours and connects a new one.  Both run _connect,  *)
(* which replaces self._client, awaits its start, and then registers the   *)
(* handlers on what self._client is by then.                               *)
(*                                                                         *)
(* A coroutine is cut where it awaits.  How the library answers on a       *)
(* client that is not connected is left open.  Handlers of a client that   *)
(* is no longer self._client still get messages while it is connected.     *)
(* Variants with a bug precede some definitions.                           *)
(***************************************************************************)
EXTENDS Integers, FiniteSets

CONSTANTS
    MaxRetries,     \* max_retries of run_until_disconnected
    MaxResets       \* bound: session resets

ASSUME ListenerAssumption == MaxRetries \in Nat /\ MaxResets \in Nat

\* Every connection is one of start, of a retry or of a reset.
Clients == 1..1 + MaxRetries + MaxResets

VARIABLES
    state,          \* of each client: "none", "starting", "open", "closed"
    handlers,       \* sets of handlers registered on each client
    current,        \* self._client
    main, mainOn,   \* run_until_disconnected: where it is, and on which client
    reset, resetOn, \* _session_reset_loop, likewise
    retry,
    resets,
    settled         \* run_until_disconnected came to rest since the last reset

listener == <<state, handlers, current>>
vars == <<listener, main, mainOn, reset, resetOn, retry, resets, settled>>

TypeOK ==
    /\ state \in [Clients -> {"none", "starting", "open", "closed"}]
    /\ handlers \in [Clients -> Nat]
    /\ current \in Clients
    /\ main \in {"watch", "backoff", "pause", "starting", "ended"}
    /\ mainOn \in Clients
    /\ reset \in {"sleep", "disconnected", "starting"}
    /\ resetOn \in Clients
    /\ retry \in 0..MaxRetries + 1
    /\ resets \in 0..MaxResets
    /\ settled \in BOOLEAN

-----------------------------------------------------------------------------
(* _connect, up to the await and after it                                  *)

Create(c) ==
    /\ state[c] = "none" /\ \A d \in Clients : d < c => state[d] # "none"
    /\ state' = [state EXCEPT ![c] = "starting"]
    /\ current' = c
    /\ UNCHANGED handlers

StartedBare(c) ==
    /\ state' = [state EXCEPT ![c] = "open"]
    /\ UNCHANGED <<handlers, current>>

\* The handlers are registered on self._client.
Started(c) ==
    /\ state' = [state EXCEPT ![c] = "open"]
    /\ handlers' = [handlers EXCEPT ![current] = @ + 1]
    /\ UNCHANGED current

Failed(c) ==
    /\ state' = [state EXCEPT ![c] = "closed"]
    /\ UNCHANGED <<handlers, current>>

-----------------------------------------------------------------------------
(* run_until_disconnected                                                  *)

\* retry is never set back.
CountRetry(next) ==
    /\ retry' = retry + 1
    /\ main' = IF retry' > MaxRetries THEN "ended" ELSE next

\* The wait for the client returns, or raises and is tried again later.
Woken ==
    /\ main = "watch" /\ state[mainOn] # "open"
    /\ CountRetry("backoff") \/ CountRetry("pause")
    /\ UNCHANGED <<listener, mainOn, reset, resetOn, resets, settled>>

Reconnect ==
    /\ main = "backoff"
    /\ \E c \in Clients : Create(c) /\ mainOn' = c
    /\ main' = "starting"
    /\ UNCHANGED <<reset, resetOn, retry, resets, settled>>

Reconnected ==
    /\ main = "starting"
    /\ Started(mainOn)
    /\ main' = "watch" /\ mainOn' = current
    /\ UNCHANGED <<reset, resetOn, retry, resets, settled>>

ReconnectFailed ==
    /\ main = "starting"
    /\ Failed(mainOn)
    /\ CountRetry("pause")
    /\ UNCHANGED <<mainOn, reset, resetOn, resets, settled>>

Resume ==
    /\ main = "pause"
    /\ main' = "watch" /\ mainOn' = current
    /\ UNCHANGED <<listener, reset, resetOn, retry, resets, settled>>

-----------------------------------------------------------------------------
(* _session_reset_loop                                                     *)

\* When run_until_disconnected has ended, the bot shuts down.
Running == main # "ended"

DisconnectNothing ==
    /\ Running
    /\ reset = "sleep" /\ settled /\ resets < MaxResets
    /\ resets' = resets + 1 /\ settled' = FALSE
    /\ reset' = "disconnected"
    /\ UNCHANGED <<listener, main, mainOn, resetOn, retry>>

Disconnect ==
    /\ Running
    /\ reset = "sleep" /\ settled /\ resets < MaxResets
    /\ resets' = resets + 1 /\ settled' = FALSE
    /\ state' = [state EXCEPT ![current] = "closed"]
    /\ reset' = "disconnected"
    /\ UNCHANGED <<handlers, current, main, mainOn, resetOn, retry>>

ResetConnect ==
    /\ Running
    /\ reset = "disconnected"
    /\ \E c \in Clients : Create(c) /\ resetOn' = c
    /\ reset' = "starting"
    /\ UNCHANGED <<main, mainOn, retry, resets, settled>>

Reset ==
    /\ Running
    /\ reset = "starting"
    /\ Started(resetOn)
    /\ reset' = "sleep"
    /\ UNCHANGED <<main, mainOn, resetOn, retry, resets, settled>>

\* The next attempt of the loop is the next reset.
ResetFailed ==
    /\ Running
    /\ reset = "starting"
    /\ Failed(resetOn)
    /\ reset' = "sleep"
    /\ UNCHANGED <<main, mainOn, resetOn, retry, resets, settled>>

\* The hours between two resets are longer than all delays of the retries.
Settle ==
    /\ ~settled
    /\ main = "watch" /\ state[mainOn] = "open" /\ reset = "sleep"
    /\ settled' = TRUE
    /\ UNCHANGED <<listener, main, mainOn, reset, resetOn, retry, resets>>

-----------------------------------------------------------------------------
\* A client loses its connection for good.
Drop(c) ==
    /\ Running
    /\ state[c] = "open"
    /\ state' = [state EXCEPT ![c] = "closed"]
    /\ UNCHANGED <<handlers, current, main, mainOn, reset, resetOn, retry, resets, settled>>

Init ==
    /\ state = [c \in Clients |-> IF c = 1 THEN "open" ELSE "none"]
    /\ handlers = [c \in Clients |-> IF c = 1 THEN 1 ELSE 0]
    /\ current = 1
    /\ main = "watch" /\ mainOn = 1
    /\ reset = "sleep" /\ resetOn = 1
    /\ retry = 0 /\ resets = 0 /\ settled = TRUE

Main == Woken \/ Reconnect \/ Reconnected \/ ReconnectFailed \/ Resume
ResetLoop == ResetConnect \/ Reset \/ ResetFailed

Next == Main \/ Disconnect \/ ResetLoop \/ Settle \/ \E c \in Clients : Drop(c)

Spec == Init /\ [][Next]_vars

\* The coroutines run on, and the start of a client ends in some way.
FairSpec == Spec /\ WF_vars(Main) /\ WF_vars(ResetLoop)

-----------------------------------------------------------------------------
(* Properties                                                              *)

Open == {c \in Clients : state[c] = "open"}

\* The clients left connected besides the first are no more than the retries:
\* a reset closes a client for each that it opens, and a retry, which a reset
\* causes as well, may leave the client of the reset connected
\* (_session_reset_loop, run_until_disconnected).
ClientsBounded == Cardinality(Open) <= 1 + retry

\* While the bot runs it gets back to a connected client with handlers on it,
\* although the two coroutines replace each other's client
\* (run_until_disconnected, _connect).
Listening == \E c \in Open : handlers[c] > 0
ListensOrEnds == ~Listening ~> (Listening \/ ~Running)
=============================================================================
