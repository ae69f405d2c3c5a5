--------------------------- MODULE CircuitBreaker ---------------------------
(***************************************************************************)
(* The circuit breaker and the three ways an order reaches the broker:     *)
(* a signal in single mode, a signal in multi-order mode (several plans in *)
(* one call) and a re-entry.  Each reads is_trading_allowed once, when it  *)
(* starts; order_send blocks, so time passes between two orders of a call. *)
(*                                                                         *)
(* The verdict of the guards behind the breaker and of the broker is an    *)
(* input.  Time is counted in ticks down to the end of the cooldown.       *)
(* Variants with a bug precede some definitions; no specification uses     *)
(* them.                                                                   *)
(***************************************************************************)
EXTENDS Integers

CONSTANTS
    Threshold,    \* failure_threshold
    Cooldown,     \* cooldown_seconds, in ticks
    MaxPlans,     \* entry plans of a multi-order signal
    MaxFailures   \* bound: consecutive failures recorded

ASSUME BreakerAssumption ==
    /\ Threshold \in Nat \ {0} /\ Cooldown \in Nat
    /\ MaxPlans \in Nat \ {0} /\ MaxFailures \in Nat

States == {"CLOSED", "OPEN", "HALF_OPEN"}
Modes == {"single", "multi", "reentry"}

VARIABLES
    state, failures,  \* _state, _consecutive_failures
    cooldown,         \* ticks until _opened_at + _cooldown
    mode,             \* the kind of the running call
    left,             \* orders the running call still has to send, 0: none runs
    streak,           \* consecutive failed orders, up to Threshold (history)
    recorded,         \* the same, of the orders whose result is recorded (history)
    spill,            \* orders sent since the breaker opened (history)
    paused            \* ticks since it opened, up to Cooldown (history)

breaker == <<state, failures, cooldown>>
call == <<mode, left>>
history == <<streak, recorded, spill, paused>>
vars == <<breaker, call, history>>

TypeOK ==
    /\ state \in States
    /\ failures \in Nat /\ cooldown \in 0..Cooldown
    /\ mode \in Modes /\ left \in 0..MaxPlans
    /\ streak \in 0..Threshold /\ recorded \in 0..Threshold
    /\ spill \in Nat /\ paused \in 0..Cooldown

Init ==
    /\ state = "CLOSED"
    /\ failures = 0 /\ cooldown = 0
    /\ mode = "single" /\ left = 0
    /\ streak = 0 /\ recorded = 0 /\ spill = 0 /\ paused = 0

-----------------------------------------------------------------------------
(* The breaker                                                             *)

\* _transition.  A transition to the state the breaker is in
\* does nothing; in particular it does not start the cooldown again.
RestartingTransition(new) ==
    /\ state' = new
    /\ cooldown' = IF new = "OPEN" THEN Cooldown ELSE cooldown
Transition(new) ==
    IF new = state THEN UNCHANGED <<state, cooldown>>
    ELSE /\ state' = new
         /\ cooldown' = IF new = "OPEN" THEN Cooldown ELSE cooldown

Stay == UNCHANGED <<state, cooldown>>

SuccessKeepsCount ==
    /\ failures' = IF state = "HALF_OPEN" THEN 0 ELSE failures
    /\ IF state = "HALF_OPEN" THEN Transition("CLOSED") ELSE Stay
RecordSuccess ==
    /\ failures' = 0
    /\ IF state = "HALF_OPEN" THEN Transition("CLOSED") ELSE Stay

RecordFailure ==
    /\ failures < MaxFailures
    /\ failures' = failures + 1
    /\ IF state = "HALF_OPEN" \/ failures' >= Threshold
       THEN Transition("OPEN") ELSE Stay

\* Reading the state after the cooldown makes an open breaker half open;
\* nothing else does.
CooledWithoutFailures == state = "OPEN" /\ cooldown = 0 /\ failures = 0
Cooled == state = "OPEN" /\ cooldown = 0

\* is_trading_allowed, once the state has been read.
AlwaysAllowed == TRUE
Allowed == state # "OPEN" \/ Cooled

-----------------------------------------------------------------------------
(* The calls                                                               *)

\* _do_process_signal and handle_reentry read is_trading_allowed first.  If the
\* other guards agree, the call has orders to send.
Start(m) ==
    /\ left = 0
    /\ IF Cooled THEN Transition("HALF_OPEN") ELSE Stay
    /\ mode' = m
    /\ left' \in IF ~Allowed THEN {0}
                 ELSE IF m = "multi" THEN 0..MaxPlans ELSE 0..1
    /\ UNCHANGED <<failures, streak, recorded, spill, paused>>

Extended(n, ok) == IF ok THEN 0 ELSE IF n < Threshold THEN n + 1 ELSE n

\* An order is sent.  The result is recorded unless the mode is single.
Send(ok) ==
    /\ left > 0
    /\ left' = left - 1
    /\ IF mode = "single" THEN UNCHANGED breaker
       ELSE IF ok THEN RecordSuccess ELSE RecordFailure
    /\ streak' = Extended(streak, ok)
    /\ recorded' = IF mode = "single" THEN recorded ELSE Extended(recorded, ok)
    /\ spill' = IF state = "OPEN" THEN spill + 1 ELSE 0
    /\ paused' = IF state = "OPEN" THEN paused ELSE 0
    /\ UNCHANGED mode

TickPastDeadline ==
    /\ cooldown' = cooldown - 1
    /\ paused' = IF state = "OPEN" THEN paused + 1 ELSE paused
    /\ UNCHANGED <<state, failures, call, streak, recorded, spill>>
Tick ==
    /\ cooldown > 0
    /\ cooldown' = cooldown - 1
    /\ paused' = IF state = "OPEN" THEN paused + 1 ELSE paused
    /\ UNCHANGED <<state, failures, call, streak, recorded, spill>>

\* The process is killed and started again: the breaker is built anew.
Restart ==
    /\ state' = "CLOSED" /\ failures' = 0 /\ cooldown' = 0
    /\ mode' = "single" /\ left' = 0
    /\ streak' = 0 /\ recorded' = 0 /\ spill' = 0 /\ paused' = 0

Next ==
    \/ \E m \in Modes : Start(m)
    \/ \E ok \in BOOLEAN : Send(ok)
    \/ Tick
    \/ Restart

Spec == Init /\ [][Next]_vars

\* Time passes, a running call goes on, and signals keep coming.
FairSpec ==
    /\ Spec
    /\ WF_vars(Tick)
    /\ WF_vars(\E ok \in BOOLEAN : Send(ok))
    /\ WF_vars(\E m \in Modes : Start(m))

-----------------------------------------------------------------------------
(* Safety                                                                  *)

\* The orders that still go out after the breaker opened are the rest of the
\* call that opened it: no new call starts during the pause.
SpillBounded == state = "OPEN" => spill <= MaxPlans - 1

\* The pause is Cooldown ticks long, whatever is recorded in the meantime: the
\* failures of the rest of a call do not prolong it.
PauseNotProlonged == state = "OPEN" => paused + cooldown = Cooldown

\* A closed breaker opens if and only if the last Threshold results that were
\* recorded are failures: one success in between forgives those before it, in
\* whatever states and calls they were recorded.
OpensOnStreakOnly ==
    [][(state = "CLOSED" /\ state' = "OPEN") <=>
          (state = "CLOSED" /\ recorded' >= Threshold)]_vars

-----------------------------------------------------------------------------
(* Liveness                                                                *)

\* A pause ends, if signals keep coming.
PauseEnds == state = "OPEN" ~> state # "OPEN"

=============================================================================
