--------------------------- MODULE SignalLifecycle ---------------------------
(***************************************************************************)
(* What the store of active signals promises: each signal has a lifecycle  *)
(* that only moves forward until the signal is registered anew, and each   *)
(* of its levels is settled at most once per registration.                 *)
(***************************************************************************)
CONSTANTS Signals, Levels

VARIABLES life,    \* life[s]: "none" or a SignalLifecycle value
          levels   \* levels[s][l]: the status of an entry plan

vars == <<life, levels>>

Open == {"pending", "partial"}
Settled == {"executed", "cancelled"}

Init ==
    /\ life = [s \in Signals |-> "none"]
    /\ levels = [s \in Signals |-> [l \in Levels |-> "pending"]]

\* A signal whose previous registration, if any, is closed is registered; its
\* initial levels may have been executed on arrival.
Register(s) ==
    /\ life[s] \notin Open
    /\ life' = [life EXCEPT ![s] = "pending"]
    /\ \E ps \in [Levels -> {"pending", "executed"}] :
          /\ \E l \in Levels : ps[l] = "pending"
          /\ levels' = [levels EXCEPT ![s] = ps]

\* Pending levels of an open signal are executed or cancelled.
Settle(s) ==
    /\ life[s] \in Open
    /\ \E ps \in [Levels -> Settled \cup {"pending"}] :
          /\ \A l \in Levels : levels[s][l] \in Settled => ps[l] = levels[s][l]
          /\ levels' = [levels EXCEPT ![s] = ps]
    /\ UNCHANGED life

\* The status follows the levels: completed if all are settled, partial if
\* one is executed and one is pending.
Advance(s) ==
    /\ \/ /\ life[s] \in Open
          /\ \A l \in Levels : levels[s][l] \in Settled
          /\ life' = [life EXCEPT ![s] = "completed"]
       \/ /\ life[s] = "pending"
          /\ \E l \in Levels : levels[s][l] = "executed"
          /\ \E l \in Levels : levels[s][l] = "pending"
          /\ life' = [life EXCEPT ![s] = "partial"]
    /\ UNCHANGED levels

\* The deadline passes.
Expire(s) ==
    /\ life[s] \in Open
    /\ life' = [life EXCEPT ![s] = "expired"]
    /\ UNCHANGED levels

Next == \E s \in Signals : Register(s) \/ Settle(s) \/ Advance(s) \/ Expire(s)

Spec == Init /\ [][Next]_vars
=============================================================================
