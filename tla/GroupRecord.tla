----------------------------- MODULE GroupRecord -----------------------------
(***************************************************************************)
(* What the record of an order group promises, whatever the process that   *)
(* keeps it goes through: a group is created once, its common stop only    *)
(* rises while it is active, and a completed group stays completed with    *)
(* the stop it had.  The orders of a group may change at any time.         *)
(* Stops are in the direction of the trade: higher is better.              *)
(***************************************************************************)
EXTENDS Integers

CONSTANTS
    Groups,    \* base fingerprints
    Orders,    \* broker's ticket numbers
    None       \* no stop yet, not a number

VARIABLES
    life,      \* life[g]: "none", "active" or "completed"
    members,   \* members[g]: the orders of the group
    floor      \* floor[g]: the stop common to the group

record == <<life, members, floor>>

Init ==
    /\ life = [g \in Groups |-> "none"]
    /\ members = [g \in Groups |-> {}]
    /\ floor = [g \in Groups |-> None]

Create(g, ms) ==
    /\ life[g] = "none"
    /\ ms # {}
    /\ life' = [life EXCEPT ![g] = "active"]
    /\ members' = [members EXCEPT ![g] = ms]
    /\ UNCHANGED floor

ChangeMembers(g, ms) ==
    /\ life[g] # "none"
    /\ members' = [members EXCEPT ![g] = ms]
    /\ UNCHANGED <<life, floor>>

Tighten(g) ==
    /\ life[g] = "active"
    /\ floor'[g] \in Int
    /\ floor[g] # None => floor'[g] > floor[g]
    /\ floor' = [floor EXCEPT ![g] = floor'[g]]
    /\ UNCHANGED <<life, members>>

\* Groups that end in the same poll are completed together.
Complete(gs) ==
    /\ gs # {}
    /\ \A g \in gs : life[g] = "active"
    /\ life' = [g \in Groups |-> IF g \in gs THEN "completed" ELSE life[g]]
    /\ UNCHANGED <<members, floor>>

Next ==
    \/ \E g \in Groups, ms \in SUBSET Orders : Create(g, ms) \/ ChangeMembers(g, ms)
    \/ \E g \in Groups : Tighten(g)
    \/ \E gs \in SUBSET Groups : Complete(gs)

Spec == Init /\ [][Next]_record
=============================================================================
