----------------------------- MODULE Admission -----------------------------
(***************************************************************************)
(* How a message becomes orders: Bot._do_process_signal asks the guards,   *)
(* looks for a duplicate, validates, stores the signal and has it          *)
(* executed; _process_edit and _process_delete find the signal of a        *)
(* message again, cancel what still waits at the broker, and an edit that  *)
(* changed the signal is processed like a new one.                         *)
(*                                                                         *)
(* A handler runs alone, but the broker fills and closes orders between    *)
(* its calls, time passes, a commit may fail, and the process may be       *)
(* killed.  A message may be delivered twice.                              *)
(*                                                                         *)
(* A fingerprint stands for a message and the content of a text.  What     *)
(* the texts say is reduced to a symbol; the verdicts of the breaker, the  *)
(* daily guard and the rules of the validator about prices are inputs.     *)
(* Texts that do not parse change nothing and are left out.  Deferred      *)
(* levels are in module Reentry, what a group does in GroupManager.        *)
(* Variants with a bug precede some definitions.                           *)
(***************************************************************************)
EXTENDS Integers, Sequences, FiniteSets

CONSTANTS
    Messages, Texts,
    Symbol,         \* Symbol[t]: what text t trades
    Peers,          \* Peers[s]: the first correlation group that has symbol s, or {}
    Ttl,            \* signal_age_ttl_seconds
    MaxOpen,        \* max_open_trades
    MaxSame,        \* max_same_symbol_trades, 0: disabled
    MaxCorrelated,  \* max_correlated_trades, 0: disabled
    Entries,        \* orders a signal may send at once
    MaxTime, MaxOrders, MaxDeliveries, MaxFaults,   \* bounds
    None

ASSUME AdmissionAssumption ==
    /\ Ttl \in Nat /\ MaxOpen \in Nat \ {0} /\ Entries \in Nat \ {0}
    /\ MaxSame \in Nat /\ MaxCorrelated \in Nat
    /\ MaxTime \in Nat /\ MaxOrders \in Nat
    /\ MaxDeliveries \in Nat /\ MaxFaults \in Nat
    /\ None \notin Texts

Fingerprints == Messages \X Texts

VARIABLES
    now,
    text,       \* text of each message, None before it is sent
    edited,     \* messages whose text is not the first
    rows,       \* table signals: [fp, at] in order of id
    groups,     \* PositionManager: "none", "active", "completed" per fingerprint
    orders,     \* at the broker: [fp, state, atOnce, grouped]
    at, job,    \* where the handler is, and the fingerprint, the time of the
                \* row and the first order it works on
    sent,       \* history: [fp, at, first] of the rows that led to orders
    blind,      \* history: a count of positions got no answer
    deliveries, faults

Idle == [fp |-> <<None, None>>, at |-> 0, first |-> 1]
table == <<rows, groups>>
control == <<at, job>>
bounds == <<deliveries, faults>>
vars == <<now, text, edited, table, orders, control, sent, blind, bounds>>

TypeOK ==
    /\ now \in 0..MaxTime
    /\ text \in [Messages -> Texts \cup {None}]
    /\ edited \subseteq Messages
    /\ rows \in Seq([fp : Fingerprints, at : 0..MaxTime])
    /\ groups \in [Fingerprints -> {"none", "active", "completed"}]
    /\ orders \in Seq([fp : Fingerprints, state : {"waiting", "open", "gone"},
                       atOnce : BOOLEAN, grouped : BOOLEAN])
    /\ at \in {"idle", "cancel", "process", "send", "register"}
    /\ job \in [fp : Fingerprints \cup {Idle.fp}, at : 0..MaxTime, first : Nat \ {0}]
    /\ at # "idle" => job.fp \in Fingerprints
    /\ sent \subseteq [fp : Fingerprints, at : 0..MaxTime, first : Nat \ {0}]
    /\ blind \in BOOLEAN
    /\ deliveries \in 0..MaxDeliveries /\ faults \in 0..MaxFaults

-----------------------------------------------------------------------------
(* What the handlers ask                                                   *)

InState(s) == {i \in DOMAIN orders : orders[i].state = s}
SymbolOf(i) == Symbol[orders[i].fp[2]]

IsDuplicateOfLatest(fp) ==
    LET n == Len(rows) IN n > 0 /\ rows[n].fp = fp /\ now - rows[n].at < Ttl

\* is_duplicate: any row counts, also that of a signal that was rejected.
IsDuplicate(fp) ==
    \E i \in DOMAIN rows : rows[i].fp = fp /\ now - rows[i].at < Ttl

\* get_fingerprint_by_message, as a set of at most one.
FingerprintOf(m) ==
    LET ids == {i \in DOMAIN rows : rows[i].fp[1] = m}
    IN  {rows[i].fp : i \in {j \in ids : \A k \in ids : k <= j}}

TooExposedSameOnly(symbol, seen) ==
    MaxSame > 0 /\ Cardinality({i \in seen : SymbolOf(i) = symbol}) >= MaxSame

\* ExposureGuard.is_allowed and the gate of the validator, for the positions
\* that MT5 reports.
TooExposed(symbol, seen) ==
    LET among(symbols) == Cardinality({i \in seen : SymbolOf(i) \in symbols})
    IN  \/ MaxSame > 0 /\ among({symbol}) >= MaxSame
        \/ MaxCorrelated > 0 /\ Peers[symbol] # {} /\ among(Peers[symbol]) >= MaxCorrelated

TooMany(seen) == Cardinality(seen) >= MaxOpen

\* positions_total and get_position_symbols: no answer counts as no positions.
Seen == {InState("open"), {}}

HasFilled(fp) ==
    \E i \in InState("open") :
        orders[i].fp = fp /\ orders[i].grouped /\ groups[fp] # "none"

-----------------------------------------------------------------------------
(* Handlers                                                                *)

Begin(step, fp) == at' = step /\ job' = [Idle EXCEPT !.fp = fp]
Finish == at' = "idle" /\ job' = Idle

Deliver == at = "idle" /\ deliveries < MaxDeliveries /\ deliveries' = deliveries + 1

\* A new message, or the same one a second time.
NewMessage(m, t) ==
    /\ Deliver
    /\ text[m] = None \/ (text[m] = t /\ m \notin edited)
    /\ text' = [text EXCEPT ![m] = t]
    /\ Begin("process", <<m, t>>)
    /\ UNCHANGED <<now, edited, table, orders, sent, blind, faults>>

\* cancel_group_pending_orders: the waiting orders of an active group leave it,
\* whether the broker cancels them or not.
CancelPending(fp) ==
    LET waiting == {i \in InState("waiting") : orders[i].fp = fp /\ orders[i].grouped}
    IN  IF groups[fp] # "active" THEN UNCHANGED <<orders, groups>>
        ELSE /\ \E cancelled \in SUBSET waiting :
                  orders' = [i \in DOMAIN orders |->
                      IF i \in waiting
                      THEN [orders[i] EXCEPT !.grouped = FALSE,
                               !.state = IF i \in cancelled THEN "gone" ELSE @]
                      ELSE orders[i]]
             /\ groups' = IF HasFilled(fp) THEN groups
                          ELSE [groups EXCEPT ![fp] = "completed"]

EditIgnoresFilled(m, t) ==
    /\ Deliver
    /\ text[m] # None
    /\ text' = [text EXCEPT ![m] = t]
    /\ edited' = edited \cup {m}
    /\ \E fp \in FingerprintOf(m) : fp # <<m, t>> /\ Begin("cancel", <<m, t>>)
    /\ UNCHANGED <<now, table, orders, sent, blind, faults>>

\* _process_edit up to the decision of MessageUpdateHandler.
Edit(m, t) ==
    /\ Deliver
    /\ text[m] # None
    /\ text' = [text EXCEPT ![m] = t]
    /\ edited' = IF t = text[m] THEN edited ELSE edited \cup {m}
    /\ LET original == FingerprintOf(m)
       IN  \/ /\ original \in {{}, {<<m, t>>}}
              /\ UNCHANGED <<orders, groups, control>>
           \/ \E fp \in original \ {<<m, t>>} :
                IF HasFilled(fp)
                THEN CancelPending(fp) /\ UNCHANGED control
                ELSE Begin("cancel", <<m, t>>) /\ UNCHANGED <<orders, groups>>
    /\ UNCHANGED <<now, rows, sent, blind, faults>>

\* CANCEL_ORDER, and on to the new text.
Cancel ==
    /\ at = "cancel"
    /\ \E fp \in FingerprintOf(job.fp[1]) : CancelPending(fp)
    /\ at' = "process"
    /\ UNCHANGED <<now, text, edited, rows, job, sent, blind, bounds>>

\* _process_delete.
Delete(m) ==
    /\ Deliver
    /\ \E fp \in FingerprintOf(m) : CancelPending(fp)
    /\ UNCHANGED <<now, text, edited, rows, control, sent, blind, faults>>

StoreRow == rows' = Append(rows, [fp |-> job.fp, at |-> now])

\* Steps 2 to 2c: the breaker, the daily guard or the exposure guard refuses, or
\* the commit of the row fails.  No row is left.
RefuseWithoutRow ==
    /\ at = "process"
    /\ Finish
    /\ UNCHANGED <<now, text, edited, table, orders, sent, blind, bounds>>

\* The validator refuses: a duplicate, too many positions, or another rule.
Reject ==
    /\ at = "process"
    /\ StoreRow
    /\ Finish
    /\ UNCHANGED <<now, text, edited, groups, orders, sent, blind, bounds>>

\* Every check passes; the row comes first.
Admit ==
    /\ at = "process"
    /\ ~IsDuplicate(job.fp)
    /\ \E symbols \in Seen, total \in Seen :
          /\ ~TooExposed(Symbol[job.fp[2]], symbols)
          /\ ~TooMany(total)
          /\ blind' = (blind \/ {symbols, total} # {InState("open")})
    /\ StoreRow
    /\ at' = "send"
    /\ job' = [job EXCEPT !.at = now, !.first = Len(orders) + 1]
    /\ UNCHANGED <<now, text, edited, groups, orders, sent, bounds>>

\* The price has drifted, or the broker accepts no order: the row stays.
RejectDrift ==
    /\ at = "send"
    /\ Finish
    /\ UNCHANGED <<now, text, edited, table, orders, sent, blind, bounds>>

\* execute_signal_plans: the broker accepts some of the orders, each at the
\* market or waiting for its price.
Send ==
    /\ at = "send"
    /\ \E n \in 1..Entries : \E market \in [1..n -> BOOLEAN] :
          /\ Len(orders) + n <= MaxOrders
          /\ orders' = orders \o [k \in 1..n |->
                [fp |-> job.fp, state |-> IF market[k] THEN "open" ELSE "waiting",
                 atOnce |-> market[k], grouped |-> FALSE]]
    /\ sent' = sent \cup {job}
    /\ at' = "register"
    /\ UNCHANGED <<now, text, edited, table, job, blind, bounds>>

\* register_group: a fingerprint that has a group already keeps that one, and
\* the new orders belong to none.
Register ==
    /\ at = "register"
    /\ IF groups[job.fp] # "none" THEN UNCHANGED <<groups, orders>>
       ELSE /\ groups' = [groups EXCEPT ![job.fp] = "active"]
            /\ orders' = [i \in DOMAIN orders |->
                  IF i >= job.first THEN [orders[i] EXCEPT !.grouped = TRUE]
                  ELSE orders[i]]
    /\ Finish
    /\ UNCHANGED <<now, text, edited, rows, sent, blind, bounds>>

\* A commit after the orders fails (store_order): the exception ends the handler.
FailAfterSend ==
    /\ at = "register" /\ faults < MaxFaults
    /\ faults' = faults + 1
    /\ Finish
    /\ UNCHANGED <<now, text, edited, table, orders, sent, blind, deliveries>>

-----------------------------------------------------------------------------
(* The rest of the bot and the broker                                      *)

\* The poll of PositionManager completes a group without a position, also one
\* whose orders are still waiting.
CompleteGroup(fp) ==
    /\ at = "idle"
    /\ groups[fp] = "active" /\ ~HasFilled(fp)
    /\ groups' = [groups EXCEPT ![fp] = "completed"]
    /\ UNCHANGED <<now, text, edited, rows, orders, control, sent, blind, bounds>>

\* A kill at any point, and the restart: the groups that have a position are
\* restored, the others are gone.
Restart ==
    /\ faults < MaxFaults
    /\ faults' = faults + 1
    /\ groups' = [fp \in Fingerprints |->
                    IF groups[fp] = "active" /\ HasFilled(fp) THEN "active" ELSE "none"]
    /\ orders' = [i \in DOMAIN orders |->
                    [orders[i] EXCEPT !.grouped = @ /\ groups'[orders[i].fp] = "active"]]
    /\ Finish
    /\ UNCHANGED <<now, text, edited, rows, sent, blind, deliveries>>

Fill(i) ==
    /\ orders[i].state = "waiting"
    /\ orders' = [orders EXCEPT ![i].state = "open"]
    /\ UNCHANGED <<now, text, edited, table, control, sent, blind, bounds>>

\* A position is closed, or an order expires (OrderLifecycleManager).
End(i) ==
    /\ orders[i].state # "gone"
    /\ orders' = [orders EXCEPT ![i].state = "gone"]
    /\ UNCHANGED <<now, text, edited, table, control, sent, blind, bounds>>

Tick ==
    /\ now < MaxTime
    /\ now' = now + 1
    /\ UNCHANGED <<text, edited, table, orders, control, sent, blind, bounds>>

Init ==
    /\ now = 0
    /\ text = [m \in Messages |-> None] /\ edited = {}
    /\ rows = <<>>
    /\ groups = [fp \in Fingerprints |-> "none"]
    /\ orders = <<>>
    /\ at = "idle" /\ job = Idle
    /\ sent = {} /\ blind = FALSE
    /\ deliveries = 0 /\ faults = 0

Next ==
    \/ \E m \in Messages, t \in Texts : NewMessage(m, t) \/ Edit(m, t)
    \/ \E m \in Messages : Delete(m)
    \/ Cancel \/ RefuseWithoutRow \/ Reject \/ Admit \/ RejectDrift
    \/ Send \/ Register \/ FailAfterSend
    \/ \E fp \in Fingerprints : CompleteGroup(fp)
    \/ Restart
    \/ \E i \in DOMAIN orders : Fill(i) \/ End(i)
    \/ Tick

Spec == Init /\ [][Next]_vars

-----------------------------------------------------------------------------
(* Properties                                                              *)

\* The same signal of the same message is not executed a second time within the
\* TTL, whatever is delivered twice, edited back and forth, killed between two
\* commits, and whatever time the orders take (is_duplicate, store_signal).
OncePerWindow ==
    \A a, b \in sent : a.fp = b.fp /\ a # b => a.at - b.at >= Ttl \/ b.at - a.at >= Ttl

\* Positions that were opened when their signal came.
Opened == {i \in InState("open") : orders[i].atOnce}
OpenedOf(symbols) == {i \in Opened : SymbolOf(i) \in symbols}
Symbols == {Symbol[t] : t \in Texts}

\* exposure_guard.py: MAX_CORRELATED_TRADES is the "max open across a correlation
\* group".  Opened positions exceed it by less than one signal.
GroupLimitHolds ==
    ~blind => \A s \in Symbols :
        MaxCorrelated > 0 /\ Peers[s] # {} =>
            Cardinality(OpenedOf(Peers[s])) < MaxCorrelated + Entries

\* Opened positions exceed the limits by less than one signal: only orders that
\* waited, which no limit counts, can add to that.  This needs an answer of MT5
\* to every count (validate, is_allowed).
LimitsHold ==
    /\ ~blind =>
          /\ Cardinality(Opened) < MaxOpen + Entries
          /\ \A s \in Symbols : MaxSame > 0 => Cardinality(OpenedOf({s})) < MaxSame + Entries
    /\ GroupLimitHolds

\* Two texts of one message do not both have a position, except where one of the
\* positions was an order that waited or is in no group: an edit stops at a
\* position that it finds (_process_edit, handle_edit).
TextsExclusive ==
    \A i, j \in {k \in InState("open") : orders[k].atOnce /\ orders[k].grouped} :
        orders[i].fp[1] = orders[j].fp[1] => orders[i].fp = orders[j].fp
=============================================================================
