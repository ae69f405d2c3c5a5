--------------------------- MODULE AdmissionProofs ---------------------------
(***************************************************************************)
(* Three properties of the admission for any messages, texts, limits and   *)
(* windows.  A signal is executed once per window because the row is       *)
(* committed before the orders: what was sent, or is about to be, has its  *)
(* row.  Two texts of a message exclude each other because an edit finds   *)
(* the latest row of the message, and whatever is open belongs to it.  The *)
(* limits hold up to one signal because what the guards found still holds  *)
(* when the orders are sent (Room): a fill is not counted.                 *)
(***************************************************************************)
EXTENDS Admission, SequenceTheorems, FiniteSetTheorems, TLAPS

\* What was sent has its row, and so has what is about to be sent.
HasRow(fp, time) == \E i \in DOMAIN rows : rows[i].fp = fp /\ rows[i].at = time

RowFirst ==
    /\ \A s \in sent : HasRow(s.fp, s.at)
    /\ at = "send" => HasRow(job.fp, job.at)

\* Nothing of the window before the row was sent.
WindowClear ==
    at = "send" => \A s \in sent : s.fp = job.fp => job.at - s.at >= Ttl

\* The latest row of a message.
Latest(m, i) ==
    /\ i \in DOMAIN rows /\ rows[i].fp[1] = m
    /\ \A k \in DOMAIN rows : rows[k].fp[1] = m => k <= i

\* Positions of the bot that TextsExclusive is about.
Live(i) ==
    /\ i \in DOMAIN orders
    /\ orders[i].state = "open" /\ orders[i].atOnce /\ orders[i].grouped

\* The message of what is open or being processed, and its latest text.
LatestIsLive ==
    /\ \A i \in DOMAIN orders :
          Live(i) => orders[i].fp \in FingerprintOf(orders[i].fp[1])
    /\ at \in {"cancel", "process"} =>
          \A i \in DOMAIN orders :
              Live(i) /\ orders[i].fp[1] = job.fp[1] => orders[i].fp = job.fp
    /\ at \in {"send", "register"} => job.fp \in FingerprintOf(job.fp[1])

\* A message that was not edited has rows of its text only.
TextOfRows ==
    /\ at # "idle" => text[job.fp[1]] = job.fp[2]
    /\ \A i \in DOMAIN rows :
          LET m == rows[i].fp[1]
          IN  text[m] # None /\ (m \notin edited => rows[i].fp[2] = text[m])

\* An order that counts as one of a group has a group; an order sent at the
\* market never waits; the orders of the call in progress come last.
OrdersOfGroups ==
    /\ \A i \in DOMAIN orders :
          /\ orders[i].grouped => groups[orders[i].fp] # "none"
          /\ orders[i].state = "waiting" => ~orders[i].atOnce
    /\ at = "send" => job.first > Len(orders)
    /\ at = "register" =>
          \A i \in DOMAIN orders : i >= job.first => orders[i].fp = job.fp

IInv ==
    /\ TypeOK
    /\ RowFirst
    /\ WindowClear
    /\ OncePerWindow
    /\ LatestIsLive
    /\ TextOfRows
    /\ OrdersOfGroups

-----------------------------------------------------------------------------
(* Sequences of rows and orders                                            *)

RowRecord == [fp : Fingerprints, at : 0..MaxTime]
OrderRecord == [fp : Fingerprints, state : {"waiting", "open", "gone"},
                atOnce : BOOLEAN, grouped : BOOLEAN]

LEMMA Shape ==
    ASSUME TypeOK
    PROVE  /\ rows \in Seq(RowRecord) /\ Len(rows) \in Nat /\ DOMAIN rows = 1..Len(rows)
           /\ \A i \in DOMAIN rows : rows[i] \in RowRecord
           /\ orders \in Seq(OrderRecord) /\ Len(orders) \in Nat
           /\ DOMAIN orders = 1..Len(orders)
           /\ \A i \in DOMAIN orders : orders[i] \in OrderRecord
  <1>1. rows \in Seq(RowRecord) /\ orders \in Seq(OrderRecord)
    BY DEF TypeOK, RowRecord, OrderRecord
  <1>2. QED BY <1>1, LenProperties, ElementOfSeq

\* What a row more changes.
LEMMA RowAdded ==
    ASSUME TypeOK, job.fp \in Fingerprints, StoreRow
    PROVE  /\ rows' \in Seq(RowRecord)
           /\ Len(rows') = Len(rows) + 1 /\ DOMAIN rows' = 1..(Len(rows) + 1)
           /\ \A i \in DOMAIN rows : rows'[i] = rows[i]
           /\ rows'[Len(rows) + 1].fp = job.fp /\ rows'[Len(rows) + 1].at = now
  <1> DEFINE r == [fp |-> job.fp, at |-> now]
  <1>1. r \in RowRecord /\ r.fp = job.fp /\ r.at = now
    BY DEF TypeOK, RowRecord
  <1>2. rows' = Append(rows, r)
    BY DEF StoreRow
  <1> HIDE DEF r
  <1>3. QED BY <1>1, <1>2, Shape

\* The latest row is unique, so is the fingerprint that a message is found by.
LEMMA LatestRow ==
    ASSUME TypeOK, NEW m \in Messages, NEW fp
    PROVE  fp \in FingerprintOf(m) <=> \E i \in DOMAIN rows : Latest(m, i) /\ rows[i].fp = fp
  BY DEF FingerprintOf, Latest

LEMMA OneFingerprint ==
    ASSUME TypeOK, NEW m \in Messages,
           NEW fp \in FingerprintOf(m), NEW fq \in FingerprintOf(m)
    PROVE  fp = fq /\ fp[1] = m
  <1>1. PICK i \in DOMAIN rows : Latest(m, i) /\ rows[i].fp = fp
    BY LatestRow
  <1>2. PICK j \in DOMAIN rows : Latest(m, j) /\ rows[j].fp = fq
    BY LatestRow
  <1>3. i <= j /\ j <= i
    BY <1>1, <1>2 DEF Latest
  <1>4. i = j
    BY <1>3, Shape
  <1>5. QED BY <1>1, <1>2, <1>4 DEF Latest

LEMMA LatestAfterRow ==
    ASSUME TypeOK, job.fp \in Fingerprints, StoreRow, NEW m \in Messages
    PROVE  /\ job.fp[1] = m => job.fp \in FingerprintOf(m)'
           /\ job.fp[1] # m => FingerprintOf(m) \subseteq FingerprintOf(m)'
  <1> DEFINE n == Len(rows) + 1
  <1>1. /\ Len(rows) \in Nat /\ DOMAIN rows = 1..Len(rows) /\ DOMAIN rows' = 1..n
        /\ \A i \in DOMAIN rows : rows'[i] = rows[i]
        /\ rows'[n].fp = job.fp
    BY RowAdded, Shape
  <1>2. ASSUME job.fp[1] = m PROVE job.fp \in FingerprintOf(m)'
    <2>1. \A k \in DOMAIN rows' : k <= n
      BY <1>1
    <2>2. n \in DOMAIN rows'
      BY <1>1
    <2>3. QED BY <1>1, <1>2, <2>1, <2>2 DEF FingerprintOf
  <1>3. ASSUME job.fp[1] # m, NEW fp \in FingerprintOf(m) PROVE fp \in FingerprintOf(m)'
    <2>1. PICK i \in DOMAIN rows : Latest(m, i) /\ rows[i].fp = fp
      BY LatestRow
    <2>2. i \in DOMAIN rows' /\ rows'[i].fp = fp /\ rows'[i].fp[1] = m
      BY <1>1, <2>1 DEF Latest
    <2>3. ASSUME NEW k \in DOMAIN rows', rows'[k].fp[1] = m PROVE k <= i
      <3>1. k # n
        BY <1>1, <1>3, <2>3
      <3>2. k \in DOMAIN rows
        BY <1>1, <2>3, <3>1
      <3>3. QED BY <1>1, <2>1, <2>3, <3>2 DEF Latest
    <2>4. QED BY <2>2, <2>3 DEF FingerprintOf
  <1>4. QED BY <1>2, <1>3

\* The same orders, of which some are cancelled, filled, closed or let go by
\* their group.
Shrunk ==
    /\ orders' \in [DOMAIN orders -> OrderRecord]
    /\ \A i \in DOMAIN orders :
          /\ orders'[i].fp = orders[i].fp /\ orders'[i].atOnce = orders[i].atOnce
          /\ orders'[i].grouped => orders[i].grouped
          /\ orders'[i].state = "waiting" => orders[i].state = "waiting"
          /\ orders'[i].state = "open" => orders[i].state \in {"open", "waiting"}

GroupsStay == \A fp \in Fingerprints : groups[fp] # "none" => groups'[fp] # "none"

LEMMA ShrunkSequence ==
    ASSUME TypeOK, Shrunk
    PROVE  /\ orders' \in Seq(OrderRecord) /\ Len(orders') = Len(orders)
           /\ DOMAIN orders' = DOMAIN orders
  BY Shape DEF Shrunk

LEMMA SameOrders ==
    ASSUME TypeOK, UNCHANGED orders
    PROVE  Shrunk
  BY Shape DEF Shrunk, OrderRecord

LEMMA CancelPendingShrinks ==
    ASSUME TypeOK, NEW fp \in Fingerprints, CancelPending(fp)
    PROVE  /\ Shrunk /\ GroupsStay
           /\ groups' \in [Fingerprints -> {"none", "active", "completed"}]
  <1>1. CASE groups[fp] # "active"
    BY <1>1, SameOrders DEF CancelPending, GroupsStay, TypeOK
  <1>2. CASE groups[fp] = "active"
    <2> DEFINE waiting == {i \in InState("waiting") : orders[i].fp = fp /\ orders[i].grouped}
    <2>1. PICK cancelled \in SUBSET waiting :
            orders' = [i \in DOMAIN orders |->
                      IF i \in waiting
                      THEN [orders[i] EXCEPT !.grouped = FALSE,
                               !.state = IF i \in cancelled THEN "gone" ELSE @]
                      ELSE orders[i]]
      BY <1>2 DEF CancelPending
    <2>2. ASSUME NEW i \in DOMAIN orders
          PROVE  /\ orders'[i] \in OrderRecord
                 /\ orders'[i].fp = orders[i].fp /\ orders'[i].atOnce = orders[i].atOnce
                 /\ orders'[i].grouped => orders[i].grouped
                 /\ orders'[i].state \in {orders[i].state, "gone"}
      <3> HIDE DEF waiting
      <3>1. orders[i] \in OrderRecord
        BY Shape
      <3>2. CASE i \in waiting
        <4>1. orders'[i] = [orders[i] EXCEPT !.grouped = FALSE,
                              !.state = IF i \in cancelled THEN "gone" ELSE orders[i].state]
          BY <2>1, <3>2
        <4>2. QED BY <3>1, <4>1 DEF OrderRecord
      <3>3. CASE i \notin waiting
        BY <2>1, <3>1, <3>3
      <3>4. QED BY <3>2, <3>3
    <2>3. Shrunk
      BY <2>1, <2>2 DEF Shrunk, OrderRecord
    <2>4. groups' \in {groups, [groups EXCEPT ![fp] = "completed"]}
      BY <1>2 DEF CancelPending
    <2>5. groups \in [Fingerprints -> {"none", "active", "completed"}]
      BY DEF TypeOK
    <2>6. /\ groups' \in [Fingerprints -> {"none", "active", "completed"}]
          /\ \A fq \in Fingerprints : groups[fq] # "none" => groups'[fq] # "none"
      BY <2>4, <2>5
    <2>7. QED BY <2>3, <2>6 DEF GroupsStay
  <1>3. QED BY <1>1, <1>2

LEMMA RestartShrinks ==
    ASSUME TypeOK, Restart
    PROVE  /\ Shrunk
           /\ groups' \in [Fingerprints -> {"none", "active", "completed"}]
           /\ \A i \in DOMAIN orders : orders'[i].grouped => groups'[orders'[i].fp] # "none"
  <1>1. groups' \in [Fingerprints -> {"none", "active", "completed"}]
    BY DEF Restart
  <1>2. ASSUME NEW i \in DOMAIN orders
        PROVE  /\ orders'[i] \in OrderRecord
               /\ orders'[i].fp = orders[i].fp /\ orders'[i].atOnce = orders[i].atOnce
               /\ orders'[i].grouped => orders[i].grouped /\ groups'[orders[i].fp] = "active"
               /\ orders'[i].state = orders[i].state
    <2>1. orders[i] \in OrderRecord
      BY Shape
    <2> DEFINE g == orders[i].grouped /\ groups'[orders[i].fp] = "active"
    <2>2. orders'[i] = [orders[i] EXCEPT !.grouped = g]
      BY DEF Restart
    <2>3. g \in BOOLEAN /\ (g => orders[i].grouped /\ groups'[orders[i].fp] = "active")
      OBVIOUS
    <2> HIDE DEF g
    <2>4. QED BY <2>1, <2>2, <2>3 DEF OrderRecord
  <1>3. orders' = [i \in DOMAIN orders |->
                     [orders[i] EXCEPT !.grouped = @ /\ groups'[orders[i].fp] = "active"]]
    BY DEF Restart
  <1>4. orders' \in [DOMAIN orders -> OrderRecord]
    BY <1>2, <1>3
  <1>5. QED BY <1>1, <1>2, <1>4 DEF Shrunk, OrderRecord

LEMMA BrokerShrinks ==
    ASSUME TypeOK, NEW i \in DOMAIN orders, Fill(i) \/ End(i)
    PROVE  Shrunk
  <1>1. PICK state \in {"open", "gone"} :
          /\ orders' = [orders EXCEPT ![i].state = state]
          /\ state = "open" => orders[i].state = "waiting"
    BY DEF Fill, End
  <1>2. orders' = [orders EXCEPT ![i] = [orders[i] EXCEPT !.state = state]]
    BY <1>1
  <1>3. \A k \in DOMAIN orders : orders[k] \in OrderRecord
    BY Shape
  <1>4. /\ [orders[i] EXCEPT !.state = state] \in OrderRecord
        /\ [orders[i] EXCEPT !.state = state].fp = orders[i].fp
        /\ [orders[i] EXCEPT !.state = state].atOnce = orders[i].atOnce
        /\ [orders[i] EXCEPT !.state = state].grouped = orders[i].grouped
        /\ [orders[i] EXCEPT !.state = state].state = state
    BY <1>3 DEF OrderRecord
  <1>5. DOMAIN orders' = DOMAIN orders
    BY <1>2
  <1>6. ASSUME NEW k \in DOMAIN orders
        PROVE  orders'[k] = IF k = i THEN [orders[i] EXCEPT !.state = state] ELSE orders[k]
    BY <1>2
  <1>7. orders' = [k \in DOMAIN orders |->
                     IF k = i THEN [orders[i] EXCEPT !.state = state] ELSE orders[k]]
    BY <1>2
  <1>8. orders' \in [DOMAIN orders -> OrderRecord]
    BY <1>3, <1>4, <1>7
  <1>9. QED BY <1>1, <1>3, <1>4, <1>6, <1>8 DEF Shrunk, OrderRecord

-----------------------------------------------------------------------------
(* Type correctness                                                        *)

\* What a call to the broker adds to the orders.
LEMMA SendAppends ==
    ASSUME TypeOK, Send
    PROVE  /\ orders' \in Seq(OrderRecord)
           /\ Len(orders') >= Len(orders) /\ Len(orders') <= Len(orders) + Entries
           /\ DOMAIN orders' = 1..Len(orders')
           /\ \A i \in DOMAIN orders : i \in DOMAIN orders' /\ orders'[i] = orders[i]
           /\ \A i \in DOMAIN orders' \ DOMAIN orders :
                 /\ orders'[i].fp = job.fp /\ ~orders'[i].grouped
                 /\ orders'[i].state = "waiting" => ~orders'[i].atOnce
  <1>1. PICK n \in 1..Entries : \E market \in [1..n -> BOOLEAN] :
          orders' = orders \o [k \in 1..n |->
              [fp |-> job.fp, state |-> IF market[k] THEN "open" ELSE "waiting",
               atOnce |-> market[k], grouped |-> FALSE]]
    BY DEF Send
  <1>2. PICK market \in [1..n -> BOOLEAN] :
          orders' = orders \o [k \in 1..n |->
              [fp |-> job.fp, state |-> IF market[k] THEN "open" ELSE "waiting",
               atOnce |-> market[k], grouped |-> FALSE]]
    BY <1>1
  <1> DEFINE new == [k \in 1..n |->
              [fp |-> job.fp, state |-> IF market[k] THEN "open" ELSE "waiting",
               atOnce |-> market[k], grouped |-> FALSE]]
  <1>3. job.fp \in Fingerprints /\ n \in Nat
    BY AdmissionAssumption DEF Send, TypeOK
  <1>4. ASSUME NEW k \in 1..n
        PROVE  /\ new[k] \in OrderRecord /\ new[k].fp = job.fp /\ ~new[k].grouped
               /\ new[k].state = "waiting" => ~new[k].atOnce
    BY <1>3 DEF OrderRecord
  <1>5. new \in [1..n -> OrderRecord]
    BY <1>4
  <1> HIDE DEF new
  <1>6. new \in Seq(OrderRecord) /\ Len(new) = n
    BY <1>3, <1>5
  <1>7. orders' = orders \o new
    BY <1>2 DEF new
  <1>8. /\ orders' \in Seq(OrderRecord)
        /\ Len(orders') = Len(orders) + n
        /\ \A i \in 1..Len(orders) + n :
              orders'[i] = IF i <= Len(orders) THEN orders[i] ELSE new[i - Len(orders)]
    BY <1>6, <1>7, Shape, ConcatProperties
  <1>9. DOMAIN orders' = 1..Len(orders) + n
    BY <1>8, LenProperties
  <1>10. ASSUME NEW i \in DOMAIN orders' \ DOMAIN orders
         PROVE  i - Len(orders) \in 1..n /\ orders'[i] = new[i - Len(orders)]
    BY <1>3, <1>8, <1>9, Shape
  <1>11. \A i \in DOMAIN orders : i \in DOMAIN orders' /\ orders'[i] = orders[i]
    BY <1>3, <1>8, <1>9, Shape
  <1>12. \A i \in DOMAIN orders' \ DOMAIN orders :
            /\ orders'[i].fp = job.fp /\ ~orders'[i].grouped
            /\ orders'[i].state = "waiting" => ~orders'[i].atOnce
    BY <1>4, <1>10
  <1>13. n <= Entries /\ Entries \in Nat
    BY AdmissionAssumption
  <1>14. Len(orders') >= Len(orders) /\ Len(orders') <= Len(orders) + Entries
    BY <1>3, <1>8, <1>13, Shape
  <1>15. QED BY <1>3, <1>8, <1>9, <1>11, <1>12, <1>14, Shape

LEMMA RegisterGroups ==
    ASSUME TypeOK, Register
    PROVE  /\ orders' \in [DOMAIN orders -> OrderRecord]
           /\ groups' \in [Fingerprints -> {"none", "active", "completed"}]
           /\ GroupsStay
           /\ \A i \in DOMAIN orders :
                 /\ orders'[i].fp = orders[i].fp /\ orders'[i].atOnce = orders[i].atOnce
                 /\ orders'[i].state = orders[i].state
                 /\ orders'[i].grouped => \/ orders[i].grouped
                                          \/ i >= job.first /\ groups'[job.fp] # "none"
  <1>1. job.fp \in Fingerprints
    BY DEF Register, TypeOK
  <1>2. CASE groups[job.fp] # "none"
    BY <1>2, SameOrders DEF Register, GroupsStay, TypeOK, Shrunk
  <1>3. CASE groups[job.fp] = "none"
    <2>1. /\ groups' = [groups EXCEPT ![job.fp] = "active"]
          /\ orders' = [i \in DOMAIN orders |->
                  IF i >= job.first THEN [orders[i] EXCEPT !.grouped = TRUE]
                  ELSE orders[i]]
      BY <1>3 DEF Register
    <2>2. ASSUME NEW i \in DOMAIN orders
          PROVE  /\ orders'[i] \in OrderRecord
                 /\ orders'[i].fp = orders[i].fp /\ orders'[i].atOnce = orders[i].atOnce
                 /\ orders'[i].state = orders[i].state
                 /\ orders'[i].grouped => orders[i].grouped \/ i >= job.first
      BY <2>1, Shape DEF OrderRecord
    <2>3. orders' \in [DOMAIN orders -> OrderRecord]
      BY <2>1, <2>2
    <2>4. groups'[job.fp] = "active" /\ GroupsStay
      BY <1>1, <2>1 DEF GroupsStay, TypeOK
    <2>5. groups' \in [Fingerprints -> {"none", "active", "completed"}]
      BY <2>1 DEF TypeOK
    <2>6. QED BY <2>2, <2>3, <2>4, <2>5
  <1>4. QED BY <1>2, <1>3

LEMMA InitType == Init => TypeOK
  <1> SUFFICES ASSUME Init PROVE TypeOK
    OBVIOUS
  <1>1. Idle \in [fp : Fingerprints \cup {Idle.fp}, at : 0..MaxTime, first : Nat \ {0}]
    BY AdmissionAssumption DEF Idle
  <1>2. rows \in Seq(RowRecord) /\ orders \in Seq(OrderRecord)
    BY DEF Init
  <1>3. /\ text \in [Messages -> Texts \cup {None}]
        /\ groups \in [Fingerprints -> {"none", "active", "completed"}]
    BY DEF Init
  <1>4. now \in 0..MaxTime /\ deliveries \in 0..MaxDeliveries /\ faults \in 0..MaxFaults
    BY AdmissionAssumption DEF Init
  <1>5. /\ job \in [fp : Fingerprints \cup {Idle.fp}, at : 0..MaxTime, first : Nat \ {0}]
        /\ at = "idle" /\ edited = {} /\ sent = {} /\ blind = FALSE
    BY <1>1 DEF Init
  <1>6. QED
    BY <1>2, <1>3, <1>4, <1>5 DEF TypeOK, RowRecord, OrderRecord

\* The jobs that the handlers begin and end with.
LEMMA Jobs ==
    /\ Finish => /\ at' = "idle"
                 /\ job' \in [fp : Fingerprints \cup {Idle.fp}, at : 0..MaxTime,
                              first : Nat \ {0}]
    /\ \A step, fp : Begin(step, fp) /\ fp \in Fingerprints =>
          /\ at' = step /\ job'.fp = fp
          /\ job' \in [fp : Fingerprints \cup {Idle.fp}, at : 0..MaxTime, first : Nat \ {0}]
  BY AdmissionAssumption DEF Finish, Begin, Idle

LEMMA TypeStep == TypeOK /\ [Next]_vars => TypeOK'
  <1> SUFFICES ASSUME TypeOK, [Next]_vars PROVE TypeOK'
    OBVIOUS
  <1> USE AdmissionAssumption
  <1> USE DEF table, control, bounds
  <1>0. /\ faults \in 0..MaxFaults /\ deliveries \in 0..MaxDeliveries /\ now \in 0..MaxTime
        /\ MaxFaults \in Nat /\ MaxDeliveries \in Nat /\ MaxTime \in Nat
    BY DEF TypeOK
  <1>1. ASSUME NEW m \in Messages, NEW t \in Texts, NewMessage(m, t) PROVE TypeOK'
    <2>1. <<m, t>> \in Fingerprints /\ text' \in [Messages -> Texts \cup {None}]
      BY <1>1 DEF NewMessage, TypeOK, Fingerprints
    <2>2. deliveries' \in 0..MaxDeliveries
      BY <1>0, <1>1 DEF NewMessage, Deliver
    <2>3. Begin("process", <<m, t>>) /\ UNCHANGED <<now, edited, table, orders, sent, blind, faults>>
      BY <1>1 DEF NewMessage
    <2>4. QED BY <2>1, <2>2, <2>3, Jobs DEF TypeOK
  <1>2. ASSUME NEW m \in Messages, NEW t \in Texts, Edit(m, t) PROVE TypeOK'
    <2>1. /\ <<m, t>> \in Fingerprints /\ text' \in [Messages -> Texts \cup {None}]
          /\ edited' \subseteq Messages /\ deliveries' \in 0..MaxDeliveries
          /\ at = "idle" /\ UNCHANGED <<now, rows, sent, blind, faults>>
      <3>1. deliveries' \in 0..MaxDeliveries
        BY <1>0, <1>2 DEF Edit, Deliver
      <3>2. QED BY <1>2, <3>1 DEF Edit, Deliver, TypeOK, Fingerprints
    <2>2. \/ UNCHANGED <<orders, groups, control>>
          \/ \E fp \in FingerprintOf(m) : CancelPending(fp) /\ UNCHANGED control
          \/ Begin("cancel", <<m, t>>) /\ UNCHANGED <<orders, groups>>
      BY <1>2 DEF Edit
    <2>3. CASE UNCHANGED <<orders, groups, control>>
      BY <2>1, <2>3 DEF TypeOK
    <2>4. ASSUME NEW fp \in FingerprintOf(m), CancelPending(fp), UNCHANGED control
          PROVE  TypeOK'
      <3>1. fp \in Fingerprints
        BY <2>4, Shape DEF FingerprintOf, RowRecord
      <3>2. /\ orders' \in Seq(OrderRecord)
            /\ groups' \in [Fingerprints -> {"none", "active", "completed"}]
        BY <2>4, <3>1, CancelPendingShrinks, ShrunkSequence
      <3>3. QED BY <2>1, <2>4, <3>2 DEF TypeOK, OrderRecord
    <2>5. CASE Begin("cancel", <<m, t>>) /\ UNCHANGED <<orders, groups>>
      BY <2>1, <2>5, Jobs DEF TypeOK
    <2>6. QED BY <2>2, <2>3, <2>4, <2>5
  <1>3. ASSUME NEW m \in Messages, NEW fp \in FingerprintOf(m), CancelPending(fp)
        PROVE  /\ orders' \in Seq(OrderRecord)
               /\ groups' \in [Fingerprints -> {"none", "active", "completed"}]
    <2>1. fp \in Fingerprints
      BY <1>3, Shape DEF FingerprintOf, RowRecord
    <2>2. QED BY <1>3, <2>1, CancelPendingShrinks, ShrunkSequence
  <1>4. ASSUME NEW m \in Messages, Delete(m) PROVE TypeOK'
    <2>1. /\ orders' \in Seq(OrderRecord)
          /\ groups' \in [Fingerprints -> {"none", "active", "completed"}]
      BY <1>3, <1>4 DEF Delete
    <2>2. deliveries' \in 0..MaxDeliveries
      BY <1>0, <1>4 DEF Delete, Deliver
    <2>3. QED BY <1>4, <2>1, <2>2 DEF Delete, TypeOK, OrderRecord
  <1>5. CASE Cancel
    <2>1. job.fp[1] \in Messages
      BY <1>5 DEF Cancel, TypeOK, Fingerprints
    <2>2. QED BY <1>3, <1>5, <2>1 DEF Cancel, TypeOK, OrderRecord
  <1>6. CASE RefuseWithoutRow \/ RejectDrift \/ FailAfterSend
    <2>1. faults' \in 0..MaxFaults
      BY <1>0, <1>6 DEF RefuseWithoutRow, RejectDrift, FailAfterSend
    <2>2. Finish /\ UNCHANGED <<now, text, edited, table, orders, sent, blind, deliveries>>
      BY <1>6 DEF RefuseWithoutRow, RejectDrift, FailAfterSend
    <2>3. QED BY <2>1, <2>2, Jobs DEF TypeOK
  <1>7. CASE Reject
    <2>1. rows' \in Seq(RowRecord)
      BY <1>7, RowAdded DEF Reject, TypeOK
    <2>2. QED BY <1>7, <2>1, Jobs DEF Reject, TypeOK, RowRecord
  <1>8. CASE Admit
    <2>1. rows' \in Seq(RowRecord)
      BY <1>8, RowAdded DEF Admit, TypeOK
    <2>2. job' \in [fp : Fingerprints \cup {Idle.fp}, at : 0..MaxTime, first : Nat \ {0}]
          /\ job'.fp = job.fp
      <3> DEFINE n == Len(orders) + 1
      <3>1. job' = [job EXCEPT !.at = now, !.first = n]
        BY <1>8 DEF Admit
      <3>2. n \in Nat \ {0}
        BY Shape
      <3>3. /\ now \in 0..MaxTime
            /\ job \in [fp : Fingerprints \cup {Idle.fp}, at : 0..MaxTime, first : Nat \ {0}]
        BY DEF TypeOK
      <3> HIDE DEF n
      <3>4. QED BY <3>1, <3>2, <3>3
    <2>3. blind' \in BOOLEAN
      BY <1>8 DEF Admit, TypeOK
    <2>4. QED BY <1>8, <2>1, <2>2, <2>3 DEF Admit, TypeOK, RowRecord
  <1>9. CASE Send
    <2>1. orders' \in Seq(OrderRecord)
      BY <1>9, SendAppends
    <2>2. sent' \subseteq [fp : Fingerprints, at : 0..MaxTime, first : Nat \ {0}]
      BY <1>9 DEF Send, TypeOK
    <2>3. QED BY <1>9, <2>1, <2>2 DEF Send, TypeOK, OrderRecord
  <1>10. CASE Register
    <2>1. orders' \in [1..Len(orders) -> OrderRecord] /\ Len(orders) \in Nat
      BY <1>10, RegisterGroups, Shape
    <2>2. orders' \in Seq(OrderRecord)
      BY <2>1
    <2>3. groups' \in [Fingerprints -> {"none", "active", "completed"}]
      BY <1>10, RegisterGroups
    <2>4. Finish /\ UNCHANGED <<now, text, edited, rows, sent, blind, bounds>>
      BY <1>10 DEF Register
    <2>5. QED BY <2>2, <2>3, <2>4, Jobs DEF TypeOK, OrderRecord
  <1>11. ASSUME NEW fp \in Fingerprints, CompleteGroup(fp) PROVE TypeOK'
    BY <1>11 DEF CompleteGroup, TypeOK
  <1>12. CASE Restart
    <2>1. orders' \in Seq(OrderRecord)
      BY <1>12, RestartShrinks, ShrunkSequence
    <2>2. groups' \in [Fingerprints -> {"none", "active", "completed"}]
      BY <1>12, RestartShrinks
    <2>3. faults' \in 0..MaxFaults
      BY <1>0, <1>12 DEF Restart
    <2>4. UNCHANGED <<now, text, edited, rows, sent, blind, deliveries>> /\ Finish
      BY <1>12 DEF Restart
    <2>5. QED BY <2>1, <2>2, <2>3, <2>4, Jobs DEF TypeOK, OrderRecord
  <1>13. ASSUME NEW i \in DOMAIN orders, Fill(i) \/ End(i) PROVE TypeOK'
    <2>1. orders' \in Seq(OrderRecord)
      BY <1>13, BrokerShrinks, ShrunkSequence
    <2>2. UNCHANGED <<now, text, edited, table, control, sent, blind, bounds>>
      BY <1>13 DEF Fill, End
    <2>3. QED BY <2>1, <2>2 DEF TypeOK, OrderRecord
  <1>14. CASE Tick
    <2>1. now' \in 0..MaxTime
      BY <1>0, <1>14 DEF Tick
    <2>2. UNCHANGED <<text, edited, table, orders, control, sent, blind, bounds>>
      BY <1>14 DEF Tick
    <2>3. QED BY <2>1, <2>2 DEF TypeOK
  <1>15. CASE UNCHANGED vars
    BY <1>15 DEF vars, TypeOK
  <1>16. QED
    BY <1>1, <1>2, <1>4, <1>5, <1>6, <1>7, <1>8, <1>9, <1>10, <1>11, <1>12, <1>13, <1>14,
       <1>15
    DEF Next

-----------------------------------------------------------------------------
(* Once per window                                                         *)

LEMMA WindowStep ==
    IInv /\ [Next]_vars => RowFirst' /\ WindowClear' /\ OncePerWindow'
  <1> SUFFICES ASSUME IInv, [Next]_vars
               PROVE  RowFirst' /\ WindowClear' /\ OncePerWindow'
    OBVIOUS
  <1> USE DEF table, control, bounds
  <1>0. TypeOK /\ RowFirst /\ WindowClear /\ OncePerWindow
    BY DEF IInv
  <1>1. /\ \A s \in sent : s.at \in Int
        /\ job.at \in Int /\ now \in Int /\ Ttl \in Int
        /\ \A i \in DOMAIN rows : rows[i].at \in Int
    BY <1>0, Shape, AdmissionAssumption DEF TypeOK, RowRecord
  <1>2. CASE UNCHANGED <<rows, sent>> /\ (at' = "send" => at = "send" /\ job' = job)
    <2>1. \A fp, time : HasRow(fp, time)' <=> HasRow(fp, time)
      BY <1>2 DEF HasRow
    <2>2. QED BY <1>0, <1>2, <2>1 DEF RowFirst, WindowClear, OncePerWindow
  <1>3. ASSUME job.fp \in Fingerprints, StoreRow
        PROVE  /\ \A fp, time : HasRow(fp, time) => HasRow(fp, time)'
               /\ \E i \in DOMAIN rows' : rows'[i].fp = job.fp /\ rows'[i].at = now
    <2>1. /\ DOMAIN rows \subseteq DOMAIN rows' /\ Len(rows) + 1 \in DOMAIN rows'
          /\ \A i \in DOMAIN rows : rows'[i] = rows[i]
          /\ rows'[Len(rows) + 1].fp = job.fp /\ rows'[Len(rows) + 1].at = now
      BY <1>0, <1>3, RowAdded, Shape
    <2>2. ASSUME NEW fp, NEW time, HasRow(fp, time) PROVE HasRow(fp, time)'
      <3>1. PICK i \in DOMAIN rows : rows[i].fp = fp /\ rows[i].at = time
        BY <2>2 DEF HasRow
      <3>2. i \in DOMAIN rows' /\ rows'[i].fp = fp /\ rows'[i].at = time
        BY <2>1, <3>1
      <3>3. QED BY <3>2 DEF HasRow
    <2>3. QED BY <2>1, <2>2
  <1>4. CASE Reject
    <2>1. /\ job.fp \in Fingerprints /\ StoreRow /\ at' = "idle" /\ UNCHANGED sent
      BY <1>0, <1>4 DEF Reject, Finish, TypeOK
    <2>2. QED BY <1>0, <1>3, <2>1 DEF RowFirst, WindowClear, OncePerWindow
  <1>5. CASE Admit
    <2>1. /\ job.fp \in Fingerprints /\ StoreRow /\ at' = "send" /\ UNCHANGED sent
          /\ ~IsDuplicate(job.fp)
      BY <1>0, <1>5 DEF Admit, TypeOK
    <2>2. job'.fp = job.fp /\ job'.at = now
      BY <1>0, <1>5 DEF Admit, TypeOK
    <2>3. RowFirst'
      <3>1. \A s \in sent : HasRow(s.fp, s.at)'
        BY <1>0, <1>3, <2>1 DEF RowFirst
      <3>2. \E i \in DOMAIN rows' : rows'[i].fp = job.fp /\ rows'[i].at = now
        BY <1>3, <2>1
      <3>3. HasRow(job.fp, job.at)'
        BY <2>2, <3>2 DEF HasRow
      <3>4. QED BY <2>1, <3>1, <3>3 DEF RowFirst
    <2>4. ASSUME NEW s \in sent, s.fp = job.fp PROVE now - s.at >= Ttl
      <3>1. PICK i \in DOMAIN rows : rows[i].fp = s.fp /\ rows[i].at = s.at
        BY <1>0 DEF RowFirst, HasRow
      <3>2. ~(now - rows[i].at < Ttl)
        BY <2>1, <2>4, <3>1 DEF IsDuplicate
      <3>3. QED BY <1>1, <3>1, <3>2
    <2>5. QED BY <1>0, <2>1, <2>2, <2>3, <2>4 DEF WindowClear, OncePerWindow
  <1>6. CASE Send
    <2>1. /\ at = "send" /\ at' = "register" /\ sent' = sent \cup {job}
          /\ UNCHANGED rows
      BY <1>6 DEF Send
    <2>2. RowFirst' /\ WindowClear'
      BY <1>0, <2>1 DEF RowFirst, WindowClear, HasRow
    <2>3. \A s \in sent : s.fp = job.fp => job.at - s.at >= Ttl
      BY <1>0, <2>1 DEF WindowClear
    <2>4. OncePerWindow'
      BY <1>0, <2>1, <2>3 DEF OncePerWindow
    <2>5. QED BY <2>2, <2>4
  <1>7. QED
    BY <1>2, <1>4, <1>5, <1>6
    DEF Next, NewMessage, Edit, Cancel, Delete, RefuseWithoutRow, RejectDrift,
        FailAfterSend, Register, CompleteGroup, Restart, Fill, End, Tick, vars,
        Begin, Finish

-----------------------------------------------------------------------------
(* One text of a message                                                   *)

\* Orders that are only cancelled, filled, closed or let go disturb nothing, if
\* no row is added and the handler keeps its signal or ends.
LEMMA ShrunkKeeps ==
    ASSUME IInv, Shrunk, UNCHANGED rows,
           \A i \in DOMAIN orders : orders'[i].grouped => groups'[orders'[i].fp] # "none",
           \/ UNCHANGED control
           \/ at' = "idle"
           \/ at = "cancel" /\ at' = "process" /\ UNCHANGED job
    PROVE  LatestIsLive' /\ OrdersOfGroups'
  <1> USE DEF control
  <1>0. TypeOK /\ LatestIsLive /\ OrdersOfGroups
    BY DEF IInv
  <1>1. DOMAIN orders' = DOMAIN orders /\ Len(orders') = Len(orders)
    BY <1>0, ShrunkSequence
  <1>2. ASSUME NEW i \in DOMAIN orders, Live(i)'
        PROVE  Live(i) /\ orders'[i].fp = orders[i].fp
    BY <1>0, <1>1, <1>2 DEF Live, Shrunk, OrdersOfGroups
  <1>3. \A m : FingerprintOf(m)' = FingerprintOf(m)
    BY DEF FingerprintOf
  <1>4. LatestIsLive'
    BY <1>0, <1>1, <1>2, <1>3 DEF LatestIsLive
  <1>5. OrdersOfGroups'
    BY <1>0, <1>1 DEF OrdersOfGroups, Shrunk
  <1>6. QED BY <1>4, <1>5

\* Orders that stay grouped have a group where no group is dropped.
LEMMA GroupsStayEnough ==
    ASSUME TypeOK, OrdersOfGroups, Shrunk, GroupsStay
    PROVE  \A i \in DOMAIN orders : orders'[i].grouped => groups'[orders'[i].fp] # "none"
  BY Shape DEF OrdersOfGroups, Shrunk, GroupsStay, OrderRecord

\* A handler that starts with a message or an edit finds nothing live of it but
\* what it is about.
LEMMA StartStep ==
    ASSUME IInv, NEW m \in Messages, NEW t \in Texts, NewMessage(m, t) \/ Edit(m, t)
    PROVE  LatestIsLive' /\ OrdersOfGroups'
  <1> USE DEF control, table
  <1>0. TypeOK /\ LatestIsLive /\ OrdersOfGroups /\ TextOfRows
    BY DEF IInv
  <1>1. at = "idle" /\ UNCHANGED rows
    BY DEF NewMessage, Edit, Deliver
  <1>2. \A fp \in FingerprintOf(m) : fp \in Fingerprints
    BY <1>0, Shape DEF FingerprintOf, RowRecord
  <1>3. ASSUME Begin("process", <<m, t>>) \/ Begin("cancel", <<m, t>>),
               UNCHANGED <<orders, groups>>,
               \A i \in DOMAIN orders :
                   Live(i) /\ orders[i].fp[1] = m => orders[i].fp = <<m, t>>
        PROVE  LatestIsLive' /\ OrdersOfGroups'
    <2>1. job'.fp = <<m, t>> /\ at' \in {"process", "cancel"}
      BY <1>3 DEF Begin, Idle
    <2>2. \A i \in DOMAIN orders : Live(i)' <=> Live(i)
      BY <1>3 DEF Live
    <2>3. \A n : FingerprintOf(n)' = FingerprintOf(n)
      BY <1>1 DEF FingerprintOf
    <2>4. LatestIsLive'
      BY <1>0, <1>3, <2>1, <2>2, <2>3 DEF LatestIsLive
    <2>5. OrdersOfGroups'
      BY <1>0, <1>3, <2>1 DEF OrdersOfGroups
    <2>6. QED BY <2>4, <2>5
  <1>4. CASE NewMessage(m, t)
    <2>1. /\ text[m] = None \/ (text[m] = t /\ m \notin edited)
          /\ Begin("process", <<m, t>>) /\ UNCHANGED <<orders, groups>>
      BY <1>4 DEF NewMessage
    <2>2. ASSUME NEW i \in DOMAIN orders, Live(i), orders[i].fp[1] = m
          PROVE  orders[i].fp = <<m, t>>
      <3>1. PICK r \in DOMAIN rows : Latest(m, r) /\ rows[r].fp = orders[i].fp
        BY <1>0, <2>2, LatestRow DEF LatestIsLive
      <3>2. text[m] # None /\ (m \notin edited => orders[i].fp[2] = text[m])
        BY <1>0, <3>1, <2>2 DEF TextOfRows
      <3>3. orders[i].fp \in Messages \X Texts
        BY <1>0, Shape DEF OrderRecord, Fingerprints
      <3>4. QED BY <2>1, <2>2, <3>2, <3>3
    <2>3. QED BY <1>3, <2>1, <2>2
  <1>5. CASE Edit(m, t)
    <2>1. \/ UNCHANGED <<orders, groups, control>>
          \/ \E fp \in FingerprintOf(m) : CancelPending(fp) /\ UNCHANGED control
          \/ /\ \E fp \in FingerprintOf(m) : ~HasFilled(fp)
             /\ Begin("cancel", <<m, t>>) /\ UNCHANGED <<orders, groups>>
      BY <1>5 DEF Edit
    <2>2. CASE UNCHANGED <<orders, groups, control>>
      <3>1. Shrunk /\ GroupsStay
        BY <1>0, <2>2, SameOrders DEF GroupsStay
      <3>2. QED BY <1>0, <1>1, <2>2, <3>1, ShrunkKeeps, GroupsStayEnough
    <2>3. ASSUME NEW fp \in FingerprintOf(m), CancelPending(fp), UNCHANGED control
          PROVE  LatestIsLive' /\ OrdersOfGroups'
      <3>1. Shrunk /\ GroupsStay
        BY <1>0, <1>2, <2>3, CancelPendingShrinks
      <3>2. QED BY <1>0, <1>1, <2>3, <3>1, ShrunkKeeps, GroupsStayEnough
    <2>4. ASSUME NEW fp \in FingerprintOf(m), ~HasFilled(fp),
                 Begin("cancel", <<m, t>>), UNCHANGED <<orders, groups>>
          PROVE  LatestIsLive' /\ OrdersOfGroups'
      <3>1. ASSUME NEW i \in DOMAIN orders, Live(i), orders[i].fp[1] = m PROVE FALSE
        <4>1. orders[i].fp \in FingerprintOf(m)
          BY <1>0, <3>1 DEF LatestIsLive
        <4>2. orders[i].fp = fp
          BY <1>0, <4>1, OneFingerprint
        <4>3. QED
          BY <1>0, <2>4, <3>1, <4>2 DEF HasFilled, InState, Live, OrdersOfGroups
      <3>2. QED BY <1>3, <2>4, <3>1
    <2>5. QED BY <2>1, <2>2, <2>3, <2>4
  <1>6. QED BY <1>4, <1>5

\* Every row is of a text the message had, and of its present text while nobody
\* edited it.
LEMMA TextStep == IInv /\ [Next]_vars => TextOfRows'
  <1> SUFFICES ASSUME IInv, [Next]_vars PROVE TextOfRows'
    OBVIOUS
  <1> USE DEF table, control, bounds
  <1>0. TypeOK /\ TextOfRows
    BY DEF IInv
  <1>1. CASE UNCHANGED <<text, edited, rows>> /\ (at' # "idle" => at # "idle" /\ job'.fp = job.fp)
    BY <1>0, <1>1 DEF TextOfRows
  <1>2. ASSUME NEW m \in Messages, NEW t \in Texts,
               text' = [text EXCEPT ![m] = t], UNCHANGED rows,
               edited \subseteq edited', m \in edited' \/ text[m] = t \/ text[m] = None,
               at' # "idle" => job'.fp = <<m, t>>
        PROVE  TextOfRows'
    <2>1. text'[m] = t /\ \A n \in Messages \ {m} : text'[n] = text[n]
      BY <1>0, <1>2 DEF TypeOK
    <2>2. ASSUME NEW i \in DOMAIN rows
          PROVE  /\ text'[rows[i].fp[1]] # None
                 /\ rows[i].fp[1] \notin edited' => rows[i].fp[2] = text'[rows[i].fp[1]]
      <3>1. rows[i].fp[1] \in Messages
        BY <1>0, Shape DEF RowRecord, Fingerprints
      <3>2. CASE rows[i].fp[1] = m
        BY <1>0, <1>2, <2>1, <3>2, AdmissionAssumption DEF TextOfRows
      <3>3. CASE rows[i].fp[1] # m
        BY <1>0, <1>2, <2>1, <3>1, <3>3 DEF TextOfRows
      <3>4. QED BY <3>2, <3>3
    <2>3. at' # "idle" => text'[job'.fp[1]] = job'.fp[2]
      BY <1>2, <2>1
    <2>4. QED BY <1>2, <2>2, <2>3 DEF TextOfRows
  <1>3. ASSUME NEW m \in Messages, NEW t \in Texts, NewMessage(m, t) PROVE TextOfRows'
    <2>1. /\ text' = [text EXCEPT ![m] = t] /\ UNCHANGED <<rows, edited>>
          /\ text[m] \in {t, None} /\ job'.fp = <<m, t>>
      BY <1>3 DEF NewMessage, Begin, Idle
    <2>2. QED BY <1>2, <2>1
  <1>4. ASSUME NEW m \in Messages, NEW t \in Texts, Edit(m, t) PROVE TextOfRows'
    <2>1. /\ text' = [text EXCEPT ![m] = t] /\ UNCHANGED rows
          /\ edited \subseteq edited'
          /\ m \in edited' \/ text[m] = t
      BY <1>4 DEF Edit
    <2>2. at' # "idle" => job'.fp = <<m, t>>
      <3>1. UNCHANGED control \/ Begin("cancel", <<m, t>>)
        BY <1>4 DEF Edit
      <3>2. at = "idle"
        BY <1>4 DEF Edit, Deliver
      <3>3. QED BY <3>1, <3>2 DEF Begin, Idle
    <2>3. QED BY <1>2, <2>1, <2>2
  <1>5. CASE Reject \/ Admit
    <2>1. /\ job.fp \in Fingerprints /\ StoreRow /\ UNCHANGED <<text, edited>>
          /\ at # "idle" /\ (at' # "idle" => job'.fp = job.fp)
      BY <1>0, <1>5 DEF Reject, Admit, Finish, TypeOK
    <2>2. /\ DOMAIN rows' = 1..(Len(rows) + 1) /\ rows'[Len(rows) + 1].fp = job.fp
          /\ \A i \in DOMAIN rows : rows'[i] = rows[i]
          /\ Len(rows) \in Nat /\ DOMAIN rows = 1..Len(rows)
      BY <1>0, <2>1, RowAdded, Shape
    <2>3. text[job.fp[1]] = job.fp[2] /\ job.fp[2] \in Texts
      BY <1>0, <2>1 DEF TextOfRows, Fingerprints
    <2>4. ASSUME NEW i \in DOMAIN rows'
          PROVE  /\ text[rows'[i].fp[1]] # None
                 /\ rows'[i].fp[1] \notin edited => rows'[i].fp[2] = text[rows'[i].fp[1]]
      <3>1. i \in DOMAIN rows \/ i = Len(rows) + 1
        BY <2>2
      <3>2. CASE i \in DOMAIN rows
        BY <1>0, <2>2, <3>2 DEF TextOfRows
      <3>3. CASE i = Len(rows) + 1
        BY <2>2, <2>3, <3>3, AdmissionAssumption
      <3>4. QED BY <3>1, <3>2, <3>3
    <2>5. QED BY <2>1, <2>3, <2>4 DEF TextOfRows
  <1>6. QED
    BY <1>1, <1>3, <1>4, <1>5
    DEF Next, Cancel, Delete, RefuseWithoutRow, RejectDrift, Send,
        FailAfterSend, Register, CompleteGroup, Restart, Fill, End, Tick, vars, Finish

\* A row more makes its signal the latest of its message, and changes that of
\* no other message.
LEMMA RowKeeps ==
    ASSUME IInv, Reject \/ Admit
    PROVE  LatestIsLive' /\ OrdersOfGroups'
  <1>0. TypeOK /\ LatestIsLive /\ OrdersOfGroups
    BY DEF IInv
  <1>1. /\ job.fp \in Fingerprints /\ job.fp[1] \in Messages /\ StoreRow
        /\ at = "process" /\ UNCHANGED <<orders, groups>>
    BY <1>0 DEF Reject, Admit, TypeOK, Fingerprints
  <1>2. \A i \in DOMAIN orders : Live(i)' <=> Live(i)
    BY <1>1 DEF Live
  <1>3. ASSUME NEW i \in DOMAIN orders, Live(i), NEW m \in Messages, orders[i].fp[1] = m
        PROVE  orders[i].fp \in FingerprintOf(m)'
    <2>1. CASE job.fp[1] = m
      <3>1. orders[i].fp = job.fp
        BY <1>0, <1>1, <1>3, <2>1 DEF LatestIsLive
      <3>2. job.fp \in FingerprintOf(m)'
        BY <1>0, <1>1, <2>1, LatestAfterRow
      <3>3. QED BY <3>1, <3>2
    <2>2. CASE job.fp[1] # m
      <3>1. orders[i].fp \in FingerprintOf(m)
        BY <1>0, <1>3 DEF LatestIsLive
      <3>2. FingerprintOf(m) \subseteq FingerprintOf(m)'
        BY <1>0, <1>1, <2>2, LatestAfterRow
      <3>3. QED BY <3>1, <3>2
    <2>3. QED BY <2>1, <2>2
  <1>4. ASSUME NEW i \in DOMAIN orders, Live(i)'
        PROVE  orders'[i].fp \in FingerprintOf(orders[i].fp[1])'
    <2>1. orders[i].fp[1] \in Messages
      BY <1>0, Shape DEF OrderRecord, Fingerprints
    <2>2. QED BY <1>1, <1>2, <1>3, <1>4, <2>1
  <1>5. (at \in {"send", "register"} => job.fp \in FingerprintOf(job.fp[1]))'
    <2>1. at' # "idle" => job'.fp = job.fp
      BY <1>0 DEF Reject, Admit, Finish, TypeOK
    <2>2. ASSUME NEW m \in Messages, job.fp[1] = m PROVE job.fp \in FingerprintOf(m)'
      BY <1>0, <1>1, <2>2, LatestAfterRow
    <2>3. QED BY <1>1, <2>1, <2>2
  <1>6. /\ at' \in {"idle", "send"}
        /\ at' = "send" => job'.first = Len(orders) + 1
    BY <1>0 DEF Reject, Admit, Finish, TypeOK
  <1>7. LatestIsLive'
    BY <1>1, <1>4, <1>5, <1>6 DEF LatestIsLive
  <1>8. OrdersOfGroups'
    BY <1>0, <1>1, <1>6, Shape DEF OrdersOfGroups
  <1>9. QED BY <1>7, <1>8

\* Orders that are sent belong to no group yet.
LEMMA SendKeeps ==
    ASSUME IInv, Send
    PROVE  LatestIsLive' /\ OrdersOfGroups'
  <1>0. TypeOK /\ LatestIsLive /\ OrdersOfGroups
    BY DEF IInv
  <1>1. /\ UNCHANGED <<rows, groups, job>> /\ at = "send" /\ at' = "register"
    BY DEF Send, table
  <1>2. \A m : FingerprintOf(m)' = FingerprintOf(m)
    BY <1>1 DEF FingerprintOf
  <1>3. ASSUME NEW i \in DOMAIN orders'
        PROVE  \/ i \in DOMAIN orders /\ orders'[i] = orders[i]
               \/ /\ i \notin DOMAIN orders
                  /\ orders'[i].fp = job.fp /\ ~orders'[i].grouped
                  /\ orders'[i].state = "waiting" => ~orders'[i].atOnce
    BY <1>0, SendAppends
  <1>4. ASSUME NEW i \in DOMAIN orders', Live(i)'
        PROVE  Live(i) /\ orders'[i] = orders[i]
    BY <1>3, <1>4 DEF Live
  <1>5. LatestIsLive'
    BY <1>0, <1>1, <1>2, <1>4 DEF LatestIsLive, Live
  <1>6. ASSUME NEW i \in DOMAIN orders', i >= job.first PROVE orders'[i].fp = job.fp
    <2>1. job.first > Len(orders) /\ job.first \in Nat /\ Len(orders) \in Nat
          /\ DOMAIN orders = 1..Len(orders)
      BY <1>0, <1>1, Shape DEF OrdersOfGroups, TypeOK
    <2>2. i \notin DOMAIN orders
      BY <1>6, <2>1
    <2>3. QED BY <1>3, <2>2
  <1>7. OrdersOfGroups'
    BY <1>0, <1>1, <1>3, <1>6 DEF OrdersOfGroups
  <1>8. QED BY <1>5, <1>7

\* The orders that a registration groups are of the signal that was executed.
LEMMA RegisterKeeps ==
    ASSUME IInv, Register
    PROVE  LatestIsLive' /\ OrdersOfGroups'
  <1>0. TypeOK /\ LatestIsLive /\ OrdersOfGroups
    BY DEF IInv
  <1>1. UNCHANGED rows /\ at = "register" /\ at' = "idle"
    BY DEF Register, Finish
  <1>2. \A m : FingerprintOf(m)' = FingerprintOf(m)
    BY <1>1 DEF FingerprintOf
  <1>3. DOMAIN orders' = DOMAIN orders
    BY <1>0, RegisterGroups
  <1>4. ASSUME NEW i \in DOMAIN orders
        PROVE  /\ orders'[i].fp = orders[i].fp /\ orders'[i].atOnce = orders[i].atOnce
               /\ orders'[i].state = orders[i].state /\ orders[i].fp \in Fingerprints
               /\ orders'[i].grouped => \/ orders[i].grouped
                                        \/ /\ orders[i].fp = job.fp
                                           /\ groups'[orders[i].fp] # "none"
    BY <1>0, <1>1, Shape, RegisterGroups DEF OrdersOfGroups, OrderRecord
  <1>5. ASSUME NEW i \in DOMAIN orders, Live(i)'
        PROVE  orders[i].fp \in FingerprintOf(orders[i].fp[1])
    <2>1. CASE orders[i].grouped
      BY <1>0, <1>4, <1>5, <2>1 DEF LatestIsLive, Live
    <2>2. CASE ~orders[i].grouped
      <3>1. orders[i].fp = job.fp
        BY <1>4, <1>5, <2>2 DEF Live
      <3>2. QED BY <1>0, <1>1, <3>1 DEF LatestIsLive
    <2>3. QED BY <2>1, <2>2
  <1>6. LatestIsLive'
    BY <1>1, <1>2, <1>3, <1>4, <1>5 DEF LatestIsLive
  <1>7. GroupsStay
    BY <1>0, RegisterGroups
  <1>8. OrdersOfGroups'
    BY <1>0, <1>1, <1>3, <1>4, <1>7 DEF OrdersOfGroups, GroupsStay
  <1>9. QED BY <1>6, <1>8

LEMMA LiveStep == IInv /\ [Next]_vars => LatestIsLive' /\ OrdersOfGroups'
  <1> SUFFICES ASSUME IInv, [Next]_vars PROVE LatestIsLive' /\ OrdersOfGroups'
    OBVIOUS
  <1> USE DEF table, control, bounds
  <1>0. TypeOK /\ LatestIsLive /\ OrdersOfGroups
    BY DEF IInv
  <1>1. ASSUME UNCHANGED <<orders, rows>>, GroupsStay, UNCHANGED control \/ at' = "idle"
        PROVE  LatestIsLive' /\ OrdersOfGroups'
    BY <1>0, <1>1, SameOrders, GroupsStayEnough, ShrunkKeeps
  <1>2. ASSUME NEW m \in Messages, NEW fp \in FingerprintOf(m), CancelPending(fp),
               UNCHANGED rows,
               \/ UNCHANGED control
               \/ at = "cancel" /\ at' = "process" /\ UNCHANGED job
        PROVE  LatestIsLive' /\ OrdersOfGroups'
    <2>1. fp \in Fingerprints
      BY <1>0, Shape DEF FingerprintOf, RowRecord
    <2>2. Shrunk /\ GroupsStay
      BY <1>0, <1>2, <2>1, CancelPendingShrinks
    <2>3. QED BY <1>0, <1>2, <2>2, GroupsStayEnough, ShrunkKeeps
  <1>3. ASSUME NEW m \in Messages, Delete(m) PROVE LatestIsLive' /\ OrdersOfGroups'
    BY <1>2, <1>3 DEF Delete
  <1>4. CASE Cancel
    <2>1. job.fp[1] \in Messages
      BY <1>0, <1>4 DEF Cancel, TypeOK, Fingerprints
    <2>2. QED BY <1>2, <1>4, <2>1 DEF Cancel
  <1>5. CASE RefuseWithoutRow \/ RejectDrift \/ FailAfterSend
    BY <1>1, <1>5 DEF RefuseWithoutRow, RejectDrift, FailAfterSend, Finish, GroupsStay
  <1>6. ASSUME NEW fp \in Fingerprints, CompleteGroup(fp)
        PROVE  LatestIsLive' /\ OrdersOfGroups'
    <2>1. GroupsStay
      BY <1>0, <1>6 DEF CompleteGroup, GroupsStay, TypeOK
    <2>2. QED BY <1>1, <1>6, <2>1 DEF CompleteGroup
  <1>7. CASE Restart
    <2>1. at' = "idle" /\ UNCHANGED rows
      BY <1>7 DEF Restart, Finish
    <2>2. QED BY <1>0, <1>7, <2>1, RestartShrinks, ShrunkKeeps
  <1>8. ASSUME NEW i \in DOMAIN orders, Fill(i) \/ End(i)
        PROVE  LatestIsLive' /\ OrdersOfGroups'
    <2>1. UNCHANGED <<table, control>>
      BY <1>8 DEF Fill, End
    <2>2. Shrunk /\ GroupsStay
      BY <1>0, <1>8, <2>1, BrokerShrinks DEF GroupsStay
    <2>3. QED BY <1>0, <2>1, <2>2, GroupsStayEnough, ShrunkKeeps
  <1>9. CASE Tick \/ UNCHANGED vars
    BY <1>1, <1>9 DEF Tick, vars, GroupsStay
  <1>10. QED
    BY <1>3, <1>4, <1>5, <1>6, <1>7, <1>8, <1>9, StartStep, RowKeeps, SendKeeps,
       RegisterKeeps DEF Next

-----------------------------------------------------------------------------
(* The theorems                                                            *)

LEMMA InitIInv == Init => IInv
  <1> SUFFICES ASSUME Init PROVE IInv
    OBVIOUS
  <1>1. TypeOK
    BY InitType
  <1>2. at = "idle" /\ sent = {} /\ DOMAIN rows = {} /\ DOMAIN orders = {}
    BY DEF Init
  <1>3. QED
    BY <1>1, <1>2
    DEF IInv, RowFirst, WindowClear, OncePerWindow, LatestIsLive, TextOfRows, OrdersOfGroups

\* The inductive invariant of the admission: the types, and what ties the rows,
\* the orders and the handler together (Bot._do_process_signal, _process_edit).
THEOREM Invariant == Spec => []IInv
  <1>1. IInv /\ [Next]_vars => IInv'
    BY TypeStep, WindowStep, TextStep, LiveStep DEF IInv
  <1>2. QED BY InitIInv, <1>1, PTL DEF Spec

\* The same signal of a message is executed once per window, for any window,
\* any number of deliveries, kills and failed commits (Storage.is_duplicate and
\* the row that Bot._do_process_signal commits before the orders).
THEOREM Once == Spec => []OncePerWindow
  <1>1. IInv => OncePerWindow
    BY DEF IInv
  <1>2. QED BY <1>1, Invariant, PTL

\* Two texts of one message do not both have a position that was opened at once
\* and belongs to a group, whatever the broker does between the steps of an
\* edit (Bot._process_edit, MessageUpdateHandler.handle_edit).
THEOREM Exclusive == Spec => []TextsExclusive
  <1>1. ASSUME IInv PROVE TextsExclusive
    <2>1. TypeOK /\ LatestIsLive
      BY <1>1 DEF IInv
    <2>2. ASSUME NEW i \in {k \in InState("open") : orders[k].atOnce /\ orders[k].grouped},
                 NEW j \in {k \in InState("open") : orders[k].atOnce /\ orders[k].grouped},
                 orders[i].fp[1] = orders[j].fp[1]
          PROVE  orders[i].fp = orders[j].fp
      <3>1. Live(i) /\ Live(j)
        BY DEF Live, InState
      <3>2. orders[i].fp[1] \in Messages
        BY <2>1, <3>1, Shape DEF Live, OrderRecord, Fingerprints
      <3>3. /\ orders[i].fp \in FingerprintOf(orders[i].fp[1])
            /\ orders[j].fp \in FingerprintOf(orders[i].fp[1])
        BY <2>1, <2>2, <3>1 DEF LatestIsLive, Live
      <3>4. QED BY <2>1, <3>2, <3>3, OneFingerprint
    <2>3. QED BY <2>2 DEF TextsExclusive
  <1>2. QED BY <1>1, Invariant, PTL

-----------------------------------------------------------------------------
(* The limits                                                              *)

\* The correlation groups that the configuration gives have no common symbol.
DisjointGroups == \A s, r \in Symbols : r \in Peers[s] => Peers[r] = Peers[s]

\* What the guards found holds until the orders are sent: the broker may end
\* positions meanwhile, and what waited and is filled is not counted.
Room ==
    at = "send" /\ ~blind =>
        LET s == Symbol[job.fp[2]]
        IN  /\ Cardinality(Opened) < MaxOpen
            /\ MaxSame > 0 => Cardinality(OpenedOf({s})) < MaxSame
            /\ MaxCorrelated > 0 /\ Peers[s] # {}
                  => Cardinality(OpenedOf(Peers[s])) < MaxCorrelated

LEMMA FiniteOrders ==
    ASSUME TypeOK
    PROVE  \A S \in SUBSET DOMAIN orders : IsFiniteSet(S) /\ Cardinality(S) \in Nat
  <1>1. IsFiniteSet(DOMAIN orders)
    BY Shape, FS_Interval
  <1>2. QED BY <1>1, FS_Subset, FS_CardinalityType

\* Fewer positions are below the same limit.
LEMMA StillBelow ==
    ASSUME NEW S, IsFiniteSet(S), NEW T \in SUBSET S, NEW n \in Nat, Cardinality(S) < n
    PROVE  Cardinality(T) < n
  <1>1. Cardinality(T) <= Cardinality(S) /\ IsFiniteSet(T)
    BY FS_Subset
  <1>2. Cardinality(T) \in Nat /\ Cardinality(S) \in Nat
    BY <1>1, FS_CardinalityType
  <1>3. QED BY <1>1, <1>2

\* A few more positions are above it by no more than those.
LEMMA FewMore ==
    ASSUME NEW S, IsFiniteSet(S), NEW N, IsFiniteSet(N), NEW T \in SUBSET (S \cup N),
           NEW n \in Nat, NEW e \in Nat, Cardinality(S) < n, Cardinality(N) <= e
    PROVE  Cardinality(T) < n + e
  <1>1. IsFiniteSet(S \cup N)
        /\ Cardinality(S \cup N) = Cardinality(S) + Cardinality(N) - Cardinality(S \cap N)
    BY FS_Union
  <1>2. IsFiniteSet(S \cap N) /\ IsFiniteSet(T) /\ Cardinality(T) <= Cardinality(S \cup N)
    <2>1. S \cap N \in SUBSET S
      OBVIOUS
    <2>2. QED BY <1>1, <2>1, FS_Subset
  <1>3. /\ Cardinality(S) \in Nat /\ Cardinality(N) \in Nat /\ Cardinality(T) \in Nat
        /\ Cardinality(S \cap N) \in Nat /\ Cardinality(S \cup N) \in Nat
    BY <1>1, <1>2, FS_CardinalityType
  <1>4. QED BY <1>1, <1>2, <1>3

\* A step that opens no position at once keeps the limits.
LEMMA NoneOpenedKeeps ==
    ASSUME TypeOK, LimitsHold, Room,
           DOMAIN orders' = DOMAIN orders,
           \A i \in DOMAIN orders : orders'[i].fp = orders[i].fp,
           Opened' \subseteq Opened,
           blind' = blind, at' = "send" => UNCHANGED <<at, job>>
    PROVE  LimitsHold' /\ Room'
  <1>1. \A X : (OpenedOf(X))' \in SUBSET OpenedOf(X)
    BY DEF OpenedOf, SymbolOf, Opened, InState
  <1>2. Opened \in SUBSET DOMAIN orders /\ \A X : OpenedOf(X) \in SUBSET DOMAIN orders
    BY DEF Opened, OpenedOf, InState
  <1>3. IsFiniteSet(Opened) /\ \A X : IsFiniteSet(OpenedOf(X))
    BY <1>2, FiniteOrders
  <1>4. \A n \in Nat : Cardinality(Opened) < n => Cardinality(Opened') < n
    BY <1>3, StillBelow
  <1>5. \A X : \A n \in Nat :
            Cardinality(OpenedOf(X)) < n => Cardinality((OpenedOf(X))') < n
    BY <1>1, <1>3, StillBelow
  <1>6. /\ MaxOpen \in Nat /\ MaxSame \in Nat /\ MaxCorrelated \in Nat
        /\ MaxOpen + Entries \in Nat /\ MaxSame + Entries \in Nat
        /\ MaxCorrelated + Entries \in Nat
    BY AdmissionAssumption
  <1>7. LimitsHold'
    BY <1>4, <1>5, <1>6 DEF LimitsHold, GroupLimitHolds
  <1>8. Room'
    BY <1>4, <1>5, <1>6 DEF Room
  <1>9. QED BY <1>7, <1>8

\* Nothing is opened at once where orders only end, fill or leave a group.
LEMMA ShrinkOpensNone ==
    ASSUME TypeOK, OrdersOfGroups, Shrunk
    PROVE  /\ DOMAIN orders' = DOMAIN orders
           /\ \A i \in DOMAIN orders : orders'[i].fp = orders[i].fp
           /\ Opened' \subseteq Opened
  <1>1. DOMAIN orders' = DOMAIN orders
    BY ShrunkSequence
  <1>2. QED BY <1>1 DEF Shrunk, OrdersOfGroups, Opened, InState

LEMMA ShrinkKeepsLimits ==
    ASSUME IInv, LimitsHold, Room, Shrunk, UNCHANGED blind,
           at' = "send" => UNCHANGED <<at, job>>
    PROVE  LimitsHold' /\ Room'
  <1>1. TypeOK /\ OrdersOfGroups
    BY DEF IInv
  <1>2. QED BY <1>1, ShrinkOpensNone, NoneOpenedKeeps

\* A signal that is admitted found every limit unmet, if MT5 answered.
LEMMA AdmitFindsRoom ==
    ASSUME IInv, LimitsHold, Admit
    PROVE  LimitsHold' /\ Room'
  <1>1. TypeOK
    BY DEF IInv
  <1>2. UNCHANGED orders /\ job'.fp = job.fp /\ (~blind' => ~blind)
    BY <1>1 DEF Admit, TypeOK
  <1>3. Opened' = Opened /\ \A X : (OpenedOf(X))' = OpenedOf(X)
    BY <1>2 DEF Opened, OpenedOf, InState, SymbolOf
  <1>4. LimitsHold'
    BY <1>2, <1>3 DEF LimitsHold, GroupLimitHolds
  <1>5. ASSUME ~blind' PROVE Room'
    <2> DEFINE open == InState("open")
               s == Symbol[job.fp[2]]
               of(X) == {i \in open : SymbolOf(i) \in X}
    <2>1. ~TooExposed(s, open) /\ ~TooMany(open)
      BY <1>5 DEF Admit
    <2>2. open \in SUBSET DOMAIN orders /\ \A X : of(X) \in SUBSET DOMAIN orders
      BY DEF InState
    <2>3. /\ IsFiniteSet(open) /\ Cardinality(open) \in Nat
          /\ \A X : IsFiniteSet(of(X)) /\ Cardinality(of(X)) \in Nat
      BY <1>1, <2>2, FiniteOrders
    <2>4. Opened \in SUBSET open /\ \A X : OpenedOf(X) \in SUBSET of(X)
      BY DEF Opened, OpenedOf
    <2>5. /\ ~(Cardinality(open) >= MaxOpen)
          /\ ~(MaxSame > 0 /\ Cardinality(of({s})) >= MaxSame)
          /\ ~(MaxCorrelated > 0 /\ Peers[s] # {} /\ Cardinality(of(Peers[s])) >= MaxCorrelated)
      BY <2>1 DEF TooExposed, TooMany
    <2> HIDE DEF open, s, of
    <2>6. MaxOpen \in Nat /\ MaxSame \in Nat /\ MaxCorrelated \in Nat
      BY AdmissionAssumption
    <2>7. Cardinality(Opened) < MaxOpen
      BY <2>3, <2>4, <2>5, <2>6, StillBelow
    <2>8. MaxSame > 0 => Cardinality(OpenedOf({s})) < MaxSame
      BY <2>3, <2>4, <2>5, <2>6, StillBelow
    <2>9. MaxCorrelated > 0 /\ Peers[s] # {} => Cardinality(OpenedOf(Peers[s])) < MaxCorrelated
      BY <2>3, <2>4, <2>5, <2>6, StillBelow
    <2>10. QED BY <1>2, <1>3, <2>7, <2>8, <2>9 DEF Room, s
  <1>6. QED BY <1>4, <1>5 DEF Room

\* The orders of one call are the only positions above a limit.
LEMMA SendStaysNear ==
    ASSUME IInv, DisjointGroups, LimitsHold, Room, Send
    PROVE  LimitsHold' /\ Room'
  <1>1. TypeOK
    BY DEF IInv
  <1> DEFINE New == DOMAIN orders' \ DOMAIN orders
             s0 == Symbol[job.fp[2]]
  <1>2. at = "send" /\ at' = "register" /\ UNCHANGED <<blind, job>>
    BY DEF Send
  <1>3. s0 \in Symbols
    BY <1>1, <1>2 DEF TypeOK, Fingerprints, Symbols
  <1>4. /\ \A i \in DOMAIN orders : i \in DOMAIN orders' /\ orders'[i] = orders[i]
        /\ \A i \in New : orders'[i].fp = job.fp
    BY <1>1, SendAppends
  <1>5. IsFiniteSet(New) /\ Cardinality(New) <= Entries
    <2> DEFINE n == Len(orders)  k == Len(orders')
    <2>1. n \in Nat /\ DOMAIN orders = 1..n
      BY <1>1, Shape
    <2>2. k \in Nat /\ DOMAIN orders' = 1..k /\ k >= n /\ k <= n + Entries
      BY <1>1, SendAppends, LenProperties
    <2> HIDE DEF n, k
    <2>3. New = (n + 1)..k
      BY <2>1, <2>2
    <2>4. Cardinality((n + 1)..k) = IF n + 1 > k THEN 0 ELSE k - (n + 1) + 1
      BY <2>1, <2>2, FS_Interval
    <2>5. IsFiniteSet((n + 1)..k)
      BY <2>1, <2>2, FS_Interval
    <2> HIDE DEF New
    <2>6. Entries \in Nat
      BY AdmissionAssumption
    <2>7. QED BY <2>1, <2>2, <2>3, <2>4, <2>5, <2>6
  <1>6. Opened' \in SUBSET (Opened \cup New)
    BY <1>4 DEF Opened, InState
  <1>7. ASSUME NEW X PROVE (OpenedOf(X))' \in SUBSET (OpenedOf(X) \cup New)
    BY <1>4 DEF OpenedOf, Opened, InState, SymbolOf
  <1>8. ASSUME NEW X, s0 \notin X PROVE (OpenedOf(X))' \in SUBSET OpenedOf(X)
    BY <1>4, <1>8 DEF OpenedOf, Opened, InState, SymbolOf
  <1>9. IsFiniteSet(Opened) /\ \A X : IsFiniteSet(OpenedOf(X))
    <2>1. Opened \in SUBSET DOMAIN orders /\ \A X : OpenedOf(X) \in SUBSET DOMAIN orders
      BY DEF Opened, OpenedOf, InState
    <2>2. QED BY <1>1, <2>1, FiniteOrders
  <1>10. /\ MaxOpen \in Nat /\ MaxSame \in Nat /\ MaxCorrelated \in Nat /\ Entries \in Nat
         /\ MaxSame + Entries \in Nat /\ MaxCorrelated + Entries \in Nat
    BY AdmissionAssumption
  <1>11. ~blind => /\ Cardinality(Opened) < MaxOpen
                   /\ MaxSame > 0 => Cardinality(OpenedOf({s0})) < MaxSame
                   /\ MaxCorrelated > 0 /\ Peers[s0] # {}
                         => Cardinality(OpenedOf(Peers[s0])) < MaxCorrelated
    BY <1>2 DEF Room
  <1> HIDE DEF New, s0
  <1>12. ~blind => Cardinality(Opened') < MaxOpen + Entries
    BY <1>5, <1>6, <1>9, <1>10, <1>11, FewMore
  <1>13. ASSUME NEW s \in Symbols, ~blind, MaxSame > 0
         PROVE  Cardinality((OpenedOf({s}))') < MaxSame + Entries
    <2>1. CASE s = s0
      <3>1. Cardinality(OpenedOf({s})) < MaxSame
        BY <1>11, <1>13, <2>1
      <3>2. QED BY <1>5, <1>7, <1>9, <1>10, <3>1, FewMore
    <2>2. CASE s # s0
      <3>1. Cardinality(OpenedOf({s})) < MaxSame + Entries
        BY <1>13 DEF LimitsHold
      <3>2. (OpenedOf({s}))' \in SUBSET OpenedOf({s})
        BY <1>8, <2>2
      <3>3. QED BY <1>9, <1>10, <3>1, <3>2, StillBelow
    <2>3. QED BY <2>1, <2>2
  <1>14. ASSUME NEW s \in Symbols, ~blind, MaxCorrelated > 0, Peers[s] # {}
         PROVE  Cardinality((OpenedOf(Peers[s]))') < MaxCorrelated + Entries
    <2>1. CASE s0 \in Peers[s]
      <3>1. Peers[s0] = Peers[s]
        BY <1>3, <2>1 DEF DisjointGroups
      <3>2. Cardinality(OpenedOf(Peers[s])) < MaxCorrelated
        BY <1>11, <1>14, <3>1
      <3>3. QED BY <1>5, <1>7, <1>9, <1>10, <3>2, FewMore
    <2>2. CASE s0 \notin Peers[s]
      <3>1. Cardinality(OpenedOf(Peers[s])) < MaxCorrelated + Entries
        BY <1>14 DEF LimitsHold, GroupLimitHolds
      <3>2. (OpenedOf(Peers[s]))' \in SUBSET OpenedOf(Peers[s])
        BY <1>8, <2>2
      <3>3. QED BY <1>9, <1>10, <3>1, <3>2, StillBelow
    <2>3. QED BY <2>1, <2>2
  <1>15. LimitsHold'
    BY <1>2, <1>12, <1>13, <1>14 DEF LimitsHold, GroupLimitHolds
  <1>16. Room'
    BY <1>2 DEF Room
  <1>17. QED BY <1>15, <1>16

LEMMA LimitStep ==
    ASSUME IInv, DisjointGroups, LimitsHold, Room, [Next]_vars
    PROVE  LimitsHold' /\ Room'
  <1> USE DEF table, control, bounds
  <1>0. TypeOK /\ OrdersOfGroups
    BY DEF IInv
  <1>1. ASSUME UNCHANGED <<orders, blind>>, at' = "send" => UNCHANGED <<at, job>>
        PROVE  LimitsHold' /\ Room'
    BY <1>0, <1>1, SameOrders, ShrinkKeepsLimits
  <1>2. ASSUME NEW m \in Messages, NEW fp \in FingerprintOf(m), CancelPending(fp),
               UNCHANGED blind, at' = "send" => UNCHANGED <<at, job>>
        PROVE  LimitsHold' /\ Room'
    <2>1. fp \in Fingerprints
      BY <1>0, Shape DEF FingerprintOf, RowRecord
    <2>2. QED BY <1>0, <1>2, <2>1, CancelPendingShrinks, ShrinkKeepsLimits
  <1>3. ASSUME NEW m \in Messages, NEW t \in Texts, NewMessage(m, t) \/ Edit(m, t)
        PROVE  LimitsHold' /\ Room'
    <2>1. UNCHANGED blind /\ at = "idle" /\ at' \in {"idle", "process", "cancel"}
      BY <1>3 DEF NewMessage, Edit, Deliver, Begin
    <2>2. CASE UNCHANGED orders
      BY <1>1, <2>1, <2>2
    <2>3. CASE \E fp \in FingerprintOf(m) : CancelPending(fp)
      BY <1>2, <2>1, <2>3
    <2>4. QED BY <1>3, <2>2, <2>3 DEF NewMessage, Edit
  <1>4. ASSUME NEW m \in Messages, Delete(m) PROVE LimitsHold' /\ Room'
    BY <1>2, <1>4 DEF Delete
  <1>5. CASE Cancel
    <2>1. job.fp[1] \in Messages
      BY <1>0, <1>5 DEF Cancel, TypeOK, Fingerprints
    <2>2. QED BY <1>2, <1>5, <2>1 DEF Cancel
  <1>6. CASE RefuseWithoutRow \/ RejectDrift \/ FailAfterSend \/ Reject
    BY <1>1, <1>6 DEF RefuseWithoutRow, RejectDrift, FailAfterSend, Reject, Finish
  <1>7. CASE Register
    <2>1. /\ DOMAIN orders' = DOMAIN orders
          /\ \A i \in DOMAIN orders :
                /\ orders'[i].fp = orders[i].fp /\ orders'[i].atOnce = orders[i].atOnce
                /\ orders'[i].state = orders[i].state
      BY <1>0, <1>7, RegisterGroups
    <2>2. Opened' \subseteq Opened
      BY <2>1 DEF Opened, InState
    <2>3. UNCHANGED blind /\ at' = "idle"
      BY <1>7 DEF Register, Finish
    <2>4. QED BY <1>0, <2>1, <2>2, <2>3, NoneOpenedKeeps
  <1>8. ASSUME NEW fp \in Fingerprints, CompleteGroup(fp) PROVE LimitsHold' /\ Room'
    BY <1>1, <1>8 DEF CompleteGroup
  <1>9. CASE Restart
    <2>1. at' = "idle" /\ UNCHANGED blind
      BY <1>9 DEF Restart, Finish
    <2>2. QED BY <1>0, <1>9, <2>1, RestartShrinks, ShrinkKeepsLimits
  <1>10. ASSUME NEW i \in DOMAIN orders, Fill(i) \/ End(i) PROVE LimitsHold' /\ Room'
    <2>1. UNCHANGED <<control, blind>>
      BY <1>10 DEF Fill, End
    <2>2. QED BY <1>0, <1>10, <2>1, BrokerShrinks, ShrinkKeepsLimits
  <1>11. CASE Tick \/ UNCHANGED vars
    BY <1>1, <1>11 DEF Tick, vars
  <1>12. QED
    BY <1>3, <1>4, <1>5, <1>6, <1>7, <1>8, <1>9, <1>10, <1>11, AdmitFindsRoom,
       SendStaysNear DEF Next

\* Positions that were opened when their signal came exceed each limit by less
\* than the orders of one signal, whatever time passes between the guards and
\* the orders, if MT5 answers every count and the correlation groups of the
\* configuration are disjoint (SignalValidator.validate, ExposureGuard.is_allowed).
THEOREM Limits == DisjointGroups => (Spec => []LimitsHold)
  <1> DEFINE Near == LimitsHold /\ Room
  <1>1. ASSUME Init PROVE Near
    <2>1. Opened = {} /\ \A X : OpenedOf(X) = {}
      BY <1>1 DEF Init, Opened, OpenedOf, InState
    <2>2. Cardinality({}) = 0
      BY FS_EmptySet
    <2>3. /\ 0 < MaxOpen + Entries /\ 0 < MaxSame + Entries
          /\ 0 < MaxCorrelated + Entries
      BY AdmissionAssumption
    <2>4. LimitsHold
      BY <2>1, <2>2, <2>3 DEF LimitsHold, GroupLimitHolds
    <2>5. Room
      BY <1>1 DEF Init, Room
    <2>6. QED BY <2>4, <2>5
  <1>2. DisjointGroups /\ IInv /\ Near /\ [Next]_vars => Near'
    BY LimitStep
  <1>3. Near => LimitsHold
    OBVIOUS
  <1> HIDE DEF Near
  <1>4. SUFFICES ASSUME DisjointGroups PROVE Spec => []LimitsHold
    OBVIOUS
  <1>5. IInv /\ Near /\ [Next]_vars => Near'
    BY <1>2, <1>4
  <1>6. QED BY <1>1, <1>3, <1>5, Invariant, PTL DEF Spec
=============================================================================
