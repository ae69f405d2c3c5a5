------------------------- MODULE GroupManagerProofs -------------------------
(***************************************************************************)
(* Proofs about GroupManager.  The argument: an order is recorded for one  *)
(* signal, and whatever lists or routes it does so for that signal         *)
(* (Owned); a signal has left no trace in a map or the table before its    *)
(* registration (Traceless); what the handlers hold between two steps is   *)
(* theirs (Working).  The steps of Next fall into few kinds (StepKinds),   *)
(* and each part of the invariant looks at the kinds that can disturb it.  *)
(* Last, every step is one of the abstract GroupRecord, or none.           *)
(***************************************************************************)
EXTENDS GroupManager, FiniteSetTheorems, WellFoundedInduction, TLAPS

OwnedBy(g) == {t \in Tickets : owner[t] = g}
Alive(t) == order[t] \in {"pending", "open"}

\* Only orders recorded for a signal are listed in its group, in memory or in
\* the table, or routed to it.
Owned ==
    /\ \A t \in Tickets : owner[t] # None => t <= sent
    /\ \A t \in Tickets : routed[t] \in {None, owner[t]}
    /\ \A g \in Groups : tickets[g] \subseteq OwnedBy(g)
    /\ \A g \in Groups : rowTickets[g] \subseteq OwnedBy(g)

Blank(g) ==
    /\ group[g] = "none" /\ row[g] = "none" /\ rowSl[g] = None
    /\ \A t \in Tickets : routed[t] # g

\* The handler of an arriving signal.
Arriving == at \in {"entry", "record", "register"}
Recording == at \in {"record", "joinRecord"}

\* A signal that has not arrived, or whose orders are being placed, is in no
\* map and in no table; the recorded orders of the latter are those the handler
\* holds.
Traceless ==
    /\ \A g \in Groups \ seen : Blank(g) /\ OwnedBy(g) = {} /\ deferred[g] = 0
    /\ Arriving => Blank(sig) /\ OwnedBy(sig) = fresh \ (IF at = "record" THEN {sent} ELSE {})

\* What the handlers hold.
Working ==
    /\ at \in {"entry", "record", "register", "joinRecord", "join", "groupBe",
               "cancelPlans", "cancelPending"} => sig \in seen
    /\ ~Arriving /\ at \notin {"joinRecord", "join"} => fresh = {}
    /\ Recording => sent \in Tickets /\ sent \in fresh /\ owner[sent] = None
    /\ at = "joinRecord" => fresh = {sent}
    /\ at = "join" => fresh \subseteq OwnedBy(sig)
    /\ at = "groupBe" => group[sig] = "active"
    /\ at = "poll" => \A g \in todo : group[g] = "active" /\ tickets[g] # {}

\* A group that is active in memory is not completed in the table; they agree
\* as long as no commit has failed.
TableFollows ==
    /\ \A g \in Groups : group[g] = "active" => row[g] # "completed"
    /\ at # "down" /\ dbFaults = 0 =>
          \A g \in Groups :
              /\ row[g] = "active" <=> group[g] = "active"
              /\ row[g] = "active" => rowTickets[g] = tickets[g] /\ rowSl[g] = groupSl[g]

\* Unless the process was killed, an order of an active group is in the group,
\* was let go, or is about to join.
NoneLost ==
    crashes = 0 =>
        /\ at # "down"
        /\ \A g \in Groups , t \in Tickets :
              owner[t] = g /\ group[g] = "active" /\ Alive(t)
                  => t \in tickets[g] \cup letGo \cup (IF at = "join" THEN fresh ELSE {})

IInv ==
    /\ TypeOK
    /\ Owned
    /\ Traceless
    /\ Working
    /\ RoutesAgree
    /\ TableFollows
    /\ RowStopNeverAhead
    /\ NoneLost

-----------------------------------------------------------------------------
(* Least and greatest elements                                             *)

\* Among finite sets there is one that has none of the others below it.
LEMMA MinimalSet ==
    ASSUME NEW F, F # {}, \A x \in F : IsFiniteSet(x)
    PROVE  \E x \in F : \A y \in F : y \subseteq x => y = x
  <1> DEFINE S == UNION F
  <1>1. F \subseteq FiniteSubsetsOf(S)
    BY DEF FiniteSubsetsOf
  <1>2. PICK x \in F : \A y \in F : <<y, x>> \notin StrictSubsetOrdering(S)
    BY <1>1, FS_StrictSubsetOrderingWellFounded, WFMin
  <1>3. QED BY <1>2 DEF StrictSubsetOrdering

\* A set of naturals has a least element.
LEMMA LeastProperties ==
    ASSUME NEW S \in SUBSET Nat, S # {}
    PROVE  LeastOf(S) \in S /\ \A y \in S : LeastOf(S) <= y
  <1>1. \E n \in S : \A m \in S : n <= m
    <2> DEFINE F == {0..n : n \in S}
    <2> PICK s \in S : TRUE
      OBVIOUS
    <2> 0..s \in F
      OBVIOUS
    <2>2. \A x \in F : IsFiniteSet(x)
      BY FS_Interval
    <2>3. PICK x \in F : \A y \in F : y \subseteq x => y = x
      <3> HIDE DEF F
      <3>1. F # {}
        OBVIOUS
      <3>2. QED BY ONLY <2>2, <3>1, MinimalSet
    <2>4. PICK n \in S : x = 0..n
      BY <2>3
    <2>5. ASSUME NEW m \in S PROVE n <= m
      <3> SUFFICES ASSUME m < n PROVE FALSE
        OBVIOUS
      <3>1. 0..m \in F /\ 0..m \subseteq 0..n
        OBVIOUS
      <3>2. 0..m = 0..n
        BY <2>3, <2>4, <3>1
      <3>3. n \in 0..n /\ n \notin 0..m
        OBVIOUS
      <3>4. QED BY <3>2, <3>3
    <2>6. QED BY <2>5
  <1>2. QED BY <1>1 DEF LeastOf

\* A few integers have a greatest one.
LEMMA MostProperties ==
    ASSUME NEW S, S # {}, \E a, b, c \in Int : S \subseteq {a, b, c}
    PROVE  MostOf(S) \in S /\ \A y \in S : MostOf(S) >= y
  <1> PICK a \in Int, b \in Int, c \in Int : S \subseteq {a, b, c}
    OBVIOUS
  <1>1. \E x \in S : \A y \in S : x >= y
    <2>1. CASE a \in S /\ (b \in S => a >= b) /\ (c \in S => a >= c)
      BY <2>1
    <2>2. CASE b \in S /\ (a \in S => b >= a) /\ (c \in S => b >= c)
      BY <2>2
    <2>3. CASE c \in S /\ (a \in S => c >= a) /\ (b \in S => c >= b)
      BY <2>3
    <2>4. \A y \in S : y \in Int /\ y \in {a, b, c}
      OBVIOUS
    <2>5. a \in S \/ b \in S \/ c \in S
      OBVIOUS
    <2>6. QED BY ONLY <2>1, <2>2, <2>3, <2>5, a \in Int, b \in Int, c \in Int
  <1>2. QED BY <1>1 DEF MostOf

\* Of some orders, one has the highest entry.
LEMMA HighestProperties ==
    ASSUME TypeOK, NEW ts \in SUBSET Tickets, ts # {}
    PROVE  HighestEntry(ts) \in ts
  <1>1. \E t \in ts : \A u \in ts : entry[t] >= entry[u]
    <2> DEFINE Above(t) == {u \in ts : entry[u] > entry[t]}
               F == {Above(t) : t \in ts}
    <2>1. F # {}
      OBVIOUS
    <2>2. IsFiniteSet(ts)
      <3>1. IsFiniteSet(Tickets)
        BY FS_Interval, GroupManagerAssumption DEF Tickets
      <3>2. QED BY <3>1, FS_Subset
    <2>3. \A x \in F : IsFiniteSet(x)
      BY <2>2, FS_Subset
    <2>4. PICK x \in F : \A y \in F : y \subseteq x => y = x
      <3> HIDE DEF F
      <3>1. QED BY ONLY <2>1, <2>3, MinimalSet
    <2>5. PICK t \in ts : x = Above(t)
      BY <2>4
    <2>6. ASSUME NEW u \in ts PROVE entry[t] >= entry[u]
      <3>1. entry[t] \in Nat /\ \A v \in ts : entry[v] \in Nat
        BY DEF TypeOK
      <3> SUFFICES ASSUME entry[u] > entry[t] PROVE FALSE
        BY <3>1
      <3>2. Above(u) \in F /\ Above(u) \subseteq Above(t)
        BY <3>1
      <3>3. u \in Above(t) /\ u \notin Above(u)
        BY <3>1
      <3>4. QED BY <2>4, <2>5, <3>2, <3>3
    <2>7. QED BY <2>6
  <1>2. QED BY <1>1 DEF HighestEntry

-----------------------------------------------------------------------------
(* Types                                                                   *)

\* The lowest entry of some orders is a price.
LEMMA LowestTyped ==
    ASSUME TypeOK, NEW ts \in SUBSET Tickets, ts # {}
    PROVE  LeastOf({entry[t] : t \in ts}) \in Nat
  <1>1. {entry[t] : t \in ts} \in SUBSET Nat /\ {entry[t] : t \in ts} # {}
    BY DEF TypeOK
  <1>2. QED BY <1>1, LeastProperties

\* The stop computed for a group that has orders is a price.
LEMMA GroupStopTyped ==
    ASSUME TypeOK, NEW g \in Groups, tickets[g] # {}
    PROVE  GroupStop(g) \in Int
  <1> USE GroupManagerAssumption
  <1>1. \E a \in Int : BaseStops(g) \subseteq {a}
    <2>4. SlMode[g] \in {"signal", "zone", "fixed"}
      OBVIOUS
    <2>1. CASE SlMode[g] = "signal"
      BY <2>1 DEF BaseStops
    <2>2. CASE SlMode[g] = "zone"
      BY <2>2 DEF BaseStops
    <2>3. CASE SlMode[g] = "fixed"
      <3>1. LeastOf({entry[t] : t \in tickets[g]}) \in Nat
        BY LowestTyped DEF TypeOK
      <3> DEFINE lowest == LeastOf({entry[t] : t \in tickets[g]})
      <3>2. BaseStops(g) = {lowest - FixedPips}
        BY <2>3 DEF BaseStops
      <3> HIDE DEF lowest
      <3>3. lowest \in Nat
        BY <3>1 DEF lowest
      <3>4. QED BY <3>2, <3>3
    <2>5. QED BY ONLY <2>1, <2>2, <2>3, <2>4
  <1>2. PICK a \in Int : BaseStops(g) \subseteq {a}
    BY <1>1
  <1>3. price - GroupTrailing[g] \in Int
    BY DEF TypeOK
  <1>4. \E c \in Int : {groupSl[g]} \ {None} \subseteq {c}
    BY DEF TypeOK, Stop
  <1>5. PICK c \in Int : {groupSl[g]} \ {None} \subseteq {c}
    BY <1>4
  <1> DEFINE S == BaseStops(g) \cup {price - GroupTrailing[g]} \cup ({groupSl[g]} \ {None})
  <1>6. S # {} /\ \E x, y, z \in Int : S \subseteq {x, y, z}
    BY <1>2, <1>3, <1>5
  <1>7. S \subseteq Int
    BY <1>2, <1>3, <1>5
  <1>8. MostOf(S) \in S
    BY ONLY <1>6, MostProperties
  <1>9. QED BY <1>7, <1>8 DEF GroupStop

LEMMA CommitTyped ==
    ASSUME TypeOK, NEW change, Commits(change)
    PROVE  dbFaults' \in Nat
  BY DEF Commits, TypeOK

\* A stop moved to a number is typed.
LEMMA MovedTyped ==
    ASSUME TypeOK, NEW ts, NEW sl \in Int, NEW ok, Moved(ts, sl, ok)
    PROVE  stop' \in [Tickets -> Stop]
  BY DEF Moved, TypeOK, Stop

LEMMA ModifyTyped ==
    ASSUME TypeOK, NEW g \in Groups, NEW ts, NEW sl \in Int, ModifyGroupSl(g, ts, sl)
    PROVE  /\ stop' \in [Tickets -> Stop] /\ groupSl' \in [Groups -> Stop]
           /\ rowSl' \in [Groups -> Stop] /\ UNCHANGED <<row, rowTickets>>
           /\ dbFaults' \in Nat
  <1>1. PICK ok \in SUBSET {t \in ts : IsOpen(t) /\ stop[t] # sl} :
            /\ Moved(ts, sl, ok)
            /\ IF ok # {} \/ \E t \in ts : stop[t] = sl
               THEN groupSl' = [groupSl EXCEPT ![g] = sl] /\ Commits(RowSl(g, sl))
               ELSE UNCHANGED <<groupSl, table, dbFaults>>
    BY DEF ModifyGroupSl
  <1>2. stop' \in [Tickets -> Stop]
    BY <1>1, MovedTyped
  <1>3. CASE groupSl' = [groupSl EXCEPT ![g] = sl] /\ Commits(RowSl(g, sl))
    BY <1>2, <1>3 DEF Commits, RowSl, table, TypeOK, Stop
  <1>4. CASE UNCHANGED <<groupSl, table, dbFaults>>
    BY <1>2, <1>4 DEF table, TypeOK
  <1>5. QED BY <1>1, <1>3, <1>4

LEMMA AcceptedTyped ==
    ASSUME TypeOK, NEW g \in Groups, NEW status \in {"open", "pending"}, NEW level \in Prices,
           Accepted(g, status, level)
    PROVE  /\ sent + 1 \in Tickets /\ sent' = sent + 1
           /\ order' = [order EXCEPT ![sent + 1] = status]
           /\ order' \in [Tickets -> {"none", "pending", "open", "closed"}]
           /\ entry' \in [Tickets -> Nat] /\ stop' \in [Tickets -> Stop]
           /\ lots' \in [Tickets -> 0..Lots] /\ price' = price
           /\ sent' \in 0..MaxTickets
           /\ fresh' = fresh \cup {sent + 1} /\ fresh' \subseteq Tickets
  <1> USE GroupManagerAssumption
  <1>1. sent + 1 \in Tickets
    BY DEF Accepted, TypeOK, Tickets
  <1>2. SignalSl[g] \in Stop /\ level \in Nat /\ Lots \in 0..Lots
    BY DEF Stop
  <1>3. QED BY <1>1, <1>2 DEF Accepted, TypeOK

\* Part of a position is closed, and no more than there is.
LEMMA ReducedTyped ==
    ASSUME TypeOK, NEW t \in Tickets, Reduced(t, PartialLots(lots[t]))
    PROVE  /\ lots' \in [Tickets -> 0..Lots]
           /\ order' \in [Tickets -> {"none", "pending", "open", "closed"}]
           /\ \A u \in Tickets : order'[u] \in {order[u], "closed"}
  <1> USE GroupManagerAssumption
  <1>1. lots[t] \in 0..Lots /\ PartialPercent \in 0..100
    BY DEF TypeOK
  <1> DEFINE whole == (lots[t] * PartialPercent) \div 100
  <1>2. whole \in Int
    BY <1>1
  <1>3. PartialLots(lots[t]) \in Nat
    <2>1. ASSUME NEW n \in {whole, whole + 1} PROVE MostOf({1, n}) \in Nat
      <3>1. n \in Int /\ {1, n} # {} /\ \E a, b, c \in Int : {1, n} \subseteq {a, b, c}
        BY <1>2
      <3>2. MostOf({1, n}) \in {1, n} /\ \A y \in {1, n} : MostOf({1, n}) >= y
        BY <3>1, MostProperties, Zenon
      <3>3. QED BY <3>1, <3>2
    <2>2. \E n \in {whole, whole + 1} : PartialLots(lots[t]) = MostOf({1, n})
      BY DEF PartialLots
    <2>3. QED BY <2>1, <2>2
  <1>4. QED BY <1>1, <1>3 DEF Reduced, TypeOK

\* Every step keeps the state well typed.
LEMMA TypedNext ==
    ASSUME TypeOK, Working, [Next]_vars
    PROVE  TypeOK'
  <1> USE GroupManagerAssumption DEF managed, rules, table, records, control, broker, bounds
  <1>1. ASSUME NEW g \in Groups, Arrive(g) PROVE TypeOK'
    BY <1>1 DEF Arrive, Go, TypeOK, Points
  <1>2. CASE PlaceEntry
    <2>1. sig \in Groups
      BY <1>2 DEF PlaceEntry, Working, TypeOK
    <2>2. \E status \in {"open", "pending"}, level \in Prices : Accepted(sig, status, level)
      BY <1>2 DEF PlaceEntry, TypeOK
    <2>3. PICK status \in {"open", "pending"}, level \in Prices : Accepted(sig, status, level)
      BY <2>2
    <2>4. /\ order' \in [Tickets -> {"none", "pending", "open", "closed"}]
          /\ entry' \in [Tickets -> Nat] /\ stop' \in [Tickets -> Stop]
          /\ lots' \in [Tickets -> 0..Lots] /\ price' = price
          /\ sent' \in 0..MaxTickets /\ fresh' \subseteq Tickets
      BY <2>1, <2>3, AcceptedTyped
    <2>5. QED BY <1>2, <2>4 DEF PlaceEntry, Go, TypeOK, Points
  <1>3. CASE RecordEntry
    BY <1>3 DEF RecordEntry, Record, Working, CanFail, Go, Finished, TypeOK, Points
  <1>4. CASE Defer
    BY <1>4 DEF Defer, Working, Go, TypeOK, Points
  <1>5. CASE RegisterGroup
    <2>1. sig \in Groups
      BY <1>5 DEF RegisterGroup, Working, TypeOK
    <2>2. /\ group' \in [Groups -> Status] /\ tickets' \in [Groups -> SUBSET Tickets]
          /\ groupSl' \in [Groups -> Stop] /\ routed' \in [Tickets -> Groups \cup {None}]
      <3>1. CASE fresh # {} /\ group[sig] = "none"
        <4>1. group' \in [Groups -> Status] /\ tickets' \in [Groups -> SUBSET Tickets]
          <5>1. /\ group' = [group EXCEPT ![sig] = "active"]
                /\ tickets' = [tickets EXCEPT ![sig] = fresh]
            BY <1>5, <3>1 DEF RegisterGroup
          <5>2. QED BY <5>1 DEF TypeOK, Status
        <4>2. groupSl' \in [Groups -> Stop]
          BY <1>5, <3>1 DEF RegisterGroup, TypeOK, Stop
        <4>3. routed' \in [Tickets -> Groups \cup {None}]
          BY <1>5, <2>1, <3>1 DEF RegisterGroup, TypeOK
        <4>4. QED BY <4>1, <4>2, <4>3
      <3>2. CASE ~(fresh # {} /\ group[sig] = "none")
        BY <1>5, <3>2 DEF RegisterGroup, TypeOK
      <3>3. QED BY <3>1, <3>2
    <2>3. /\ row' \in [Groups -> Status] /\ rowTickets' \in [Groups -> SUBSET Tickets]
          /\ rowSl' \in [Groups -> Stop] /\ dbFaults' \in Nat
      BY <1>5, <2>1 DEF RegisterGroup, Commits, CanFail, TypeOK, Status, Stop
    <2>4. QED BY <1>5, <2>2, <2>3 DEF RegisterGroup, Finished, TypeOK, Points
  <1>6. ASSUME NEW g \in Groups, Reenter(g) PROVE TypeOK'
    <2>1. /\ order' \in [Tickets -> {"none", "pending", "open", "closed"}]
          /\ entry' \in [Tickets -> Nat] /\ stop' \in [Tickets -> Stop]
          /\ lots' \in [Tickets -> 0..Lots] /\ price' = price
          /\ sent' \in 0..MaxTickets /\ fresh' \subseteq Tickets
      BY <1>6, AcceptedTyped DEF Reenter, TypeOK
    <2>2. deferred' \in [Groups -> 0..MaxDeferred]
      BY <1>6 DEF Reenter, TypeOK
    <2>3. QED BY <1>6, <2>1, <2>2 DEF Reenter, Go, TypeOK, Points
  <1>7. ASSUME NEW g \in Groups, LevelsDropped(g) PROVE TypeOK'
    BY <1>7 DEF LevelsDropped, TypeOK
  <1>8. CASE RecordReentry
    BY <1>8 DEF RecordReentry, Record, Working, CanFail, Go, Finished, TypeOK, Points
  <1>9. CASE Join
    <2>1. sig \in Groups
      BY <1>9 DEF Join, Working, TypeOK
    <2>2. /\ group' \in [Groups -> Status] /\ tickets' \in [Groups -> SUBSET Tickets]
          /\ groupSl' \in [Groups -> Stop] /\ routed' \in [Tickets -> Groups \cup {None}]
      <3>1. CASE group[sig] # "none"
        BY <1>9, <2>1, <3>1 DEF Join, TypeOK
      <3>2. CASE group[sig] = "none"
        BY <1>9, <3>2 DEF Join, TypeOK
      <3>3. QED BY <3>1, <3>2
    <2>3. /\ row' \in [Groups -> Status] /\ rowTickets' \in [Groups -> SUBSET Tickets]
          /\ rowSl' \in [Groups -> Stop] /\ dbFaults' \in Nat
      BY <1>9, <2>1, <2>2 DEF Join, RowTickets, Commits, CanFail, TypeOK
    <2>4. QED BY <1>9, <2>2, <2>3 DEF Join, Finished, TypeOK, Points
  <1>10. CASE PollStart
    BY <1>10 DEF PollStart, Go, TypeOK, Points
  <1>11. ASSUME NEW g \in Groups, ManageGroup(g) PROVE TypeOK'
    <2>1. GroupStop(g) \in Int
      BY <1>11, GroupStopTyped DEF ManageGroup, Working
    <2>2. /\ stop' \in [Tickets -> Stop] /\ groupSl' \in [Groups -> Stop]
          /\ rowSl' \in [Groups -> Stop] /\ UNCHANGED <<row, rowTickets>>
          /\ dbFaults' \in Nat
      <3>1. CASE ModifyGroupSl(g, tickets[g] \cap open, GroupStop(g))
        BY <2>1, <3>1, ModifyTyped
      <3>2. CASE UNCHANGED <<stop, groupSl, table, dbFaults>>
        BY <3>2 DEF TypeOK
      <3>3. QED BY <1>11, <3>1, <3>2 DEF ManageGroup
    <2>3. QED BY <1>11, <2>2 DEF ManageGroup, TypeOK
  <1>12. ASSUME NEW t \in Tickets, ManageAlone(t) PROVE TypeOK'
    <2>1. stop' \in [Tickets -> Stop]
      BY <1>12 DEF ManageAlone, TypeOK, Stop
    <2>2. lots' \in [Tickets -> 0..Lots] /\ order' \in [Tickets -> {"none", "pending", "open", "closed"}]
      BY <1>12, ReducedTyped DEF ManageAlone, TypeOK
    <2>3. beDone' \subseteq Tickets /\ parted' \subseteq Tickets
      BY <1>12 DEF ManageAlone, TypeOK
    <2>4. QED BY <1>12, <2>1, <2>2, <2>3 DEF ManageAlone, TypeOK
  <1>13. CASE PollEnd
    <2>1. PICK lost \in SUBSET {g \in Groups : Over(g)} :
              /\ dbFaults' = dbFaults + Cardinality(lost)
              /\ row' = [g \in Groups |->
                     IF g \in {h \in Groups : Over(h)} \ lost /\ row[g] # "none"
                     THEN "completed" ELSE row[g]]
      BY <1>13 DEF PollEnd
    <2>2. Cardinality(lost) \in Nat
      <3>1. lost \in SUBSET Groups
        OBVIOUS
      <3>2. QED BY <3>1, FS_Subset, FS_CardinalityType
    <2>3. dbFaults' \in Nat /\ row' \in [Groups -> Status]
      BY <2>1, <2>2 DEF TypeOK, Status
    <2>4. /\ group' \in [Groups -> Status] /\ routed' \in [Tickets -> Groups \cup {None}]
      BY <1>13 DEF PollEnd, TypeOK, Status
    <2>5. QED BY <1>13, <2>3, <2>4 DEF PollEnd, Finished, TypeOK, Points
  <1>14. CASE Cleanup
    BY <1>14 DEF Cleanup, TypeOK, Status, Stop
  <1>15. ASSUME NEW g \in Groups, CloseSelective(g) PROVE TypeOK'
    <2>1. order' \in [Tickets -> {"none", "pending", "open", "closed"}] /\ lots' \in [Tickets -> 0..Lots]
      <3> DEFINE t == Selected(g)
      <3>1. \/ order' = [order EXCEPT ![t] = "closed"] /\ lots' = [lots EXCEPT ![t] = 0]
            \/ order' = order /\ lots' = lots
        BY <1>15 DEF CloseSelective, Closes
      <3> HIDE DEF t
      <3>2. QED BY <3>1 DEF TypeOK
    <2>2. at' \in Points
      BY <1>15 DEF CloseSelective, Go, Points
    <2>3. QED BY <1>15, <2>1, <2>2 DEF CloseSelective, TypeOK
  <1>16. CASE GroupBe
    <2> DEFINE ts == OpenOf(sig)
               be == LeastOf({entry[t] : t \in ts})
    <2>1. sig \in Groups /\ ts \subseteq Tickets
      BY <1>16 DEF GroupBe, Working, TypeOK, OpenOf
    <2>2. ts # {} => be \in Int
      BY <2>1, LowestTyped
    <2>3. /\ stop' \in [Tickets -> Stop] /\ groupSl' \in [Groups -> Stop]
          /\ rowSl' \in [Groups -> Stop] /\ UNCHANGED <<row, rowTickets>>
          /\ dbFaults' \in Nat
      <3>1. CASE ts # {} /\ ModifyGroupSl(sig, ts, be)
        BY <2>1, <2>2, <3>1, ModifyTyped
      <3>2. CASE UNCHANGED <<stop, groupSl, table, dbFaults>>
        BY <3>2 DEF TypeOK
      <3>3. QED BY <1>16, <3>1, <3>2 DEF GroupBe
    <2>4. QED BY <1>16, <2>3 DEF GroupBe, Go, TypeOK, Points
  <1>17. ASSUME NEW g \in Groups, SecureProfit(g) PROVE TypeOK'
    <2> DEFINE worst == HighestEntry(OpenOf(g))
               floor == entry[worst] + ReplyLock
    <2>1. OpenOf(g) \in SUBSET Tickets /\ OpenOf(g) # {}
      BY <1>17 DEF SecureProfit, OpenOf, TypeOK
    <2>2. worst \in Tickets
      BY <2>1, HighestProperties
    <2>3. floor \in Int
      BY <2>2 DEF TypeOK
    <2>4. PICK ts, ok : Moved(ts, floor, ok)
      BY <1>17 DEF SecureProfit
    <2>5. stop' \in [Tickets -> Stop]
      BY <2>3, <2>4, MovedTyped
    <2>6. order' \in [Tickets -> {"none", "pending", "open", "closed"}] /\ lots' \in [Tickets -> 0..Lots]
      <3>1. \/ order' = [order EXCEPT ![worst] = "closed"] /\ lots' = [lots EXCEPT ![worst] = 0]
            \/ order' = order /\ lots' = lots
        BY <1>17 DEF SecureProfit, Closes
      <3> HIDE DEF worst
      <3>2. QED BY <3>1 DEF TypeOK
    <2>7. QED BY <1>17, <2>5, <2>6 DEF SecureProfit, Go, TypeOK, Points
  <1>18. ASSUME NEW g \in Groups, CancelReply(g) PROVE TypeOK'
    BY <1>18 DEF CancelReply, Go, TypeOK, Points
  <1>19. CASE CancelPlans
    <2>1. deferred' \in [Groups -> 0..MaxDeferred]
      <3>1. 0 \in 0..MaxDeferred
        OBVIOUS
      <3>2. QED BY ONLY <1>19, <3>1, TypeOK DEF CancelPlans, TypeOK
    <2>2. QED BY <1>19, <2>1 DEF CancelPlans, Go, TypeOK, Points
  <1>20. CASE CancelPending
    <2>1. sig \in Groups
      BY <1>20 DEF CancelPending, Working, TypeOK
    <2>2. CASE group[sig] # "active"
      BY <1>20, <2>2 DEF CancelPending, Finished, TypeOK, Points
    <2>3. CASE group[sig] = "active"
      <3>1. Kept(sig) \subseteq Tickets
        BY <2>1 DEF Kept, OpenOf, TypeOK
      <3>2. /\ group' \in [Groups -> Status] /\ tickets' \in [Groups -> SUBSET Tickets]
            /\ groupSl' = groupSl /\ routed' \in [Tickets -> Groups \cup {None}]
        <4>1. /\ tickets' = [tickets EXCEPT ![sig] = Kept(sig)]
              /\ group' = [group EXCEPT ![sig] = IF Kept(sig) = {} THEN "completed" ELSE @]
              /\ routed' = [t \in Tickets |->
                    IF t \in tickets[sig] \ OpenOf(sig) THEN None ELSE routed[t]]
              /\ groupSl' = groupSl
          BY <1>20, <2>3 DEF CancelPending
        <4>2. group' \in [Groups -> Status]
          BY <4>1 DEF TypeOK, Status
        <4>3. tickets' \in [Groups -> SUBSET Tickets]
          BY <3>1, <4>1 DEF TypeOK
        <4>4. routed' \in [Tickets -> Groups \cup {None}]
          BY <4>1 DEF TypeOK
        <4>5. QED BY <4>1, <4>2, <4>3, <4>4
      <3>3. /\ row' \in [Groups -> Status] /\ rowTickets' \in [Groups -> SUBSET Tickets]
            /\ rowSl' = rowSl /\ dbFaults' \in Nat
        <4>1. CASE UNCHANGED table /\ dbFaults' = dbFaults + 1
          BY <4>1 DEF TypeOK
        <4>2. CASE RowTickets(sig, Kept(sig)) /\ UNCHANGED dbFaults
          BY <3>1, <4>2 DEF RowTickets, TypeOK
        <4>3. CASE /\ row' = [row EXCEPT ![sig] = IF @ = "none" THEN @ ELSE "completed"]
                   /\ UNCHANGED <<rowTickets, rowSl, dbFaults>>
          BY <4>3 DEF TypeOK, Status
        <4>4. QED BY <1>20, <2>3, <4>1, <4>2, <4>3 DEF CancelPending, Commits
      <3>4. order' \in [Tickets -> {"none", "pending", "open", "closed"}] /\ letGo' \subseteq Tickets
        BY <1>20, <2>1, <2>3 DEF CancelPending, TypeOK
      <3>5. QED BY <1>20, <3>2, <3>3, <3>4 DEF CancelPending, Finished, TypeOK, Points
    <2>4. QED BY <2>2, <2>3
  <1>21. ASSUME NEW g \in Groups, EditOrDelete(g) PROVE TypeOK'
    BY <1>21 DEF EditOrDelete, Go, TypeOK, Points
  <1>22. ASSUME NEW g \in Groups, ReplyToAll(g) PROVE TypeOK'
    BY <1>22 DEF ReplyToAll, Go, TypeOK, Points
  <1>23. CASE RulesLookupRaises
    BY <1>23 DEF RulesLookupRaises, Finished, TypeOK, Points
  <1>24. CASE Crash
    BY <1>24 DEF Crash, TypeOK, Status, Stop, Points
  <1>25. CASE Restart
    <2> DEFINE stale == {g \in Groups : row[g] = "active" /\ ~Restored(g)}
    <2>1. PICK lost \in SUBSET stale :
              /\ dbFaults' = dbFaults + Cardinality(lost)
              /\ row' = [g \in Groups |-> IF g \in stale \ lost THEN "completed" ELSE row[g]]
      BY <1>25 DEF Restart
    <2>2. Cardinality(lost) \in Nat
      <3>1. lost \in SUBSET Groups
        OBVIOUS
      <3>2. QED BY <3>1, FS_Subset, FS_CardinalityType
    <2>3. dbFaults' \in Nat /\ row' \in [Groups -> Status]
      BY <2>1, <2>2 DEF TypeOK, Status
    <2>4. /\ group' \in [Groups -> Status] /\ tickets' \in [Groups -> SUBSET Tickets]
          /\ groupSl' \in [Groups -> Stop]
      BY <1>25 DEF Restart, TypeOK, Status, Stop
    <2>5. routed' \in [Tickets -> Groups \cup {None}]
      BY <1>25 DEF Restart
    <2>6. QED BY <1>25, <2>3, <2>4, <2>5 DEF Restart, Go, TypeOK, Points
  <1>26. ASSUME NEW t \in Tickets, Fill(t) PROVE TypeOK'
    BY <1>26 DEF Fill, TypeOK
  <1>27. ASSUME NEW t \in Tickets, Ends(t) PROVE TypeOK'
    BY <1>27 DEF Ends, TypeOK
  <1>28. CASE PriceMove
    BY <1>28 DEF PriceMove, TypeOK
  <1>29. CASE UNCHANGED vars
    BY <1>29 DEF vars, TypeOK
  <1>30. QED
    BY <1>1, <1>2, <1>3, <1>4, <1>5, <1>6, <1>7, <1>8, <1>9, <1>10, <1>11, <1>12, <1>13,
       <1>14, <1>15, <1>16, <1>17, <1>18, <1>19, <1>20, <1>21, <1>22, <1>23, <1>24, <1>25,
       <1>26, <1>27, <1>28, <1>29
       DEF Next, Handler, Poll, Message

-----------------------------------------------------------------------------
(* Steps that touch neither the groups nor their table                     *)

\* What such a step may do: accept an order that is not recorded, end orders.
Quiet ==
    /\ UNCHANGED <<managed, table, owner, letGo, crashes, dbFaults>>
    /\ seen \subseteq seen'
    /\ \A g \in Groups \ seen : deferred'[g] = 0
    /\ sent' \in {sent, sent + 1}
    /\ \A t \in Tickets : Alive(t)' => Alive(t) \/ owner[t] = None
    /\ at' = "down" <=> at = "down"
    /\ at' = "join" <=> at = "join"
    /\ at = "join" => fresh' = fresh

\* What a step that moves the stop of group g to sl does to maps and table.
StopMoved(g, sl) ==
    /\ UNCHANGED <<group, tickets, routed, row, rowTickets, records, order, sent,
                   letGo, crashes>>
    /\ at \in {"poll", "groupBe"} /\ at' \in {"poll", "cancelPlans"}
    /\ group[g] = "active" /\ Better(sl, groupSl[g])
    /\ groupSl' = [groupSl EXCEPT ![g] = sl]
    /\ Commits(RowSl(g, sl))

\* The remaining steps.
Regroups ==
    \/ RecordEntry \/ RecordReentry \/ RegisterGroup \/ Join
    \/ PollEnd \/ Cleanup \/ CancelPending \/ Crash \/ Restart

\* An order that the broker accepts is not recorded yet.
LEMMA AcceptedQuiet ==
    ASSUME TypeOK, Owned, NEW g \in Groups, NEW status \in {"open", "pending"},
           NEW level \in Prices, Accepted(g, status, level)
    PROVE  /\ sent + 1 \in Tickets /\ sent' = sent + 1 /\ fresh' = fresh \cup {sent + 1}
           /\ owner[sent + 1] = None
           /\ \A t \in Tickets : Alive(t)' => Alive(t) \/ owner[t] = None
  <1>1. /\ sent + 1 \in Tickets /\ sent' = sent + 1 /\ fresh' = fresh \cup {sent + 1}
        /\ order' = [order EXCEPT ![sent + 1] = status]
    BY AcceptedTyped
  <1>2. owner[sent + 1] = None
    BY <1>1 DEF Owned, TypeOK
  <1>3. QED BY <1>1, <1>2 DEF Alive, TypeOK

LEMMA ModifyMoves ==
    ASSUME NEW g \in Groups, NEW ts, NEW sl \in Int, ModifyGroupSl(g, ts, sl)
    PROVE  \/ UNCHANGED <<groupSl, table, dbFaults>>
           \/ groupSl' = [groupSl EXCEPT ![g] = sl] /\ Commits(RowSl(g, sl))
  BY DEF ModifyGroupSl

\* Every step is of one of these kinds.
LEMMA StepKinds ==
    ASSUME TypeOK, Owned, Traceless, Working, [Next]_vars
    PROVE  Quiet \/ Regroups \/ \E g \in Groups, sl \in Int : StopMoved(g, sl)
  <1> USE DEF managed, rules, table, records, control, broker, bounds
  <1> \A g \in Groups \ seen : deferred[g] = 0
    BY DEF Traceless
  <1>1. ASSUME NEW g \in Groups, Arrive(g) PROVE Quiet
    BY <1>1 DEF Arrive, Go, Quiet, Alive
  <1>2. CASE PlaceEntry
    <2>1. \E status \in {"open", "pending"}, level \in Prices : Accepted(sig, status, level)
      BY <1>2 DEF PlaceEntry, TypeOK
    <2>2. PICK status \in {"open", "pending"}, level \in Prices : Accepted(sig, status, level)
      BY <2>1
    <2>3. sig \in Groups
      BY <1>2 DEF PlaceEntry, Working, TypeOK
    <2>4. /\ sent' = sent + 1
          /\ \A t \in Tickets : Alive(t)' => Alive(t) \/ owner[t] = None
      BY <2>2, <2>3, AcceptedQuiet
    <2>5. QED BY <1>2, <2>4 DEF PlaceEntry, Go, Quiet
  <1>3. CASE Defer
    <2>1. sig \in seen
      BY <1>3 DEF Defer, Working
    <2>2. \A g \in Groups \ seen : deferred'[g] = 0
      BY <1>3, <2>1 DEF Defer, TypeOK
    <2>3. QED BY <1>3, <2>2 DEF Defer, Go, Quiet, Alive
  <1>4. ASSUME NEW g \in Groups, Reenter(g) PROVE Quiet
    <2>1. /\ sent' = sent + 1
          /\ \A t \in Tickets : Alive(t)' => Alive(t) \/ owner[t] = None
      BY <1>4, AcceptedQuiet DEF Reenter, TypeOK
    <2>2. g \in seen
      BY <1>4 DEF Reenter, Traceless
    <2>3. \A h \in Groups \ seen : deferred'[h] = 0
      BY <1>4, <2>2 DEF Reenter, TypeOK
    <2>4. QED BY <1>4, <2>1, <2>3 DEF Reenter, Go, Quiet
  <1>5. ASSUME NEW g \in Groups, LevelsDropped(g) PROVE Quiet
    <2>1. PICK n \in 0..MaxDeferred : n < deferred[g] /\ deferred' = [deferred EXCEPT ![g] = n]
      BY <1>5 DEF LevelsDropped
    <2>2. g \in seen
      BY <2>1 DEF TypeOK
    <2>3. \A h \in Groups \ seen : deferred'[h] = 0
      BY <2>1, <2>2 DEF TypeOK
    <2>4. QED BY <1>5, <2>3 DEF LevelsDropped, Quiet, Alive
  <1>6. CASE PollStart
    BY <1>6 DEF PollStart, Go, Quiet, Alive
  <1>7. ASSUME NEW g \in Groups, ManageGroup(g)
        PROVE  Quiet \/ \E h \in Groups, sl \in Int : StopMoved(h, sl)
    <2>1. group[g] = "active" /\ GroupStop(g) \in Int
      BY <1>7, GroupStopTyped DEF ManageGroup, Working
    <2>2. \/ UNCHANGED <<groupSl, table, dbFaults>>
          \/ /\ groupSl' = [groupSl EXCEPT ![g] = GroupStop(g)]
             /\ Commits(RowSl(g, GroupStop(g))) /\ Better(GroupStop(g), groupSl[g])
      BY <1>7, <2>1, ModifyMoves DEF ManageGroup, WorthMoving
    <2>3. CASE UNCHANGED <<groupSl, table, dbFaults>>
      BY <1>7, <2>3 DEF ManageGroup, Quiet, Alive
    <2>4. CASE /\ groupSl' = [groupSl EXCEPT ![g] = GroupStop(g)]
               /\ Commits(RowSl(g, GroupStop(g))) /\ Better(GroupStop(g), groupSl[g])
      <3>1. UNCHANGED <<row, rowTickets>>
        BY <2>4 DEF Commits, RowSl
      <3>2. StopMoved(g, GroupStop(g))
        BY <1>7, <2>1, <2>4, <3>1 DEF ManageGroup, StopMoved
      <3>3. QED BY <2>1, <3>2
    <2>5. QED BY <2>2, <2>3, <2>4
  <1>8. ASSUME NEW t \in Tickets, ManageAlone(t) PROVE Quiet
    <2>1. \A u \in Tickets : order'[u] \in {order[u], "closed"}
      BY <1>8, ReducedTyped DEF ManageAlone
    <2>2. QED BY <1>8, <2>1 DEF ManageAlone, Quiet, Alive
  <1>9. ASSUME NEW g \in Groups, CloseSelective(g) PROVE Quiet
    <2>1. \A t \in Tickets : order'[t] \in {order[t], "closed"}
      <3> DEFINE u == Selected(g)
      <3>1. order' = [order EXCEPT ![u] = "closed"] \/ order' = order
        BY <1>9 DEF CloseSelective, Closes
      <3> HIDE DEF u
      <3>2. QED BY <3>1 DEF TypeOK
    <2>2. at = "idle" /\ at' \in {"groupBe", "cancelPlans"}
      BY <1>9 DEF CloseSelective, Answers, Go
    <2>3. QED BY <1>9, <2>1, <2>2 DEF CloseSelective, Quiet, Alive
  <1>10. CASE GroupBe
    <2> DEFINE be == LeastOf({entry[t] : t \in OpenOf(sig)})
    <2>1. sig \in Groups /\ group[sig] = "active" /\ OpenOf(sig) \subseteq Tickets
      BY <1>10 DEF GroupBe, Working, TypeOK, OpenOf
    <2>2. OpenOf(sig) # {} => be \in Int
      BY <2>1, LowestTyped
    <2>3. \/ UNCHANGED <<groupSl, table, dbFaults>>
          \/ /\ groupSl' = [groupSl EXCEPT ![sig] = be]
             /\ Commits(RowSl(sig, be)) /\ Better(be, groupSl[sig]) /\ be \in Int
      BY <1>10, <2>1, <2>2, ModifyMoves DEF GroupBe, WorthMoving
    <2>4. CASE UNCHANGED <<groupSl, table, dbFaults>>
      BY <1>10, <2>4 DEF GroupBe, Go, Quiet, Alive
    <2>5. CASE /\ groupSl' = [groupSl EXCEPT ![sig] = be]
               /\ Commits(RowSl(sig, be)) /\ Better(be, groupSl[sig]) /\ be \in Int
      <3>1. UNCHANGED <<row, rowTickets>>
        BY <2>5 DEF Commits, RowSl
      <3>2. StopMoved(sig, be)
        BY <1>10, <2>1, <2>5, <3>1 DEF GroupBe, Go, StopMoved
      <3>3. QED BY <2>1, <2>5, <3>2
    <2>6. QED BY <2>3, <2>4, <2>5
  <1>11. ASSUME NEW g \in Groups, SecureProfit(g) PROVE Quiet
    <2>1. \A t \in Tickets : order'[t] \in {order[t], "closed"}
      <3> DEFINE u == HighestEntry(OpenOf(g))
      <3>1. order' = [order EXCEPT ![u] = "closed"] \/ order' = order
        BY <1>11 DEF SecureProfit, Closes
      <3> HIDE DEF u
      <3>2. QED BY <3>1 DEF TypeOK
    <2>2. QED BY <1>11, <2>1 DEF SecureProfit, Answers, Go, Quiet, Alive
  <1>12. ASSUME NEW g \in Groups, CancelReply(g) PROVE Quiet
    BY <1>12 DEF CancelReply, Answers, Go, Quiet, Alive
  <1>13. CASE CancelPlans
    <2>1. \A g \in Groups \ seen : deferred'[g] = 0
      BY <1>13 DEF CancelPlans, TypeOK
    <2>2. QED BY <1>13, <2>1 DEF CancelPlans, Go, Quiet, Alive
  <1>14. ASSUME NEW g \in Groups, EditOrDelete(g) PROVE Quiet
    BY <1>14 DEF EditOrDelete, Go, Quiet, Alive
  <1>15. ASSUME NEW g \in Groups, ReplyToAll(g) PROVE Quiet
    BY <1>15 DEF ReplyToAll, Answers, Go, Quiet, Alive
  <1>16. CASE RulesLookupRaises
    BY <1>16 DEF RulesLookupRaises, Finished, Quiet, Alive
  <1>17. ASSUME NEW t \in Tickets, Fill(t) PROVE Quiet
    BY <1>17 DEF Fill, Quiet, Alive, TypeOK
  <1>18. ASSUME NEW t \in Tickets, Ends(t) PROVE Quiet
    BY <1>18 DEF Ends, Quiet, Alive, TypeOK
  <1>19. CASE PriceMove
    BY <1>19 DEF PriceMove, Quiet, Alive
  <1>20. CASE UNCHANGED vars
    BY <1>20 DEF vars, Quiet, Alive
  <1>21. QED
    BY <1>1, <1>2, <1>3, <1>4, <1>5, <1>6, <1>7, <1>8, <1>9, <1>10, <1>11, <1>12, <1>13,
       <1>14, <1>15, <1>16, <1>17, <1>18, <1>19, <1>20
       DEF Next, Handler, Poll, Message, Regroups

-----------------------------------------------------------------------------
(* The parts of the invariant                                              *)

LEMMA OwnedNext ==
    ASSUME IInv, [Next]_vars
    PROVE  Owned'
  <1> USE DEF managed, table
  <1> TypeOK /\ Owned /\ Traceless /\ Working
    BY DEF IInv
  <1>1. CASE Quiet
    <2>1. UNCHANGED <<tickets, routed, rowTickets, owner>>
      BY <1>1 DEF Quiet
    <2>2. sent \in Int /\ sent' \in {sent, sent + 1} /\ \A t \in Tickets : t \in Int
      BY <1>1 DEF Quiet, TypeOK, Tickets
    <2>3. QED BY <2>1, <2>2 DEF Owned, OwnedBy
  <1>2. ASSUME NEW g \in Groups, NEW sl \in Int, StopMoved(g, sl) PROVE Owned'
    BY <1>2 DEF StopMoved, records, Owned, OwnedBy
  <1>3. ASSUME NEW point, NEW next, Record(point, next), Recording PROVE Owned'
    <2>1. sent \in Tickets /\ sent \in fresh /\ owner[sent] = None /\ routed[sent] = None
      BY <1>3 DEF Working, Owned
    <2>2. UNCHANGED <<managed, table, sent>>
      BY <1>3 DEF Record, broker
    <2>3. CASE owner' = [owner EXCEPT ![sent] = sig]
      <3>1. \A t \in Tickets : owner'[t] = IF t = sent THEN sig ELSE owner[t]
        BY <2>3 DEF TypeOK
      <3>2. \A g \in Groups : OwnedBy(g) \subseteq OwnedBy(g)'
        BY <2>1, <3>1, GroupManagerAssumption DEF OwnedBy
      <3>3. sent <= sent
        BY <2>1 DEF Tickets
      <3>4. \A t \in Tickets : owner'[t] # None => t <= sent
        BY <3>1, <3>3 DEF Owned
      <3>5. \A t \in Tickets : routed[t] \in {None, owner'[t]}
        BY <2>1, <3>1 DEF Owned
      <3>6. QED BY <2>2, <3>2, <3>4, <3>5 DEF Owned
    <2>4. CASE UNCHANGED owner
      BY <2>2, <2>4 DEF Owned, OwnedBy
    <2>5. QED BY <1>3, <2>3, <2>4 DEF Record
  <1>4. CASE RegisterGroup
    <2>1. sig \in Groups /\ fresh \subseteq OwnedBy(sig)
      BY <1>4 DEF RegisterGroup, Working, Traceless, Arriving, TypeOK
    <2>2. CASE UNCHANGED <<managed, table>>
      BY <1>4, <2>2 DEF RegisterGroup, records, broker, Owned, OwnedBy
    <2>3. CASE /\ tickets' = [tickets EXCEPT ![sig] = fresh]
               /\ routed' = [t \in Tickets |-> IF t \in fresh THEN sig ELSE routed[t]]
               /\ rowTickets' \in {rowTickets, [rowTickets EXCEPT ![sig] = fresh]}
      <3>1. UNCHANGED <<owner, sent>>
        BY <1>4 DEF RegisterGroup, records, broker
      <3>2. QED BY <2>1, <2>3, <3>1 DEF Owned, OwnedBy, TypeOK
    <2>4. QED BY <1>4, <2>2, <2>3 DEF RegisterGroup, Commits
  <1>5. CASE Join
    <2>1. sig \in Groups /\ fresh \subseteq OwnedBy(sig)
      BY <1>5 DEF Join, Working, TypeOK
    <2>2. UNCHANGED <<owner, sent>>
      BY <1>5 DEF Join, records, broker
    <2>3. CASE UNCHANGED <<managed, table>>
      BY <2>2, <2>3 DEF Owned, OwnedBy
    <2>4. CASE /\ tickets' = [tickets EXCEPT ![sig] = @ \cup fresh]
               /\ routed' = [t \in Tickets |-> IF t \in fresh THEN sig ELSE routed[t]]
               /\ rowTickets' \in {rowTickets, [rowTickets EXCEPT ![sig] = tickets'[sig]]}
      BY <2>1, <2>2, <2>4 DEF Owned, OwnedBy, TypeOK
    <2>5. QED BY <1>5, <2>3, <2>4 DEF Join, Commits, RowTickets
  <1>6. CASE PollEnd
    BY <1>6 DEF PollEnd, records, broker, Owned, OwnedBy
  <1>7. CASE Cleanup
    BY <1>7 DEF Cleanup, records, broker, Owned, OwnedBy
  <1>8. CASE CancelPending
    <2>1. sig \in Groups /\ Kept(sig) \subseteq tickets[sig]
      BY <1>8 DEF CancelPending, Working, Kept, OpenOf, TypeOK
    <2>2. UNCHANGED <<owner, sent>>
      BY <1>8 DEF CancelPending, records
    <2>3. CASE UNCHANGED <<managed, table>>
      BY <2>2, <2>3 DEF Owned, OwnedBy
    <2>4. CASE /\ tickets' = [tickets EXCEPT ![sig] = Kept(sig)]
               /\ routed' = [t \in Tickets |->
                     IF t \in tickets[sig] \ OpenOf(sig) THEN None ELSE routed[t]]
               /\ rowTickets' \in {rowTickets, [rowTickets EXCEPT ![sig] = Kept(sig)]}
      BY <2>1, <2>2, <2>4 DEF Owned, OwnedBy, TypeOK
    <2>5. QED BY <1>8, <2>3, <2>4 DEF CancelPending, Commits, RowTickets
  <1>9. CASE Crash
    BY <1>9 DEF Crash, records, broker, Owned, OwnedBy
  <1>10. CASE Restart
    <2>1. /\ UNCHANGED <<owner, sent, rowTickets>>
          /\ tickets' = [g \in Groups |-> IF Restored(g) THEN rowTickets[g] ELSE {}]
      BY <1>10 DEF Restart, records, broker
    <2>2. ASSUME NEW t \in Tickets PROVE routed'[t] \in {None, owner[t]}
      <3>1. CASE \E g \in Groups : Restored(g) /\ t \in rowTickets[g]
        <4> DEFINE h == CHOOSE g \in Groups : Restored(g) /\ t \in rowTickets[g]
        <4>1. h \in Groups /\ t \in rowTickets[h]
          BY <3>1
        <4>2. routed'[t] = h
          BY <1>10, <3>1 DEF Restart
        <4>3. QED BY <4>1, <4>2 DEF Owned, OwnedBy
      <3>2. CASE ~\E g \in Groups : Restored(g) /\ t \in rowTickets[g]
        BY <1>10, <3>2 DEF Restart
      <3>3. QED BY <3>1, <3>2
    <2>3. QED BY <2>1, <2>2 DEF Owned, OwnedBy
  <1>11. QED
    <2>1. RecordEntry \/ RecordReentry => Owned'
      BY <1>3 DEF RecordEntry, RecordReentry, Record, Recording
    <2>2. QED
      BY <1>1, <1>2, <1>4, <1>5, <1>6, <1>7, <1>8, <1>9, <1>10, <2>1, StepKinds DEF Regroups

LEMMA RoutesNext ==
    ASSUME IInv, [Next]_vars
    PROVE  RoutesAgree'
  <1> USE DEF managed
  <1> TypeOK /\ Owned /\ Traceless /\ Working /\ RoutesAgree
    BY DEF IInv
  <1>1. CASE UNCHANGED <<group, tickets, routed>>
    BY <1>1 DEF RoutesAgree
  <1>2. CASE Quiet \/ RecordEntry \/ RecordReentry \/ \E g \in Groups, sl \in Int : StopMoved(g, sl)
    BY <1>1, <1>2 DEF Quiet, RecordEntry, RecordReentry, Record, StopMoved
  <1>3. CASE RegisterGroup
    <2>1. sig \in Groups /\ Blank(sig) /\ fresh = OwnedBy(sig)
      BY <1>3 DEF RegisterGroup, Working, Traceless, Arriving, TypeOK
    <2>2. CASE /\ group' = [group EXCEPT ![sig] = "active"]
               /\ tickets' = [tickets EXCEPT ![sig] = fresh]
               /\ routed' = [t \in Tickets |-> IF t \in fresh THEN sig ELSE routed[t]]
      <3>1. ASSUME NEW g \in Groups, group'[g] = "active"
            PROVE  tickets'[g] = {t \in Tickets : routed'[t] = g}
        <4>1. CASE g = sig
          BY <2>1, <2>2, <4>1 DEF Blank, OwnedBy, TypeOK
        <4>2. CASE g # sig
          <5>1. tickets[g] = {t \in Tickets : routed[t] = g}
            BY <2>2, <3>1, <4>2 DEF RoutesAgree
          <5>2. \A t \in fresh : routed[t] # g
            BY <2>1, <4>2, GroupManagerAssumption DEF Owned, OwnedBy
          <5>3. QED BY <2>2, <4>2, <5>1, <5>2
        <4>3. QED BY <4>1, <4>2
      <3>2. QED BY <3>1 DEF RoutesAgree
    <2>3. QED BY <1>1, <1>3, <2>2 DEF RegisterGroup
  <1>4. CASE Join
    <2>1. sig \in Groups /\ fresh \subseteq OwnedBy(sig)
      BY <1>4 DEF Join, Working, TypeOK
    <2>2. CASE /\ group' = group
               /\ tickets' = [tickets EXCEPT ![sig] = @ \cup fresh]
               /\ routed' = [t \in Tickets |-> IF t \in fresh THEN sig ELSE routed[t]]
      <3>1. ASSUME NEW g \in Groups, group'[g] = "active"
            PROVE  tickets'[g] = {t \in Tickets : routed'[t] = g}
        <4>1. tickets[g] = {t \in Tickets : routed[t] = g}
          BY <2>2, <3>1 DEF RoutesAgree
        <4>2. CASE g = sig
          BY <2>1, <2>2, <4>1, <4>2 DEF OwnedBy, TypeOK
        <4>3. CASE g # sig
          <5>1. \A t \in fresh : routed[t] # g
            BY <2>1, <4>3, GroupManagerAssumption DEF Owned, OwnedBy
          <5>2. QED BY <2>2, <4>1, <4>3, <5>1
        <4>4. QED BY <4>2, <4>3
      <3>2. QED BY <3>1 DEF RoutesAgree
    <2>3. QED BY <1>1, <1>4, <2>2 DEF Join
  <1>5. CASE PollEnd
    <2>1. /\ UNCHANGED tickets
          /\ group' = [g \in Groups |-> IF Over(g) THEN "completed" ELSE group[g]]
          /\ routed' = [t \in Tickets |->
                IF \E g \in Groups : Over(g) /\ t \in tickets[g] THEN None ELSE routed[t]]
      BY <1>5 DEF PollEnd
    <2>2. ASSUME NEW g \in Groups, group'[g] = "active"
          PROVE  tickets'[g] = {t \in Tickets : routed'[t] = g}
      <3>1. ~Over(g) /\ tickets[g] = {t \in Tickets : routed[t] = g}
        BY <2>1, <2>2 DEF RoutesAgree
      <3>2. ASSUME NEW h \in Groups, Over(h) PROVE tickets[h] \cap tickets[g] = {}
        BY <3>1, <3>2 DEF Owned, OwnedBy
      <3>3. ASSUME NEW t \in Tickets PROVE routed'[t] = g <=> routed[t] = g
        BY <2>1, <3>1, <3>2, GroupManagerAssumption
      <3>4. QED BY <2>1, <3>1, <3>3
    <2>3. QED BY <2>2 DEF RoutesAgree
  <1>6. CASE Cleanup
    BY <1>6 DEF Cleanup, RoutesAgree
  <1>7. CASE CancelPending
    <2>1. sig \in Groups /\ Kept(sig) = OpenOf(sig) /\ OpenOf(sig) \subseteq tickets[sig]
      BY <1>7 DEF CancelPending, Working, Kept, OpenOf, TypeOK
    <2>2. CASE /\ group' = [group EXCEPT ![sig] = IF Kept(sig) = {} THEN "completed" ELSE @]
               /\ tickets' = [tickets EXCEPT ![sig] = Kept(sig)]
               /\ routed' = [t \in Tickets |->
                     IF t \in tickets[sig] \ OpenOf(sig) THEN None ELSE routed[t]]
      <3>1. ASSUME NEW g \in Groups, group'[g] = "active"
            PROVE  tickets'[g] = {t \in Tickets : routed'[t] = g}
        <4>1. group[g] = "active"
          BY <2>2, <3>1 DEF TypeOK
        <4>2. tickets[g] = {t \in Tickets : routed[t] = g}
          BY <4>1 DEF RoutesAgree
        <4>3. CASE g = sig
          BY <2>1, <2>2, <4>2, <4>3, GroupManagerAssumption DEF TypeOK
        <4>4. CASE g # sig
          <5>1. tickets[sig] \cap tickets[g] = {}
            BY <2>1, <4>4 DEF Owned, OwnedBy
          <5>2. QED BY <2>2, <4>2, <4>4, <5>1, GroupManagerAssumption
        <4>5. QED BY <4>3, <4>4
      <3>2. QED BY <3>1 DEF RoutesAgree
    <2>3. QED BY <1>1, <1>7, <2>2 DEF CancelPending
  <1>8. CASE Crash
    BY <1>8 DEF Crash, RoutesAgree
  <1>9. CASE Restart
    <2>1. /\ group' = [g \in Groups |-> IF Restored(g) THEN "active" ELSE "none"]
          /\ tickets' = [g \in Groups |-> IF Restored(g) THEN rowTickets[g] ELSE {}]
          /\ routed' = [t \in Tickets |->
                IF \E g \in Groups : Restored(g) /\ t \in rowTickets[g]
                THEN CHOOSE g \in Groups : Restored(g) /\ t \in rowTickets[g]
                ELSE None]
      BY <1>9 DEF Restart
    <2>2. ASSUME NEW g \in Groups, group'[g] = "active"
          PROVE  tickets'[g] = {t \in Tickets : routed'[t] = g}
      <3>1. Restored(g) /\ tickets'[g] = rowTickets[g] /\ rowTickets[g] \subseteq Tickets
        BY <2>1, <2>2 DEF TypeOK
      <3>2. ASSUME NEW t \in Tickets PROVE routed'[t] = g <=> t \in rowTickets[g]
        <4>1. CASE \E h \in Groups : Restored(h) /\ t \in rowTickets[h]
          <5> DEFINE h == CHOOSE h \in Groups : Restored(h) /\ t \in rowTickets[h]
          <5>1. h \in Groups /\ t \in rowTickets[h] /\ routed'[t] = h
            BY <2>1, <4>1
          <5>2. owner[t] = h
            BY <5>1 DEF Owned, OwnedBy
          <5>3. t \in rowTickets[g] => owner[t] = g
            BY DEF Owned, OwnedBy
          <5>4. QED BY <5>1, <5>2, <5>3
        <4>2. CASE ~\E h \in Groups : Restored(h) /\ t \in rowTickets[h]
          BY <2>1, <3>1, <4>2, GroupManagerAssumption
        <4>3. QED BY <4>1, <4>2
      <3>3. QED BY <3>1, <3>2
    <2>3. QED BY <2>2 DEF RoutesAgree
  <1>10. QED
    BY <1>2, <1>3, <1>4, <1>5, <1>6, <1>7, <1>8, <1>9, StepKinds DEF Regroups

\* Signals that have not arrived stay without a trace.
LEMMA UnseenNext ==
    ASSUME IInv, [Next]_vars
    PROVE  \A g \in Groups \ seen' : (Blank(g) /\ OwnedBy(g) = {} /\ deferred[g] = 0)'
  <1> USE DEF managed, table, records
  <1> TypeOK /\ Owned /\ Traceless /\ Working
    BY DEF IInv
  <1> SUFFICES ASSUME NEW g \in Groups \ seen'
               PROVE  (Blank(g) /\ OwnedBy(g) = {} /\ deferred[g] = 0)'
    OBVIOUS
  <1> DEFINE Nothing == Blank(g) /\ OwnedBy(g) = {} /\ deferred[g] = 0
  <1>1. ASSUME g \notin seen PROVE Nothing
    BY <1>1 DEF Traceless
  <1>2. CASE Quiet
    BY <1>1, <1>2 DEF Quiet, Blank, OwnedBy
  <1>3. ASSUME NEW h \in Groups, NEW sl \in Int, StopMoved(h, sl) PROVE Nothing'
    <2>1. Nothing /\ h # g
      BY <1>1, <1>3 DEF StopMoved, Blank
    <2>2. rowSl'[g] = rowSl[g]
      BY <1>3, <2>1 DEF StopMoved, Commits, RowSl, TypeOK
    <2>3. QED BY <1>3, <2>1, <2>2 DEF StopMoved, Blank, OwnedBy
  <1>4. CASE RecordEntry \/ RecordReentry
    <2>1. Nothing /\ sig # g
      BY <1>1, <1>4 DEF RecordEntry, RecordReentry, Record, Working
    <2>2. UNCHANGED <<managed, table, deferred>> /\ owner' \in {owner, [owner EXCEPT ![sent] = sig]}
      BY <1>4 DEF RecordEntry, RecordReentry, Record
    <2>3. OwnedBy(g)' = {}
      BY <2>1, <2>2 DEF OwnedBy, TypeOK
    <2>4. QED BY <2>1, <2>2, <2>3 DEF Blank
  <1>5. CASE RegisterGroup
    <2>1. Nothing /\ sig # g /\ sig \in Groups
      BY <1>1, <1>5 DEF RegisterGroup, Working, TypeOK
    <2>2. /\ group'[g] = group[g] /\ row'[g] = row[g] /\ rowSl'[g] = rowSl[g]
          /\ UNCHANGED records
      BY <1>5, <2>1 DEF RegisterGroup, Commits, TypeOK
    <2>3. \A t \in Tickets : routed'[t] \in {routed[t], sig}
      <3>1. CASE UNCHANGED routed
        BY <3>1
      <3>2. CASE routed' = [t \in Tickets |-> IF t \in fresh THEN sig ELSE routed[t]]
        BY <3>2
      <3>3. QED BY <1>5, <3>1, <3>2 DEF RegisterGroup
    <2>4. QED BY <2>1, <2>2, <2>3 DEF Blank, OwnedBy
  <1>6. CASE Join
    <2>1. Nothing /\ sig # g /\ sig \in Groups
      BY <1>1, <1>6 DEF Join, Working, TypeOK
    <2>2. /\ group'[g] = group[g] /\ row'[g] = row[g] /\ rowSl'[g] = rowSl[g]
          /\ UNCHANGED records
      BY <1>6, <2>1 DEF Join, Commits, RowTickets, TypeOK
    <2>3. \A t \in Tickets : routed'[t] \in {routed[t], sig}
      <3>1. CASE group[sig] = "none"
        BY <1>6, <3>1 DEF Join
      <3>2. CASE group[sig] # "none"
        BY <1>6, <3>2 DEF Join
      <3>3. QED BY <3>1, <3>2
    <2>4. QED BY <2>1, <2>2, <2>3 DEF Blank, OwnedBy
  <1>7. CASE PollEnd
    <2>1. Nothing /\ UNCHANGED <<records, rowSl>>
      BY <1>1, <1>7 DEF PollEnd
    <2>2. group'[g] = group[g] /\ \A t \in Tickets : routed'[t] \in {routed[t], None}
      BY <1>7, <2>1 DEF PollEnd, Over, Blank
    <2>3. row'[g] = row[g]
      BY <1>7, <2>1 DEF PollEnd, Blank
    <2>4. QED BY <2>1, <2>2, <2>3, GroupManagerAssumption DEF Blank, OwnedBy
  <1>8. CASE Cleanup
    <2>1. Nothing /\ UNCHANGED <<records, table, routed>> /\ group'[g] \in {group[g], "none"}
      BY <1>1, <1>8 DEF Cleanup
    <2>2. QED BY <2>1 DEF Blank, OwnedBy
  <1>9. CASE CancelPending
    <2>1. Nothing /\ sig # g /\ sig \in Groups /\ UNCHANGED records
      BY <1>1, <1>9 DEF CancelPending, Working, TypeOK
    <2>2. group'[g] = group[g]
      BY <1>9, <2>1 DEF CancelPending, TypeOK
    <2>3. \A t \in Tickets : routed'[t] \in {routed[t], None}
      BY <1>9 DEF CancelPending
    <2>4. row'[g] = row[g] /\ rowSl'[g] = rowSl[g]
      BY <1>9, <2>1 DEF CancelPending, Commits, RowTickets, TypeOK
    <2>5. QED BY <2>1, <2>2, <2>3, <2>4, GroupManagerAssumption DEF Blank, OwnedBy
  <1>10. CASE Crash
    BY <1>1, <1>10, GroupManagerAssumption DEF Crash, Blank, OwnedBy
  <1>11. CASE Restart
    <2>1. Nothing /\ UNCHANGED <<records, rowSl>> /\ ~Restored(g)
      BY <1>1, <1>11 DEF Restart, Blank, Restored
    <2>2. row'[g] = row[g] /\ group'[g] = "none"
      BY <1>11, <2>1 DEF Restart, Blank
    <2>3. ASSUME NEW t \in Tickets PROVE routed'[t] # g
      <3>1. CASE \E h \in Groups : Restored(h) /\ t \in rowTickets[h]
        <4> DEFINE h == CHOOSE h \in Groups : Restored(h) /\ t \in rowTickets[h]
        <4>1. routed'[t] = h /\ Restored(h)
          BY <1>11, <3>1 DEF Restart
        <4>2. QED BY <2>1, <4>1
      <3>2. CASE ~\E h \in Groups : Restored(h) /\ t \in rowTickets[h]
        BY <1>11, <3>2, GroupManagerAssumption DEF Restart
      <3>3. QED BY <3>1, <3>2
    <2>4. QED BY <2>1, <2>2, <2>3 DEF Blank, OwnedBy
  <1>12. QED
    BY <1>2, <1>3, <1>4, <1>5, <1>6, <1>7, <1>8, <1>9, <1>10, <1>11, StepKinds DEF Regroups

\* What the handlers hold, and what is recorded of the signal that arrives.
Holding ==
    Arriving => Blank(sig) /\ OwnedBy(sig) = fresh \ (IF at = "record" THEN {sent} ELSE {})

LEMMA WorkingNext ==
    ASSUME IInv, [Next]_vars
    PROVE  Working' /\ Holding'
  <1> USE DEF managed, rules, table, records, control, broker, bounds
  <1> /\ TypeOK /\ Owned /\ Traceless /\ Working /\ RoutesAgree /\ Holding
      /\ seen \subseteq Groups /\ (sig \in seen => sig \in Groups)
    BY DEF IInv, Traceless, Holding, TypeOK
  <1>1. ASSUME NEW g \in Groups, Arrive(g) PROVE Working' /\ Holding'
    <2>1. Blank(g) /\ OwnedBy(g) = {} /\ fresh = {}
      BY <1>1 DEF Arrive, Traceless, Working, Arriving
    <2>2. QED BY <1>1, <2>1 DEF Arrive, Go, Working, Holding, Arriving, Recording, Blank, OwnedBy
  <1>2. CASE PlaceEntry
    <2>1. \E status \in {"open", "pending"}, level \in Prices : Accepted(sig, status, level)
      BY <1>2 DEF PlaceEntry, TypeOK
    <2>2. PICK status \in {"open", "pending"}, level \in Prices : Accepted(sig, status, level)
      BY <2>1
    <2>3. sig \in seen /\ sig \in Groups
      BY <1>2 DEF PlaceEntry, Working
    <2>4. /\ sent + 1 \in Tickets /\ sent' = sent + 1 /\ fresh' = fresh \cup {sent + 1}
          /\ owner[sent + 1] = None
      BY <2>2, <2>3, AcceptedQuiet
    <2>5. sent + 1 \notin fresh
      BY <1>2, <2>3, <2>4, GroupManagerAssumption
         DEF PlaceEntry, Holding, Arriving, OwnedBy
    <2>6. /\ at = "entry" /\ at' = "record" /\ UNCHANGED <<managed, table, records, sig>>
      BY <1>2 DEF PlaceEntry, Go
    <2>7. Working'
      BY <2>3, <2>4, <2>6 DEF Working, Arriving, Recording
    <2>8. Holding'
      BY <2>4, <2>5, <2>6 DEF Holding, Arriving, Blank, OwnedBy
    <2>9. QED BY <2>7, <2>8
  <1>3. CASE RecordEntry
    <2>1. /\ at = "record" /\ sig \in seen /\ sent \in Tickets /\ sent \in fresh
          /\ UNCHANGED <<managed, table, deferred, seen, sent>>
      BY <1>3 DEF RecordEntry, Record, Working, Recording
    <2>2. CASE /\ owner' = [owner EXCEPT ![sent] = sig] /\ at' = "entry"
               /\ UNCHANGED <<sig, fresh>>
      <3>1. OwnedBy(sig)' = OwnedBy(sig) \cup {sent}
        BY <2>1, <2>2 DEF OwnedBy, TypeOK
      <3>2. OwnedBy(sig)' = fresh
        BY <2>1, <3>1 DEF Holding, Arriving
      <3>3. Holding'
        BY <2>1, <2>2, <3>2 DEF Holding, Arriving, Blank
      <3>4. QED BY <2>1, <2>2, <3>3 DEF Working, Arriving, Recording
    <2>3. CASE Finished
      BY <2>1, <2>3 DEF Finished, Working, Holding, Arriving, Recording
    <2>4. QED BY <1>3, <2>2, <2>3 DEF RecordEntry, Record, Go
  <1>4. CASE Defer
    <2>1. /\ at = "entry" /\ at' = "register"
          /\ UNCHANGED <<managed, table, owner, seen, sig, fresh, sent>>
      BY <1>4 DEF Defer, Go
    <2>2. QED BY <2>1 DEF Working, Holding, Arriving, Recording, Blank, OwnedBy
  <1>5. CASE RegisterGroup \/ Join \/ CancelPending \/ PollEnd
    BY <1>5 DEF RegisterGroup, Join, CancelPending, PollEnd, Finished,
                Working, Holding, Arriving, Recording
  <1>6. ASSUME NEW g \in Groups, Reenter(g) PROVE Working' /\ Holding'
    <2>1. /\ sent + 1 \in Tickets /\ sent' = sent + 1 /\ fresh' = fresh \cup {sent + 1}
          /\ owner[sent + 1] = None
      BY <1>6, AcceptedQuiet DEF Reenter, TypeOK
    <2>2. g \in seen
      BY <1>6 DEF Reenter, Traceless
    <2>3. fresh = {}
      BY <1>6 DEF Reenter, Working, Arriving
    <2>4. at' = "joinRecord" /\ sig' = g /\ UNCHANGED <<owner, seen>>
      BY <1>6 DEF Reenter, Go
    <2>5. QED BY <2>1, <2>2, <2>3, <2>4 DEF Working, Holding, Arriving, Recording
  <1>7. ASSUME NEW g \in Groups, LevelsDropped(g) PROVE Working' /\ Holding'
    BY <1>7 DEF LevelsDropped, Working, Holding, Arriving, Recording, Blank, OwnedBy
  <1>8. CASE RecordReentry
    <2>1. /\ at = "joinRecord" /\ sig \in seen /\ sent \in Tickets /\ fresh = {sent}
          /\ UNCHANGED <<managed, table, deferred, seen, sent>>
      BY <1>8 DEF RecordReentry, Record, Working, Recording
    <2>2. CASE /\ owner' = [owner EXCEPT ![sent] = sig] /\ at' = "join"
               /\ UNCHANGED <<sig, fresh>>
      <3>1. fresh \subseteq OwnedBy(sig)'
        BY <2>1, <2>2 DEF OwnedBy, TypeOK
      <3>2. QED BY <2>1, <2>2, <3>1 DEF Working, Holding, Arriving, Recording
    <2>3. CASE Finished
      BY <2>1, <2>3 DEF Finished, Working, Holding, Arriving, Recording
    <2>4. QED BY <1>8, <2>2, <2>3 DEF RecordReentry, Record, Go
  <1>9. CASE PollStart
    <2>1. \A g \in todo' : group[g] = "active" /\ \E t \in Tickets : routed[t] = g
      BY <1>9 DEF PollStart
    <2>2. \A g \in todo' : group[g] = "active" /\ tickets[g] # {}
      BY <1>9, <2>1 DEF PollStart, RoutesAgree
    <2>3. /\ at = "idle" /\ at' = "poll"
          /\ UNCHANGED <<managed, table, records, sig, fresh, sent>>
      BY <1>9 DEF PollStart, Go
    <2>4. QED BY <2>2, <2>3 DEF Working, Holding, Arriving, Recording
  <1>10. ASSUME NEW g \in Groups, ManageGroup(g) PROVE Working' /\ Holding'
    BY <1>10 DEF ManageGroup, Working, Holding, Arriving, Recording
  <1>11. ASSUME NEW t \in Tickets, ManageAlone(t) PROVE Working' /\ Holding'
    BY <1>11 DEF ManageAlone, Working, Holding, Arriving, Recording
  <1>12. CASE Cleanup
    BY <1>12 DEF Cleanup, Working, Holding, Arriving, Recording
  <1>13. ASSUME NEW g \in Groups, Answers(g) PROVE g \in seen
    BY <1>13 DEF Answers, Traceless, OwnedBy
  <1>14. ASSUME NEW g \in Groups, CloseSelective(g) PROVE Working' /\ Holding'
    <2>1. g \in seen /\ group[g] = "active" /\ fresh = {}
      BY <1>13, <1>14 DEF CloseSelective, Selectable, Answers, Working, Arriving
    <2>2. /\ at' \in {"groupBe", "cancelPlans"} /\ sig' = g
          /\ UNCHANGED <<group, seen, fresh>>
      BY <1>14 DEF CloseSelective, Go
    <2>3. QED BY <2>1, <2>2 DEF Working, Holding, Arriving, Recording
  <1>15. CASE GroupBe
    BY <1>15 DEF GroupBe, Go, Working, Holding, Arriving, Recording
  <1>16. ASSUME NEW g \in Groups, SecureProfit(g) PROVE Working' /\ Holding'
    <2>1. g \in seen /\ fresh = {} /\ at' = "cancelPlans" /\ sig' = g /\ UNCHANGED <<seen, fresh>>
      BY <1>13, <1>16 DEF SecureProfit, Answers, Go, Working, Arriving
    <2>2. QED BY <2>1 DEF Working, Holding, Arriving, Recording
  <1>17. ASSUME NEW g \in Groups, CancelReply(g) PROVE Working' /\ Holding'
    <2>1. g \in seen /\ fresh = {} /\ at' = "cancelPlans" /\ sig' = g /\ UNCHANGED <<seen, fresh>>
      BY <1>13, <1>17 DEF CancelReply, Answers, Go, Working, Arriving
    <2>2. QED BY <2>1 DEF Working, Holding, Arriving, Recording
  <1>18. CASE CancelPlans
    BY <1>18 DEF CancelPlans, Go, Working, Holding, Arriving, Recording
  <1>19. ASSUME NEW g \in Groups, EditOrDelete(g) \/ ReplyToAll(g) PROVE Working' /\ Holding'
    BY <1>13, <1>19 DEF EditOrDelete, ReplyToAll, Answers, Go, Working, Holding, Arriving, Recording
  <1>20. CASE RulesLookupRaises \/ Crash \/ Restart
    BY <1>20 DEF RulesLookupRaises, Crash, Restart, Finished, Go, Working, Holding, Arriving, Recording
  <1>21. CASE UNCHANGED <<managed, table, records, control, sent>>
    BY <1>21 DEF Working, Holding, Arriving, Recording, Blank, OwnedBy
  <1>22. CASE (\E t \in Tickets : Fill(t) \/ Ends(t)) \/ PriceMove \/ UNCHANGED vars
    BY <1>21, <1>22 DEF Fill, Ends, PriceMove, vars
  <1>23. QED
    BY <1>1, <1>2, <1>3, <1>4, <1>5, <1>6, <1>7, <1>8, <1>9, <1>10, <1>11, <1>12, <1>14,
       <1>15, <1>16, <1>17, <1>18, <1>19, <1>20, <1>22
       DEF Next, Handler, Poll, Message

\* What memory and table say of the groups.
Follows(g) ==
    /\ row[g] = "active" <=> group[g] = "active"
    /\ row[g] = "active" => rowTickets[g] = tickets[g] /\ rowSl[g] = groupSl[g]

\* A group says the same after a step that leaves memory and table alone.
LEMMA FollowsStill ==
    ASSUME NEW g, Follows(g),
           group'[g] = group[g], tickets'[g] = tickets[g], groupSl'[g] = groupSl[g],
           row'[g] = row[g], rowTickets'[g] = rowTickets[g], rowSl'[g] = rowSl[g]
    PROVE  Follows(g)'
  BY DEF Follows

\* A counter of faults that stands at none has counted nothing.
LEMMA NoneCounted ==
    ASSUME NEW S \in SUBSET Groups, NEW n \in Nat, n + Cardinality(S) = 0
    PROVE  S = {} /\ n = 0
  <1>1. IsFiniteSet(S)
    BY GroupManagerAssumption, FS_Subset
  <1>2. Cardinality(S) \in Nat
    BY <1>1, FS_CardinalityType
  <1>3. Cardinality(S) = 0 /\ n = 0
    BY <1>2
  <1>4. QED BY <1>1, <1>3, FS_EmptySet

\* While no commit fails, the table of groups follows memory.
LEMMA FollowsNext ==
    ASSUME IInv, [Next]_vars, at' # "down", dbFaults' = 0
    PROVE  \A g \in Groups : Follows(g)'
  <1> USE DEF managed, table
  <1> /\ TypeOK /\ Owned /\ Traceless /\ Working
      /\ (at # "down" /\ dbFaults = 0 => \A g \in Groups : Follows(g))
    BY DEF IInv, TableFollows, Follows
  <1> SUFFICES ASSUME NEW g \in Groups PROVE Follows(g)'
    OBVIOUS
  <1>0. dbFaults \in Nat
    BY DEF TypeOK
  <1>1. CASE Quiet \/ RecordEntry \/ RecordReentry
    <2>1. UNCHANGED <<managed, table>> /\ at # "down" /\ dbFaults = 0
      BY <1>0, <1>1 DEF Quiet, RecordEntry, RecordReentry, Record
    <2>2. QED BY <2>1, FollowsStill
  <1>2. ASSUME NEW h \in Groups, NEW sl \in Int, StopMoved(h, sl) PROVE Follows(g)'
    <2>1. /\ dbFaults = 0 /\ RowSl(h, sl) /\ groupSl' = [groupSl EXCEPT ![h] = sl]
          /\ UNCHANGED <<group, tickets, row, rowTickets>> /\ group[h] = "active"
      BY <1>0, <1>2 DEF StopMoved, Commits
    <2>2. Follows(g) /\ Follows(h)
      BY <1>2, <2>1 DEF StopMoved
    <2>3. row[h] = "active" /\ rowSl' = [rowSl EXCEPT ![h] = sl]
      BY <2>1, <2>2 DEF Follows, RowSl
    <2>4. QED BY <2>1, <2>2, <2>3 DEF Follows, TypeOK
  <1>3. CASE RegisterGroup
    <2>1. sig \in Groups /\ Follows(g) /\ dbFaults = 0
      BY <1>0, <1>3 DEF RegisterGroup, Commits, Working, TypeOK
    <2>2. CASE UNCHANGED <<managed, table>>
      BY <2>1, <2>2, FollowsStill
    <2>3. CASE fresh # {} /\ group[sig] = "none"
      <3>1. /\ group' = [group EXCEPT ![sig] = "active"]
            /\ tickets' = [tickets EXCEPT ![sig] = fresh]
            /\ groupSl' = [groupSl EXCEPT ![sig] = None]
        BY <1>3, <2>3 DEF RegisterGroup
      <3>2. /\ row' = [row EXCEPT ![sig] = "active"]
            /\ rowTickets' = [rowTickets EXCEPT ![sig] = fresh]
            /\ rowSl' = [rowSl EXCEPT ![sig] = None]
        BY <1>0, <1>3, <2>3 DEF RegisterGroup, Commits
      <3>3. QED BY <2>1, <3>1, <3>2 DEF Follows, TypeOK
    <2>4. QED BY <1>3, <2>2, <2>3 DEF RegisterGroup
  <1>4. CASE Join
    <2>1. sig \in Groups /\ Follows(g) /\ dbFaults = 0
      <3>1. dbFaults = 0
        BY <1>0, <1>4 DEF Join, Commits
      <3>2. QED BY <1>4, <3>1 DEF Join, Working, TypeOK
    <2>2. CASE group[sig] = "none"
      BY <1>4, <2>1, <2>2, FollowsStill DEF Join
    <2>3. CASE group[sig] # "none"
      <3>1. /\ tickets' = [tickets EXCEPT ![sig] = @ \cup fresh]
            /\ UNCHANGED <<group, groupSl>>
        BY <1>4, <2>3 DEF Join
      <3>2. RowTickets(sig, tickets'[sig])
        BY <1>0, <1>4, <2>3 DEF Join, Commits
      <3>3. QED BY <2>1, <3>1, <3>2 DEF Follows, RowTickets, TypeOK
    <2>4. QED BY <2>2, <2>3
  <1>5. CASE PollEnd
    <2> DEFINE over == {h \in Groups : Over(h)}
    <2>1. PICK lost \in SUBSET over :
              /\ dbFaults' = dbFaults + Cardinality(lost)
              /\ row' = [h \in Groups |->
                     IF h \in over \ lost /\ row[h] # "none" THEN "completed" ELSE row[h]]
      BY <1>5 DEF PollEnd
    <2>2. lost = {} /\ dbFaults = 0
      BY <1>0, <2>1, NoneCounted
    <2>3. Follows(g)
      BY <1>5, <2>2 DEF PollEnd
    <2>4. row' = [h \in Groups |->
              IF Over(h) /\ row[h] # "none" THEN "completed" ELSE row[h]]
      BY <2>1, <2>2
    <2>5. /\ group' = [h \in Groups |-> IF Over(h) THEN "completed" ELSE group[h]]
          /\ UNCHANGED <<tickets, groupSl, rowTickets, rowSl>>
      BY <1>5 DEF PollEnd
    <2>6. QED BY <2>3, <2>4, <2>5 DEF Follows, Over
  <1>6. CASE Cleanup
    <2>1. dbFaults = 0 /\ UNCHANGED table
      BY <1>6 DEF Cleanup, bounds
    <2>2. Follows(g)
      BY <1>6, <2>1 DEF Cleanup
    <2>3. PICK old \in SUBSET {h \in Groups : group[h] = "completed"} :
              /\ group' = [h \in Groups |-> IF h \in old THEN "none" ELSE group[h]]
              /\ tickets' = [h \in Groups |-> IF h \in old THEN {} ELSE tickets[h]]
              /\ groupSl' = [h \in Groups |-> IF h \in old THEN None ELSE groupSl[h]]
      BY <1>6 DEF Cleanup
    <2>4. QED BY <2>1, <2>2, <2>3 DEF Follows
  <1>7. CASE CancelPending
    <2>1. sig \in Groups /\ Follows(g) /\ Follows(sig) /\ dbFaults = 0
      <3>1. dbFaults = 0
        BY <1>0, <1>7 DEF CancelPending, Commits
      <3>2. QED BY <1>7, <3>1 DEF CancelPending, Working, TypeOK
    <2>2. CASE group[sig] # "active"
      BY <1>7, <2>1, <2>2, FollowsStill DEF CancelPending
    <2>3. CASE group[sig] = "active"
      <3>1. /\ tickets' = [tickets EXCEPT ![sig] = Kept(sig)]
            /\ group' = [group EXCEPT ![sig] = IF Kept(sig) = {} THEN "completed" ELSE @]
            /\ UNCHANGED groupSl
        BY <1>7, <2>3 DEF CancelPending
      <3>2. row[sig] = "active"
        BY <2>1, <2>3 DEF Follows
      <3>3. CASE Kept(sig) # {}
        <4>1. RowTickets(sig, Kept(sig))
          BY <1>0, <1>7, <2>3, <3>3 DEF CancelPending, Commits
        <4>2. QED BY <2>1, <3>1, <3>2, <3>3, <4>1 DEF Follows, RowTickets, TypeOK
      <3>4. CASE Kept(sig) = {}
        <4>1. /\ row' = [row EXCEPT ![sig] = IF @ = "none" THEN @ ELSE "completed"]
              /\ UNCHANGED <<rowTickets, rowSl>>
          BY <1>0, <1>7, <2>3, <3>4 DEF CancelPending, Commits
        <4>2. QED BY <2>1, <3>1, <3>2, <3>4, <4>1 DEF Follows, TypeOK
      <3>5. QED BY <3>3, <3>4
    <2>4. QED BY <2>2, <2>3
  <1>8. CASE Crash
    BY <1>8 DEF Crash
  <1>9. CASE Restart
    <2> DEFINE stale == {h \in Groups : row[h] = "active" /\ ~Restored(h)}
    <2>1. PICK lost \in SUBSET stale :
              /\ dbFaults' = dbFaults + Cardinality(lost)
              /\ row' = [h \in Groups |-> IF h \in stale \ lost THEN "completed" ELSE row[h]]
      BY <1>9 DEF Restart
    <2>2. lost = {}
      BY <1>0, <2>1, NoneCounted
    <2>3. row' = [h \in Groups |->
              IF row[h] = "active" /\ ~Restored(h) THEN "completed" ELSE row[h]]
      BY <2>1, <2>2
    <2>4. /\ group' = [h \in Groups |-> IF Restored(h) THEN "active" ELSE "none"]
          /\ tickets' = [h \in Groups |-> IF Restored(h) THEN rowTickets[h] ELSE {}]
          /\ groupSl' = [h \in Groups |-> IF Restored(h) THEN rowSl[h] ELSE None]
          /\ UNCHANGED <<rowTickets, rowSl>>
      BY <1>9 DEF Restart
    <2>5. QED BY <2>3, <2>4 DEF Follows, Restored
  <1>10. QED
    BY <1>1, <1>2, <1>3, <1>4, <1>5, <1>6, <1>7, <1>8, <1>9, StepKinds DEF Regroups

\* Whatever commits fail, a group active in memory is not completed in the
\* table, nor is its stop there ahead.
Behind(g) ==
    /\ row[g] # "completed"
    /\ rowSl[g] # None => groupSl[g] # None /\ rowSl[g] <= groupSl[g]

LEMMA BehindStill ==
    ASSUME NEW g, Behind(g),
           groupSl'[g] = groupSl[g], row'[g] = row[g], rowSl'[g] = rowSl[g]
    PROVE  Behind(g)'
  BY DEF Behind

LEMMA BehindNext ==
    ASSUME IInv, [Next]_vars
    PROVE  \A g \in Groups : group'[g] = "active" => Behind(g)'
  <1> USE DEF managed, table
  <1> /\ TypeOK /\ Owned /\ Traceless /\ Working
      /\ \A g \in Groups : group[g] = "active" => Behind(g)
    BY DEF IInv, TableFollows, RowStopNeverAhead, Behind
  <1> SUFFICES ASSUME NEW g \in Groups, group'[g] = "active" PROVE Behind(g)'
    OBVIOUS
  <1>1. CASE UNCHANGED <<group, groupSl, row, rowSl>>
    BY <1>1, BehindStill
  <1>2. ASSUME NEW h \in Groups, NEW sl \in Int, StopMoved(h, sl) PROVE Behind(g)'
    <2>1. /\ groupSl' = [groupSl EXCEPT ![h] = sl] /\ Better(sl, groupSl[h])
          /\ group' = group /\ row' = row /\ rowSl' \in {rowSl, [rowSl EXCEPT ![h] = sl]}
      BY <1>2 DEF StopMoved, Commits, RowSl
    <2>2. CASE g # h
      <3>1. groupSl'[g] = groupSl[g] /\ row'[g] = row[g] /\ rowSl'[g] = rowSl[g] /\ Behind(g)
        BY <2>1, <2>2 DEF TypeOK
      <3>2. QED BY <3>1, BehindStill
    <2>3. CASE g = h
      <3>1. Behind(g) /\ groupSl'[g] = sl /\ rowSl'[g] \in {rowSl[g], sl} /\ row'[g] = row[g]
        BY <2>1, <2>3 DEF TypeOK
      <3>2. rowSl[g] \in Int \cup {None} /\ groupSl[g] \in Int \cup {None} /\ None \notin Int
        BY GroupManagerAssumption DEF TypeOK, Stop
      <3>3. groupSl[g] = None \/ sl > groupSl[g]
        BY <2>1, <2>3 DEF Better
      <3>4. QED BY <3>1, <3>2, <3>3 DEF Behind
    <2>4. QED BY <2>2, <2>3
  <1>3. CASE RegisterGroup
    <2>1. sig \in Groups /\ row[sig] = "none" /\ rowSl[sig] = None
      BY <1>3 DEF RegisterGroup, Working, Traceless, Arriving, Blank, TypeOK
    <2>2. CASE fresh # {} /\ group[sig] = "none"
      <3>1. /\ group' = [group EXCEPT ![sig] = "active"]
            /\ groupSl' = [groupSl EXCEPT ![sig] = None]
            /\ row' \in {row, [row EXCEPT ![sig] = "active"]}
            /\ rowSl' \in {rowSl, [rowSl EXCEPT ![sig] = None]}
        BY <1>3, <2>2 DEF RegisterGroup, Commits
      <3>2. CASE g = sig
        BY <2>1, <3>1, <3>2 DEF Behind, TypeOK
      <3>3. CASE g # sig
        <4>1. groupSl'[g] = groupSl[g] /\ row'[g] = row[g] /\ rowSl'[g] = rowSl[g] /\ Behind(g)
          BY <3>1, <3>3 DEF TypeOK
        <4>2. QED BY <4>1, BehindStill
      <3>4. QED BY <3>2, <3>3
    <2>3. QED BY <1>1, <1>3, <2>2 DEF RegisterGroup
  <1>4. CASE Join
    <2>1. UNCHANGED <<group, groupSl, row, rowSl>>
      BY <1>4 DEF Join, Commits, RowTickets
    <2>2. QED BY <1>1, <2>1
  <1>5. CASE PollEnd
    <2>1. /\ group' = [h \in Groups |-> IF Over(h) THEN "completed" ELSE group[h]]
          /\ UNCHANGED <<groupSl, rowSl>>
      BY <1>5 DEF PollEnd
    <2>2. group[g] = "active" /\ ~Over(g)
      BY <2>1
    <2>3. row'[g] = row[g]
      BY <1>5, <2>2 DEF PollEnd
    <2>4. QED BY <2>1, <2>2, <2>3, BehindStill
  <1>6. CASE Cleanup
    <2>1. group[g] = "active" /\ groupSl'[g] = groupSl[g] /\ UNCHANGED table
      BY <1>6 DEF Cleanup
    <2>2. QED BY <2>1, BehindStill
  <1>7. CASE CancelPending
    <2>1. sig \in Groups
      BY <1>7 DEF CancelPending, Working, TypeOK
    <2>2. CASE group[sig] = "active"
      <3>1. /\ group' = [group EXCEPT ![sig] = IF Kept(sig) = {} THEN "completed" ELSE @]
            /\ UNCHANGED groupSl
        BY <1>7, <2>2 DEF CancelPending
      <3>2. group[g] = "active" /\ (g = sig => Kept(sig) # {})
        BY <2>1, <3>1 DEF TypeOK
      <3>3. rowSl' = rowSl /\ row'[g] = row[g]
        <4>1. CASE UNCHANGED <<row, rowSl>>
          BY <4>1
        <4>2. CASE /\ Kept(sig) = {} /\ rowSl' = rowSl
                   /\ row' = [row EXCEPT ![sig] = IF @ = "none" THEN @ ELSE "completed"]
          BY <3>2, <4>2 DEF TypeOK
        <4>3. QED BY <1>7, <2>2, <4>1, <4>2 DEF CancelPending, Commits, RowTickets
      <3>4. QED BY <3>1, <3>2, <3>3, BehindStill
    <2>3. QED BY <1>1, <1>7, <2>2 DEF CancelPending
  <1>8. CASE Crash
    BY <1>8 DEF Crash
  <1>9. CASE Restart
    <2>1. /\ group' = [h \in Groups |-> IF Restored(h) THEN "active" ELSE "none"]
          /\ groupSl' = [h \in Groups |-> IF Restored(h) THEN rowSl[h] ELSE None]
          /\ UNCHANGED rowSl
      BY <1>9 DEF Restart
    <2>2. Restored(g) /\ row[g] = "active" /\ groupSl'[g] = rowSl[g]
      BY <2>1 DEF Restored
    <2>3. row'[g] = row[g]
      BY <1>9, <2>2 DEF Restart
    <2>4. rowSl[g] \in Int \cup {None}
      BY DEF TypeOK, Stop
    <2>5. QED BY <2>1, <2>2, <2>3, <2>4 DEF Behind
  <1>10. CASE Quiet \/ RecordEntry \/ RecordReentry
    BY <1>1, <1>10 DEF Quiet, RecordEntry, RecordReentry, Record
  <1>11. QED
    BY <1>2, <1>3, <1>4, <1>5, <1>6, <1>7, <1>8, <1>9, <1>10, StepKinds DEF Regroups

\* An order of an active group that has not ended is not forgotten.
LEMMA LostNext ==
    ASSUME IInv, [Next]_vars
    PROVE  NoneLost'
  <1> USE DEF managed, table
  <1> TypeOK /\ Owned /\ Traceless /\ Working /\ RoutesAgree
    BY DEF IInv
  <1> DEFINE Kin(g) == tickets[g] \cup letGo \cup (IF at = "join" THEN fresh ELSE {})
  <1>1. ASSUME crashes = 0, NEW g \in Groups, NEW t \in Tickets,
               owner[t] = g, group[g] = "active", Alive(t)
        PROVE  t \in Kin(g)
    BY <1>1 DEF IInv, NoneLost
  <1>2. crashes \in Nat /\ (crashes = 0 => at # "down")
    BY DEF TypeOK, IInv, NoneLost
  <1>3. crashes' = 0 => at' # "down"
    <2>1. ASSUME NEW point, NEW next, Record(point, next), next # "down"
          PROVE  UNCHANGED crashes /\ at' # "down"
      BY <2>1 DEF Record, Go, Finished
    <2>2. RecordEntry \/ RecordReentry => UNCHANGED crashes /\ at' # "down"
      BY <2>1 DEF RecordEntry, RecordReentry
    <2>3. RegisterGroup \/ Join \/ PollEnd \/ CancelPending \/ Restart
             => UNCHANGED crashes /\ at' # "down"
      BY DEF RegisterGroup, Join, PollEnd, CancelPending, Restart, Finished, Go
    <2>4. Cleanup => UNCHANGED <<crashes, at>>
      BY DEF Cleanup, control, bounds
    <2>5. Crash => crashes' = crashes + 1
      BY DEF Crash
    <2>6. (\E g \in Groups, sl \in Int : StopMoved(g, sl)) => UNCHANGED crashes /\ at' # "down"
      BY DEF StopMoved
    <2>7. Quiet => UNCHANGED crashes /\ (at' = "down" <=> at = "down")
      BY DEF Quiet
    <2>8. QED BY <1>2, <2>2, <2>3, <2>4, <2>5, <2>6, <2>7, StepKinds DEF Regroups
  <1> SUFFICES ASSUME NEW g \in Groups, NEW t \in Tickets, owner'[t] = g,
                      group'[g] = "active", Alive(t)', crashes' = 0
               PROVE  t \in Kin(g)'
    BY <1>3 DEF NoneLost
  <1> HIDE DEF Kin
  <1>4. CASE Quiet
    <2>1. /\ UNCHANGED <<group, tickets, letGo, owner, crashes>>
          /\ (at' = "join" <=> at = "join") /\ (at = "join" => fresh' = fresh)
          /\ (Alive(t) \/ owner[t] = None)
      BY <1>4 DEF Quiet
    <2>2. Alive(t) /\ owner[t] = g /\ group[g] = "active" /\ crashes = 0
      BY <2>1, GroupManagerAssumption
    <2>3. t \in Kin(g)
      BY <1>1, <2>1, <2>2
    <2>4. QED BY <2>1, <2>3 DEF Kin
  <1>5. ASSUME NEW h \in Groups, NEW sl \in Int, StopMoved(h, sl) PROVE t \in Kin(g)'
    <2>1. /\ UNCHANGED <<group, tickets, letGo, owner, order, crashes>>
          /\ at \notin {"down", "join"}
      BY <1>5 DEF StopMoved, records
    <2>2. t \in Kin(g)
      BY <1>1, <2>1 DEF Alive
    <2>3. QED BY <2>1, <2>2 DEF Kin
  <1>6. ASSUME NEW point, NEW next, Record(point, next), point \in {"record", "joinRecord"},
               (next = "join" <=> point = "joinRecord")
        PROVE  t \in Kin(g)'
    <2>1. /\ UNCHANGED <<group, tickets, letGo, order, crashes>> /\ at = point
          /\ sent \in Tickets /\ sent \in fresh
      BY <1>6 DEF Record, broker, Working, Recording
    <2>2. CASE owner' = owner
      <3>1. t \in Kin(g)
        BY <1>1, <1>6, <2>1, <2>2 DEF Alive
      <3>2. QED BY <1>6, <2>1, <3>1 DEF Kin
    <2>3. CASE owner' = [owner EXCEPT ![sent] = sig] /\ at' = next /\ fresh' = fresh
      <3>1. CASE t # sent
        <4>1. owner[t] = g
          BY <2>1, <2>3, <3>1 DEF TypeOK
        <4>2. t \in Kin(g)
          BY <1>1, <1>6, <2>1, <4>1 DEF Alive
        <4>3. QED BY <1>6, <2>1, <4>2 DEF Kin
      <3>2. CASE t = sent
        <4>1. g = sig
          BY <2>1, <2>3, <3>2 DEF TypeOK
        <4>2. at # "record"
          BY <2>1, <4>1 DEF Traceless, Arriving, Blank
        <4>3. QED BY <1>6, <2>1, <2>3, <3>2, <4>2 DEF Kin
      <3>3. QED BY <3>1, <3>2
    <2>4. QED BY <1>6, <2>2, <2>3 DEF Record, Go
  <1>7. CASE RegisterGroup
    <2>1. /\ UNCHANGED <<letGo, crashes, owner, order>> /\ at = "register"
          /\ sig \in Groups /\ fresh = OwnedBy(sig) /\ group[sig] = "none"
      BY <1>7 DEF RegisterGroup, records, broker, Working, Traceless, Arriving, Blank, TypeOK
    <2>2. CASE g = sig
      <3>1. t \in fresh
        BY <2>1, <2>2 DEF OwnedBy
      <3>2. tickets' = [tickets EXCEPT ![sig] = fresh]
        BY <1>7, <2>1, <3>1 DEF RegisterGroup
      <3>3. QED BY <2>1, <2>2, <3>1, <3>2 DEF Kin, TypeOK
    <2>3. CASE g # sig
      <3>1. group'[g] = group[g] /\ tickets'[g] = tickets[g]
        BY <1>7, <2>1, <2>3 DEF RegisterGroup, TypeOK
      <3>2. t \in Kin(g)
        BY <1>1, <2>1, <3>1 DEF Alive
      <3>3. QED BY <2>1, <3>1, <3>2 DEF Kin
    <2>4. QED BY <2>2, <2>3
  <1>8. CASE Join
    <2>1. /\ UNCHANGED <<letGo, crashes, owner, order>> /\ at = "join" /\ sig \in Groups
          /\ fresh \subseteq OwnedBy(sig)
      BY <1>8 DEF Join, records, broker, Working, TypeOK
    <2>2. group' = group
      BY <1>8 DEF Join
    <2>3. t \in tickets[g] \cup letGo \cup fresh
      BY <1>1, <2>1, <2>2 DEF Alive, Kin
    <2>4. t \in fresh => g = sig
      BY <2>1 DEF OwnedBy
    <2>5. CASE group[sig] = "none"
      BY <1>8, <2>1, <2>2, <2>3, <2>4, <2>5 DEF Join, Kin
    <2>6. CASE group[sig] # "none"
      <3>1. tickets' = [tickets EXCEPT ![sig] = @ \cup fresh]
        BY <1>8, <2>6 DEF Join
      <3>2. QED BY <2>1, <2>3, <2>4, <3>1 DEF Kin, TypeOK
    <2>7. QED BY <2>5, <2>6
  <1>9. CASE PollEnd \/ Cleanup
    <2>1. /\ UNCHANGED <<letGo, crashes, owner, order>> /\ at \in {"poll", "idle"}
          /\ group[g] = "active" /\ tickets'[g] = tickets[g]
      BY <1>9 DEF PollEnd, Cleanup, records, broker, bounds
    <2>2. t \in Kin(g)
      BY <1>1, <2>1 DEF Alive
    <2>3. QED BY <2>1, <2>2 DEF Kin
  <1>10. CASE CancelPending
    <2>1. /\ UNCHANGED <<crashes, owner>> /\ at = "cancelPending" /\ sig \in Groups
      BY <1>10 DEF CancelPending, records, Working, TypeOK
    <2>2. CASE group[sig] # "active"
      <3>1. UNCHANGED <<managed, order, letGo>>
        BY <1>10, <2>2 DEF CancelPending
      <3>2. t \in Kin(g)
        BY <1>1, <2>1, <3>1 DEF Alive
      <3>3. QED BY <2>1, <3>1, <3>2 DEF Kin
    <2>3. CASE group[sig] = "active"
      <3> DEFINE unfilled == {u \in tickets[sig] : order[u] = "pending"}
      <3>1. PICK ok \in SUBSET unfilled :
                /\ order' = [u \in Tickets |-> IF u \in ok THEN "closed" ELSE order[u]]
                /\ letGo' = letGo \cup (unfilled \ ok)
        BY <1>10, <2>3 DEF CancelPending
      <3>2. /\ tickets' = [tickets EXCEPT ![sig] = Kept(sig)]
            /\ group' = [group EXCEPT ![sig] = IF Kept(sig) = {} THEN "completed" ELSE @]
        BY <1>10, <2>3 DEF CancelPending
      <3>3. t \notin ok /\ Alive(t)
        BY <3>1 DEF Alive
      <3>4. group[g] = "active"
        BY <2>1, <3>2 DEF TypeOK
      <3>5. t \in tickets[g] \cup letGo
        BY <1>1, <2>1, <3>3, <3>4 DEF Kin
      <3>6. CASE g = sig
        BY <2>1, <3>1, <3>2, <3>3, <3>5, <3>6 DEF Kin, Kept, OpenOf, IsOpen, Alive, TypeOK
      <3>7. CASE g # sig
        BY <2>1, <3>1, <3>2, <3>5, <3>7 DEF Kin, TypeOK
      <3>8. QED BY <3>6, <3>7
    <2>4. QED BY <2>2, <2>3
  <1>11. CASE Crash \/ Restart
    BY <1>2, <1>11 DEF Crash, Restart
  <1>12. QED
    <2>1. RecordEntry \/ RecordReentry => t \in Kin(g)'
      BY <1>6 DEF RecordEntry, RecordReentry
    <2>2. QED
      BY <1>4, <1>5, <1>7, <1>8, <1>9, <1>10, <1>11, <2>1, StepKinds DEF Regroups

\* The initial states satisfy the invariant.
LEMMA Initially ==
    ASSUME Init
    PROVE  IInv
  <1> USE GroupManagerAssumption
  <1>1. TypeOK
    BY DEF Init, TypeOK, Status, Stop, Points
  <1>2. Owned /\ Traceless /\ Working
    BY DEF Init, Owned, Traceless, Working, OwnedBy, Blank, Arriving, Recording
  <1>3. RoutesAgree /\ TableFollows /\ RowStopNeverAhead /\ NoneLost
    BY DEF Init, RoutesAgree, TableFollows, RowStopNeverAhead, NoneLost
  <1>4. QED BY <1>1, <1>2, <1>3 DEF IInv

\* Every step keeps it.
LEMMA InvariantNext ==
    ASSUME IInv, [Next]_vars
    PROVE  IInv'
  <1>1. TypeOK' /\ Owned' /\ Working' /\ RoutesAgree' /\ NoneLost'
    BY TypedNext, OwnedNext, WorkingNext, RoutesNext, LostNext DEF IInv
  <1>2. Traceless'
    BY UnseenNext, WorkingNext DEF Traceless, Holding
  <1>3. TableFollows'
    BY FollowsNext, BehindNext DEF TableFollows, Follows, Behind
  <1>4. RowStopNeverAhead'
    BY BehindNext DEF RowStopNeverAhead, Behind
  <1>5. QED BY <1>1, <1>2, <1>3, <1>4 DEF IInv

-----------------------------------------------------------------------------
(* The table implements the record of groups                               *)

\* Either the record takes a step of GroupRecord, or it stays as it is.
RecordSteps == [Recorded!Next]_(Recorded!record)

LEMMA RegisterRefines ==
    ASSUME IInv, RegisterGroup
    PROVE  RecordSteps
  <1> USE DEF table, Recorded!record, RecordSteps
  <1>1. /\ sig \in Groups /\ row[sig] = "none" /\ rowSl[sig] = None
        /\ fresh \subseteq Tickets /\ rowSl \in [Groups -> Stop]
    BY DEF IInv, RegisterGroup, Working, Traceless, Arriving, Blank, TypeOK
  <1>2. CASE UNCHANGED table
    BY <1>2
  <1>3. CASE /\ fresh # {}
             /\ row' = [row EXCEPT ![sig] = "active"]
             /\ rowTickets' = [rowTickets EXCEPT ![sig] = fresh]
             /\ rowSl' = [rowSl EXCEPT ![sig] = None]
    <2>1. rowSl' = rowSl
      BY <1>1, <1>3
    <2>2. Recorded!Create(sig, fresh)
      BY <1>1, <1>3, <2>1 DEF Recorded!Create
    <2>3. QED BY <1>1, <2>2 DEF Recorded!Next
  <1>4. QED BY <1>2, <1>3 DEF RegisterGroup, Commits, managed

\* A group that is in memory and not in the table has no row to change.
LEMMA RowTicketsRefines ==
    ASSUME NEW g \in Groups, NEW ts \in SUBSET Tickets, RowTickets(g, ts)
    PROVE  RecordSteps
  <1> USE DEF Recorded!record, RecordSteps
  <1>1. CASE row[g] = "none"
    BY <1>1 DEF RowTickets
  <1>2. CASE row[g] # "none"
    <2>1. Recorded!ChangeMembers(g, ts)
      BY <1>2 DEF RowTickets, Recorded!ChangeMembers
    <2>2. QED BY <2>1 DEF Recorded!Next
  <1>3. QED BY <1>1, <1>2

LEMMA JoinRefines ==
    ASSUME IInv, Join
    PROVE  RecordSteps
  <1> USE DEF table, Recorded!record, RecordSteps
  <1>1. sig \in Groups /\ tickets \in [Groups -> SUBSET Tickets] /\ fresh \subseteq Tickets
    BY DEF IInv, Join, Working, TypeOK
  <1>2. CASE UNCHANGED table
    BY <1>2
  <1>3. CASE /\ tickets' = [tickets EXCEPT ![sig] = @ \cup fresh]
             /\ RowTickets(sig, tickets'[sig])
    <2>1. tickets'[sig] \in SUBSET Tickets
      BY <1>1, <1>3
    <2>2. QED BY <1>1, <1>3, <2>1, RowTicketsRefines
  <1>4. QED BY <1>2, <1>3 DEF Join, Commits

LEMMA StopMovedRefines ==
    ASSUME IInv, NEW g \in Groups, NEW sl \in Int, StopMoved(g, sl)
    PROVE  RecordSteps
  <1> USE DEF table, Recorded!record, RecordSteps
  <1>1. /\ group[g] = "active" /\ Better(sl, groupSl[g]) /\ UNCHANGED <<row, rowTickets>>
        /\ rowSl' = rowSl \/ (row[g] # "none" /\ rowSl' = [rowSl EXCEPT ![g] = sl])
    BY DEF StopMoved, Commits, RowSl
  <1>2. CASE rowSl' = rowSl
    BY <1>1, <1>2
  <1>3. CASE row[g] # "none" /\ rowSl' = [rowSl EXCEPT ![g] = sl]
    <2>1. /\ row[g] \in Status /\ row[g] # "completed"
          /\ rowSl[g] \in Stop /\ groupSl[g] \in Stop /\ rowSl'[g] = sl
      BY <1>1, <1>3 DEF IInv, TypeOK, TableFollows
    <2>2. row[g] = "active"
      BY <1>3, <2>1 DEF Status
    <2>3. rowSl[g] # None => sl > rowSl[g]
      <3>1. rowSl[g] # None => groupSl[g] # None /\ rowSl[g] <= groupSl[g]
        BY <1>1 DEF IInv, RowStopNeverAhead
      <3>2. groupSl[g] = None \/ sl > groupSl[g]
        BY <1>1 DEF Better
      <3>3. QED BY <2>1, <3>1, <3>2 DEF Stop
    <2>4. Recorded!Tighten(g)
      BY <1>1, <1>3, <2>1, <2>2, <2>3 DEF Recorded!Tighten
    <2>5. QED BY <2>4 DEF Recorded!Next
  <1>4. QED BY <1>1, <1>2, <1>3

\* Active rows that are completed together, with nothing else changed.
LEMMA CompleteRefines ==
    ASSUME TypeOK, NEW gs \in SUBSET Groups, \A g \in gs : row[g] = "active",
           \A g \in Groups : row'[g] = IF g \in gs THEN "completed" ELSE row[g],
           row' = [g \in Groups |-> row'[g]], UNCHANGED <<rowTickets, rowSl>>
    PROVE  RecordSteps
  <1> USE DEF Recorded!record, RecordSteps
  <1>1. CASE gs = {}
    BY <1>1 DEF TypeOK
  <1>2. CASE gs # {}
    <2>1. Recorded!Complete(gs)
      BY <1>2 DEF Recorded!Complete
    <2>2. QED BY <2>1 DEF Recorded!Next
  <1>3. QED BY <1>1, <1>2

LEMMA PollEndRefines ==
    ASSUME IInv, PollEnd
    PROVE  RecordSteps
  <1>1. PICK lost \in SUBSET {g \in Groups : Over(g)} :
            row' = [g \in Groups |->
                IF g \in {h \in Groups : Over(h)} \ lost /\ row[g] # "none"
                THEN "completed" ELSE row[g]]
    BY DEF PollEnd
  <1> DEFINE gs == {g \in Groups : Over(g) /\ g \notin lost /\ row[g] # "none"}
  <1>2. \A g \in gs : row[g] = "active"
    BY DEF IInv, TypeOK, Status, TableFollows, Over
  <1>3. \A g \in Groups : row'[g] = IF g \in gs THEN "completed" ELSE row[g]
    BY <1>1
  <1>4. row' = [g \in Groups |-> row'[g]]
    BY <1>1
  <1>5. TypeOK /\ UNCHANGED <<rowTickets, rowSl>> /\ gs \in SUBSET Groups
    BY DEF IInv, PollEnd
  <1> HIDE DEF gs
  <1>6. QED BY ONLY <1>2, <1>3, <1>4, <1>5, CompleteRefines

LEMMA CancelPendingRefines ==
    ASSUME IInv, CancelPending
    PROVE  RecordSteps
  <1>1. TypeOK /\ sig \in Groups /\ Kept(sig) \in SUBSET Tickets
    BY DEF IInv, CancelPending, Working, TypeOK, Kept, OpenOf
  <1>2. CASE UNCHANGED table
    BY <1>2 DEF table, Recorded!record, RecordSteps
  <1>3. CASE RowTickets(sig, Kept(sig))
    BY <1>1, <1>3, RowTicketsRefines
  <1>4. CASE /\ group[sig] = "active" /\ UNCHANGED <<rowTickets, rowSl>>
             /\ row' = [row EXCEPT ![sig] = IF @ = "none" THEN @ ELSE "completed"]
    <2> DEFINE gs == {g \in {sig} : row[g] # "none"}
    <2>1. \A g \in gs : row[g] = "active"
      BY <1>1, <1>4 DEF IInv, TypeOK, Status, TableFollows
    <2>2. \A g \in Groups : row'[g] = IF g \in gs THEN "completed" ELSE row[g]
      BY <1>4 DEF IInv, TypeOK
    <2>3. row' = [g \in Groups |-> row'[g]]
      BY <1>1, <1>4 DEF TypeOK
    <2>4. gs \in SUBSET Groups
      BY <1>1
    <2> HIDE DEF gs
    <2>5. QED BY ONLY <1>1, <1>4, <2>1, <2>2, <2>3, <2>4, CompleteRefines
  <1>5. QED BY <1>2, <1>3, <1>4 DEF CancelPending, Commits

LEMMA RestartRefines ==
    ASSUME IInv, Restart
    PROVE  RecordSteps
  <1> DEFINE stale == {g \in Groups : row[g] = "active" /\ ~Restored(g)}
  <1>1. PICK lost \in SUBSET stale :
            row' = [g \in Groups |-> IF g \in stale \ lost THEN "completed" ELSE row[g]]
    BY DEF Restart
  <1> DEFINE gs == stale \ lost
  <1>2. \A g \in gs : row[g] = "active"
    OBVIOUS
  <1>3. \A g \in Groups : row'[g] = IF g \in gs THEN "completed" ELSE row[g]
    BY <1>1
  <1>4. row' = [g \in Groups |-> row'[g]]
    BY <1>1
  <1>5. TypeOK /\ UNCHANGED <<rowTickets, rowSl>> /\ gs \in SUBSET Groups
    BY DEF IInv, Restart
  <1> HIDE DEF gs
  <1>6. QED BY ONLY <1>2, <1>3, <1>4, <1>5, CompleteRefines

LEMMA StepRefines ==
    ASSUME IInv, [Next]_vars
    PROVE  RecordSteps
  <1>1. CASE UNCHANGED table
    BY <1>1 DEF table, Recorded!record, RecordSteps
  <1>2. Quiet \/ RecordEntry \/ RecordReentry \/ Cleanup \/ Crash => UNCHANGED table
    BY DEF Quiet, RecordEntry, RecordReentry, Record, Cleanup, Crash, table
  <1>3. QED
    BY <1>1, <1>2, RegisterRefines, JoinRefines, StopMovedRefines, PollEndRefines,
       CancelPendingRefines, RestartRefines, StepKinds DEF Regroups, IInv

-----------------------------------------------------------------------------
(* Theorems                                                                *)

\* The inductive invariant holds in every state of PositionManager, whatever
\* the settings of the channels and however many signals and orders there are.
THEOREM Invariant == Spec => []IInv
  <1>1. Init => IInv
    BY Initially
  <1>2. IInv /\ [Next]_vars => IInv'
    BY InvariantNext
  <1>3. QED BY <1>1, <1>2, PTL DEF Spec

\* The state stays well typed: a stop is a number or none, a volume is not
\* negative, and an order of a group is one the broker knows.
THEOREM TypeCorrect == Spec => []TypeOK
  <1>1. IInv => TypeOK
    BY DEF IInv
  <1>2. QED BY <1>1, Invariant, PTL

\* PositionManager's two maps, _groups and _ticket_to_group, agree about the
\* orders of every active group, after every handler, kill and restart.
THEOREM RoutesAlwaysAgree == Spec => []RoutesAgree
  <1>1. IInv => RoutesAgree
    BY DEF IInv
  <1>2. QED BY <1>1, Invariant, PTL

\* As long as no commit fails, signal_groups holds what a restart needs: the
\* active groups of the registry, their orders and their stops.
THEOREM TableAlwaysMatches == Spec => []TableMatchesGroups
  <1>1. IInv => TableMatchesGroups
    BY DEF IInv, TableFollows, TableMatchesGroups
  <1>2. QED BY <1>1, Invariant, PTL

\* However many commits of _modify_group_sl fail, the stop that
\* _restore_groups_from_db reads is not ahead of the one that was applied.
THEOREM RowStopIsNeverAhead == Spec => []RowStopNeverAhead
  <1>1. IInv => RowStopNeverAhead
    BY DEF IInv
  <1>2. QED BY <1>1, Invariant, PTL

\* Until the process is killed, register_group, add_order_to_group and
\* cancel_group_pending_orders lose no order of an active group that has not
\* ended, except one whose cancellation the broker refused.
THEOREM NoOrderStrays == Spec => []NoStrays
  <1>1. IInv => NoStrays
    <2> SUFFICES ASSUME IInv, at = "idle", crashes = 0, NEW g \in Groups, NEW t \in Tickets,
                        group[g] = "active", owner[t] = g, order[t] \in {"pending", "open"}
                 PROVE  t \in tickets[g] \cup letGo
      BY DEF NoStrays
    <2>1. t \in tickets[g] \cup letGo \cup (IF at = "join" THEN fresh ELSE {})
      BY DEF IInv, NoneLost, Alive
    <2>2. QED BY <2>1
  <1>2. QED BY <1>1, Invariant, PTL

\* The table signal_groups implements the record of groups, across replies,
\* re-entries, kills, restarts and failed commits: a group is created once and
\* with orders, a completed one is never active again, and the stop of an
\* active one only rises.
THEOREM Refinement == Spec => DurableGroup
  <1>1. Init => Recorded!Init
    BY DEF Init, Recorded!Init
  <1>2. IInv /\ [Next]_vars => [Recorded!Next]_(Recorded!record)
    BY StepRefines DEF RecordSteps
  <1>3. QED BY <1>1, <1>2, Invariant, PTL DEF Spec, DurableGroup, Recorded!Spec
=============================================================================
