--------------------------- MODULE PipelineProofs ---------------------------
(***************************************************************************)
(* Proofs about what the pipeline sends: how the circuit breaker that it   *)
(* asks reacts to the results (CircuitBreaker), and what the plans of a    *)
(* signal open together (EntryPlans), for every value of the constants.    *)
(*                                                                         *)
(* The argument for SpillBounded: the breaker opens at an order of a call, *)
(* so at most MaxPlans - 1 orders of the call are left, and each order     *)
(* sent while it is open is one of them (SpillInv); a call that starts     *)
(* while it is open has no order to send.                                  *)
(*                                                                         *)
(* The argument for SentBounded: an order belongs to one plan, and a plan  *)
(* that was executed has no second one (OnePerPlan).  In an equal split    *)
(* every plan that leaves the pending ones takes at most the part that     *)
(* belongs to their number, which no other plan leaves behind              *)
(* (EqualSoFar).  The argument for NeverShrinks: the levels that are       *)
(* pending are a selection of those of the signal, in the same order (At), *)
(* and a split among a selection gives each at least as much (SplitGrows). *)
(***************************************************************************)
EXTENDS CircuitBreaker, EntryPlans, SequenceTheorems, FiniteSetTheorems,
        WellFoundedInduction, TLAPS

-----------------------------------------------------------------------------
(* The breaker                                                             *)

\* Orders sent during the pause and orders still to send.
SpillInv == state = "OPEN" => spill + left <= MaxPlans - 1

\* A closed breaker has counted less than Threshold failures, and it counts
\* the failures of the recorded streak.
CountInv ==
    /\ state = "CLOSED" => failures < Threshold
    /\ recorded = IF failures < Threshold THEN failures ELSE Threshold

BreakerIInv == TypeOK /\ SpillInv /\ PauseNotProlonged /\ CountInv

LEMMA BreakerInitInv == Init => BreakerIInv
BY BreakerAssumption
   DEF Init, BreakerIInv, TypeOK, SpillInv, PauseNotProlonged, CountInv, States, Modes

LEMMA BreakerNextInv == BreakerIInv /\ [Next]_vars => BreakerIInv'
<1> SUFFICES ASSUME BreakerIInv, [Next]_vars PROVE BreakerIInv'
  OBVIOUS
<1> USE BreakerAssumption
    DEF BreakerIInv, TypeOK, SpillInv, PauseNotProlonged, CountInv, States, Modes,
        breaker, call
<1>1. ASSUME NEW m \in Modes, Start(m) PROVE BreakerIInv'
  <2>1. left' \in 0..MaxPlans /\ (~Allowed => left' = 0)
    BY <1>1 DEF Start
  <2>2. CASE Cooled
    BY <1>1, <2>1, <2>2 DEF Start, Cooled, Transition
  <2>3. CASE ~Cooled
    BY <1>1, <2>1, <2>3 DEF Start, Cooled, Allowed, Stay
  <2> QED
    BY <2>2, <2>3
<1>2. ASSUME NEW ok \in BOOLEAN, Send(ok) PROVE BreakerIInv'
  <2>1. CASE mode = "single"
    BY <1>2, <2>1 DEF Send, Extended
  <2>2. CASE mode # "single" /\ ok
    BY <1>2, <2>2 DEF Send, Extended, RecordSuccess, Transition, Stay
  <2>3. CASE mode # "single" /\ ~ok
    BY <1>2, <2>3 DEF Send, Extended, RecordFailure, Transition, Stay
  <2> QED
    BY <2>1, <2>2, <2>3
<1>3. CASE Tick
  BY <1>3 DEF Tick
<1>4. CASE Restart
  BY <1>4 DEF Restart
<1>5. CASE UNCHANGED vars
  BY <1>5 DEF vars, history
<1> QED
  BY <1>1, <1>2, <1>3, <1>4, <1>5 DEF Next

\* The inductive invariant holds in every reachable state.
THEOREM BreakerInvariant == Spec => []BreakerIInv
BY BreakerInitInv, BreakerNextInv, PTL DEF Spec

\* The orders that go out during a pause are the rest of one call.
THEOREM SpillIsBounded == Spec => []SpillBounded
<1>1. BreakerIInv => SpillBounded
  BY BreakerAssumption DEF BreakerIInv, TypeOK, SpillInv, SpillBounded
<1> QED
  BY <1>1, BreakerInvariant, PTL

\* Nothing that is recorded during a pause prolongs it.
THEOREM PauseIsNotProlonged == Spec => []PauseNotProlonged
<1>1. BreakerIInv => PauseNotProlonged
  BY DEF BreakerIInv
<1> QED
  BY <1>1, BreakerInvariant, PTL

\* A closed breaker opens exactly at the end of a streak of Threshold recorded
\* failures.
THEOREM OpensOnStreak == Spec => OpensOnStreakOnly
<1> DEFINE Opening == (state = "CLOSED" /\ state' = "OPEN") <=>
                         (state = "CLOSED" /\ recorded' >= Threshold)
<1>1. BreakerIInv /\ [Next]_vars => [Opening]_vars
  <2> SUFFICES ASSUME BreakerIInv, Next, state = "CLOSED"
               PROVE  state' = "OPEN" <=> recorded' >= Threshold
    OBVIOUS
  <2> USE BreakerAssumption DEF BreakerIInv, TypeOK, CountInv, breaker, call
  <2>1. ASSUME NEW m \in Modes, Start(m)
        PROVE  state' = "OPEN" <=> recorded' >= Threshold
    BY <2>1 DEF Start, Cooled, Stay
  <2>2. ASSUME NEW ok \in BOOLEAN, Send(ok)
        PROVE  state' = "OPEN" <=> recorded' >= Threshold
    BY <2>2 DEF Send, Extended, RecordSuccess, RecordFailure, Transition, Stay
  <2>3. CASE Tick
    BY <2>3 DEF Tick
  <2>4. CASE Restart
    BY <2>4 DEF Restart
  <2> QED
    BY <2>1, <2>2, <2>3, <2>4 DEF Next
<1> QED
  BY <1>1, BreakerInvariant, PTL DEF Spec, OpensOnStreakOnly

-----------------------------------------------------------------------------
(* Sums over finite sets                                                   *)

\* Among finite sets there is one that has none of the others below it.
LEMMA MinimalSet ==
    ASSUME NEW F, F # {}, \A x \in F : IsFiniteSet(x)
    PROVE  \E x \in F : \A y \in F : y \subseteq x => y = x
  <1> DEFINE S == UNION F
  <1>1. F \subseteq FiniteSubsetsOf(S)
    BY DEF FiniteSubsetsOf
  <1>2. PICK x \in F : \A y \in F : <<y, x>> \notin StrictSubsetOrdering(S)
    BY <1>1, FS_StrictSubsetOrderingWellFounded, WFMin
  <1>3. QED BY <1>2 DEF StrictSubsetOrdering

\* The part of f on the set A, and its sum.
On(f, A) == [x \in A |-> f[x]]
SumOn(f, A) == Sum(On(f, A))

\* The element that a fold takes next.
Pick(s) == CHOOSE x \in s : TRUE

\* The equation of the fold over the subsets of A, and the function that the
\* fold chooses among those that satisfy it.
Solves(f, A, g) ==
    g = [s \in SUBSET A |-> IF s = {} THEN 0 ELSE f[Pick(s)] + g[s \ {Pick(s)}]]
Fold(f, A) == CHOOSE g : Solves(f, A, g)

\* What is picked is an element.
LEMMA PickIn == ASSUME NEW s, s # {} PROVE Pick(s) \in s
  BY DEF Pick

\* A sum is the fold, with the equation in a form that names its parts.
LEMMA SumIsFold ==
    ASSUME NEW f, NEW A
    PROVE  SumOn(f, A) = Fold(f, A)[A]
  <1> DEFINE h == On(f, A)
             body(k, g) == [s \in SUBSET A |->
                 IF s = {} THEN 0 ELSE k[Pick(s)] + g[s \ {Pick(s)}]]
  <1>1. DOMAIN h = A
    BY DEF On
  <1>2. SumOn(f, A) = (CHOOSE g : g = body(h, g))[A]
    <2>1. Sum(h) = (CHOOSE g : g = [s \in SUBSET DOMAIN h |->
                 IF s = {} THEN 0 ELSE h[Pick(s)] + g[s \ {Pick(s)}]])[DOMAIN h]
      BY DEF Sum, FoldFunction, FoldFunctionOnSet, MapThenFoldSet, Pick
    <2>2. QED BY <1>1, <2>1 DEF SumOn
  <1>3. ASSUME NEW g PROVE body(h, g) = body(f, g)
    <2>1. ASSUME NEW s \in SUBSET A, s # {} PROVE h[Pick(s)] = f[Pick(s)]
      BY <2>1, PickIn DEF On
    <2>2. QED BY <2>1
  <1>4. \A g : (g = body(h, g)) <=> Solves(f, A, g)
    BY <1>3 DEF Solves
  <1>5. (CHOOSE g : g = body(h, g)) = Fold(f, A)
    BY <1>4 DEF Fold
  <1>6. QED BY <1>2, <1>5

\* Two solutions agree where both are defined.
LEMMA FoldUnique ==
    ASSUME NEW f, NEW A, NEW B, NEW g, NEW h, IsFiniteSet(A), B \subseteq A,
           Solves(f, A, g), Solves(f, B, h)
    PROVE  \A s \in SUBSET B : g[s] = h[s]
  <1> DEFINE F == {s \in SUBSET B : g[s] # h[s]}
  <1> SUFFICES ASSUME F # {} PROVE FALSE
    OBVIOUS
  <1>1. \A x \in F : IsFiniteSet(x)
    BY FS_Subset
  <1>2. PICK x \in F : \A y \in F : y \subseteq x => y = x
    <2> HIDE DEF F
    <2> QED BY <1>1, MinimalSet
  <1>3. x # {}
    BY DEF Solves
  <1>4. Pick(x) \in x
    BY <1>3, PickIn
  <1>5. g[x \ {Pick(x)}] = h[x \ {Pick(x)}]
    BY <1>2, <1>4
  <1>6. x \in SUBSET A /\ x \in SUBSET B
    OBVIOUS
  <1>7. g[x] = f[Pick(x)] + g[x \ {Pick(x)}] /\ h[x] = f[Pick(x)] + h[x \ {Pick(x)}]
    BY <1>3, <1>6 DEF Solves
  <1>8. QED BY <1>5, <1>7

\* The equation has a solution on every finite set.
LEMMA FoldExists ==
    ASSUME NEW f, NEW A, IsFiniteSet(A)
    PROVE  Solves(f, A, Fold(f, A))
  <1> DEFINE F == {B \in SUBSET A : ~Solves(f, B, Fold(f, B))}
  <1> SUFFICES ASSUME F # {} PROVE FALSE
    OBVIOUS
  <1>1. \A x \in F : IsFiniteSet(x)
    BY FS_Subset
  <1>2. PICK B \in F : \A y \in F : y \subseteq B => y = B
    <2> HIDE DEF F
    <2> QED BY <1>1, MinimalSet
  <1> DEFINE V(s) == Fold(f, s)[s]
             h == [s \in SUBSET B |->
                      IF s = {} THEN 0 ELSE f[Pick(s)] + V(s \ {Pick(s)})]
  <1>3. ASSUME NEW t \in SUBSET B, t # B PROVE h[t] = V(t)
    <2>1. Solves(f, t, Fold(f, t))
      BY <1>2, <1>3
    <2>2. CASE t = {}
      BY <2>1, <2>2 DEF Solves
    <2>3. CASE t # {}
      <3> DEFINE u == t \ {Pick(t)}
      <3>1. Pick(t) \in t
        BY <2>3, PickIn
      <3>2. Solves(f, u, Fold(f, u))
        BY <1>2, <1>3, <3>1
      <3>3. IsFiniteSet(t) /\ u \subseteq t
        BY FS_Subset, <1>1, <1>2
      <3>4. Fold(f, t)[u] = V(u)
        <4> HIDE DEF u
        <4> QED BY FoldUnique, <2>1, <3>2, <3>3
      <3>5. t \in SUBSET t
        OBVIOUS
      <3>6. V(t) = f[Pick(t)] + Fold(f, t)[u]
        BY <2>1, <2>3, <3>5 DEF Solves
      <3>7. h[t] = f[Pick(t)] + V(u)
        BY <2>3
      <3>8. QED BY <3>4, <3>6, <3>7
    <2>4. QED BY <2>2, <2>3
  <1>4. ASSUME NEW s \in SUBSET B, s # {} PROVE V(s \ {Pick(s)}) = h[s \ {Pick(s)}]
    <2>1. Pick(s) \in s
      BY <1>4, PickIn
    <2>2. s \ {Pick(s)} \in SUBSET B /\ s \ {Pick(s)} # B
      BY <2>1
    <2> HIDE DEF h, V
    <2>3. QED BY <1>3, <2>2
  <1>5. Solves(f, B, h)
    <2> HIDE DEF V
    <2>1. h = [s \in SUBSET B |-> IF s = {} THEN 0 ELSE f[Pick(s)] + h[s \ {Pick(s)}]]
      BY <1>4
    <2> HIDE DEF h
    <2>2. QED BY <2>1 DEF Solves
  <1>6. Solves(f, B, Fold(f, B))
    <2> HIDE DEF h
    <2> QED BY <1>5 DEF Fold
  <1>7. QED BY <1>2, <1>6

\* The sum of a set is the element picked first and the sum of the rest.
LEMMA SumOnEquation ==
    ASSUME NEW f, NEW A, IsFiniteSet(A)
    PROVE  /\ A = {} => SumOn(f, A) = 0
           /\ A # {} => SumOn(f, A) = f[Pick(A)] + SumOn(f, A \ {Pick(A)})
  <1> DEFINE B == A \ {Pick(A)}
  <1>1. Solves(f, A, Fold(f, A))
    BY FoldExists
  <1>2. IsFiniteSet(B) /\ B \subseteq A
    BY FS_Subset
  <1>3. Solves(f, B, Fold(f, B))
    <2> HIDE DEF B
    <2> QED BY <1>2, FoldExists
  <1>4. Fold(f, A)[B] = Fold(f, B)[B]
    <2> HIDE DEF B
    <2> QED BY <1>1, <1>2, <1>3, FoldUnique
  <1>5. Fold(f, A)[A] = IF A = {} THEN 0 ELSE f[Pick(A)] + Fold(f, A)[B]
    <2>1. A \in SUBSET A
      OBVIOUS
    <2>2. QED BY <1>1, <2>1 DEF Solves
  <1>6. SumOn(f, A) = Fold(f, A)[A] /\ SumOn(f, B) = Fold(f, B)[B]
    BY SumIsFold
  <1>7. QED BY <1>4, <1>5, <1>6

\* Sums of natural numbers are natural numbers.
LEMMA SumOnType ==
    ASSUME NEW f, NEW A, IsFiniteSet(A), \A x \in A : f[x] \in Nat
    PROVE  SumOn(f, A) \in Nat
  <1> DEFINE F == {B \in SUBSET A : SumOn(f, B) \notin Nat}
  <1> SUFFICES ASSUME F # {} PROVE FALSE
    OBVIOUS
  <1>1. \A x \in F : IsFiniteSet(x)
    BY FS_Subset
  <1>2. PICK B \in F : \A y \in F : y \subseteq B => y = B
    <2> HIDE DEF F
    <2> QED BY <1>1, MinimalSet
  <1>3. IsFiniteSet(B)
    BY <1>1, <1>2
  <1>4. B # {}
    <2>1. B = {} => SumOn(f, B) = 0
      BY ONLY <1>3, SumOnEquation
    <2>2. QED BY <2>1
  <1>5. Pick(B) \in B
    BY <1>4, PickIn
  <1>6. SumOn(f, B \ {Pick(B)}) \in Nat
    BY <1>2, <1>5
  <1>7. f[Pick(B)] \in Nat
    BY <1>5
  <1>8. QED BY <1>3, <1>4, <1>6, <1>7, SumOnEquation

\* Any element may be taken first.
LEMMA SumOnElement ==
    ASSUME NEW f, NEW A, IsFiniteSet(A), \A x \in A : f[x] \in Nat, NEW a \in A
    PROVE  SumOn(f, A) = f[a] + SumOn(f, A \ {a})
  <1> DEFINE F == {B \in SUBSET A : \E b \in B : SumOn(f, B) # f[b] + SumOn(f, B \ {b})}
  <1> SUFFICES ASSUME F # {} PROVE FALSE
    OBVIOUS
  <1>1. \A x \in F : IsFiniteSet(x)
    BY FS_Subset
  <1>2. PICK B \in F : \A y \in F : y \subseteq B => y = B
    <2> HIDE DEF F
    <2> QED BY <1>1, MinimalSet
  <1>3. PICK b \in B : SumOn(f, B) # f[b] + SumOn(f, B \ {b})
    BY <1>2
  <1>4. IsFiniteSet(B) /\ IsFiniteSet(B \ {b})
    BY <1>1, <1>2, FS_Subset
  <1> DEFINE p == Pick(B)
             both == B \ {b, p}
  <1>5. p \in B
    BY <1>3, PickIn
  <1>6. SumOn(f, B) = f[p] + SumOn(f, B \ {p})
    BY <1>3, <1>4, SumOnEquation
  <1>7. p # b
    BY <1>3, <1>6
  <1> HIDE DEF p
  <1>8. B \ {p} \notin F
    BY <1>2, <1>5
  <1>9. SumOn(f, B \ {p}) = f[b] + SumOn(f, both)
    <2>1. b \in B \ {p} /\ (B \ {p}) \ {b} = both
      BY <1>7
    <2>2. QED BY <1>8, <2>1
  <1>10. B \ {b} \notin F
    BY <1>2
  <1>11. SumOn(f, B \ {b}) = f[p] + SumOn(f, both)
    <2>1. p \in B \ {b} /\ (B \ {b}) \ {p} = both
      BY <1>5, <1>7
    <2>2. QED BY <1>10, <2>1
  <1>12. f[p] \in Nat /\ f[b] \in Nat /\ SumOn(f, both) \in Nat
    <2>1. IsFiniteSet(both)
      BY <1>4, FS_Subset
    <2>2. QED BY <1>5, <2>1, SumOnType
  <1>13. QED BY <1>3, <1>6, <1>9, <1>11, <1>12

\* A sum depends on the values of the function on the set alone.
LEMMA SumOnAgrees ==
    ASSUME NEW f, NEW g, NEW A, \A x \in A : f[x] = g[x]
    PROVE  SumOn(f, A) = SumOn(g, A)
  <1>1. On(f, A) = On(g, A)
    BY DEF On
  <1>2. QED BY <1>1 DEF SumOn

\* The sum of a function is that on its domain.
LEMMA SumIsSumOn ==
    ASSUME NEW A, NEW T, NEW f \in [A -> T]
    PROVE  Sum(f) = SumOn(f, A)
  <1>1. On(f, A) = f
    BY DEF On
  <1>2. QED BY <1>1 DEF SumOn

\* No element exceeds the sum.
LEMMA SumOnElementBound ==
    ASSUME NEW f, NEW A, IsFiniteSet(A), \A x \in A : f[x] \in Nat, NEW a \in A
    PROVE  f[a] <= SumOn(f, A) /\ SumOn(f, A) \in Nat
  <1>1. IsFiniteSet(A \ {a})
    BY FS_Subset
  <1>2. SumOn(f, A \ {a}) \in Nat
    BY <1>1, SumOnType
  <1>3. SumOn(f, A) = f[a] + SumOn(f, A \ {a})
    BY SumOnElement
  <1>4. f[a] \in Nat
    OBVIOUS
  <1>5. QED BY <1>2, <1>3, <1>4

\* One element more.
LEMMA SumOnAdd ==
    ASSUME NEW f, NEW A, IsFiniteSet(A), NEW a, a \notin A,
           \A x \in A \cup {a} : f[x] \in Nat
    PROVE  SumOn(f, A \cup {a}) = f[a] + SumOn(f, A)
  <1>1. IsFiniteSet(A \cup {a}) /\ (A \cup {a}) \ {a} = A
    BY FS_AddElement
  <1>2. SumOn(f, A \cup {a}) = f[a] + SumOn(f, (A \cup {a}) \ {a})
    BY <1>1, SumOnElement
  <1>3. QED BY <1>1, <1>2

\* Where g, element by element, is at most f at different elements, so is its
\* sum.
LEMMA SumOnInjection ==
    ASSUME NEW S, NEW T, IsFiniteSet(S), IsFiniteSet(T),
           NEW f, \A y \in T : f[y] \in Nat,
           NEW g, \A x \in S : g[x] \in Nat,
           NEW b, \A x \in S : b[x] \in T /\ g[x] <= f[b[x]],
           \A x, y \in S : b[x] = b[y] => x = y
    PROVE  SumOn(g, S) <= SumOn(f, T)
  <1> DEFINE Bounded(A) == \A U \in SUBSET T :
                 (\A x \in A : b[x] \in U) => SumOn(g, A) <= SumOn(f, U)
             F == {A \in SUBSET S : ~Bounded(A)}
  <1>a. SUFFICES F = {}
    <2>1. Bounded(S)
      BY <1>a
    <2>2. QED BY <2>1
  <1> SUFFICES ASSUME F # {} PROVE FALSE
    OBVIOUS
  <1>1. \A x \in F : IsFiniteSet(x)
    BY FS_Subset
  <1>2. PICK A \in F : \A y \in F : y \subseteq A => y = A
    <2> HIDE DEF F
    <2> QED BY <1>1, MinimalSet
  <1>3. PICK U \in SUBSET T : (\A x \in A : b[x] \in U) /\ ~(SumOn(g, A) <= SumOn(f, U))
    BY <1>2
  <1>4. IsFiniteSet(A) /\ IsFiniteSet(U) /\ A \subseteq S
    BY <1>1, <1>2, FS_Subset
  <1>5. SumOn(f, U) \in Nat
    BY <1>4, SumOnType
  <1>6. A # {}
    <2>1. A = {} => SumOn(g, A) = 0
      BY ONLY <1>4, SumOnEquation
    <2>2. QED BY <2>1, <1>3, <1>5
  <1>7. PICK a \in A : TRUE
    BY <1>6
  <1> DEFINE B == A \ {a}
             W == U \ {b[a]}
  <1>8. SumOn(g, A) = g[a] + SumOn(g, B)
    BY <1>4, SumOnElement
  <1>9. SumOn(f, U) = f[b[a]] + SumOn(f, W)
    <2>1. b[a] \in U /\ \A x \in U : f[x] \in Nat
      BY <1>3
    <2>2. QED BY <1>4, <2>1, SumOnElement
  <1>10. SumOn(g, B) <= SumOn(f, W)
    <2>1. Bounded(B)
      BY <1>2, <1>7
    <2>2. \A x \in B : b[x] \in W
      BY <1>3, <1>4, <1>7
    <2>3. W \in SUBSET T
      OBVIOUS
    <2> HIDE DEF B, W
    <2>4. QED BY <2>1, <2>2, <2>3
  <1>11. g[a] \in Nat /\ f[b[a]] \in Nat /\ g[a] <= f[b[a]]
    BY <1>4, <1>7
  <1>12. SumOn(g, B) \in Nat /\ SumOn(f, W) \in Nat
    <2>1. IsFiniteSet(B) /\ IsFiniteSet(W)
      BY <1>4, FS_Subset
    <2>2. QED BY <1>4, <2>1, SumOnType
  <1> HIDE DEF B, W
  <1>13. QED BY <1>3, <1>8, <1>9, <1>10, <1>11, <1>12

\* The sum of equal values.
LEMMA SumOnConstant ==
    ASSUME NEW S, IsFiniteSet(S), NEW c \in Nat, NEW f, \A x \in S : f[x] = c
    PROVE  SumOn(f, S) = Cardinality(S) * c
  <1> DEFINE F == {A \in SUBSET S : SumOn(f, A) # Cardinality(A) * c}
  <1> SUFFICES ASSUME F # {} PROVE FALSE
    OBVIOUS
  <1>1. \A x \in F : IsFiniteSet(x)
    BY FS_Subset
  <1>2. PICK A \in F : \A y \in F : y \subseteq A => y = A
    <2> HIDE DEF F
    <2> QED BY <1>1, MinimalSet
  <1>3. IsFiniteSet(A) /\ A \subseteq S
    BY <1>1, <1>2
  <1>4. A # {}
    <2>1. A = {} => SumOn(f, A) = 0
      BY ONLY <1>3, SumOnEquation
    <2>2. Cardinality({}) * c = 0
      BY FS_EmptySet
    <2>3. QED BY <1>2, <2>1, <2>2
  <1>5. PICK a \in A : TRUE
    BY <1>4
  <1>6. SumOn(f, A) = f[a] + SumOn(f, A \ {a})
    BY <1>3, SumOnElement
  <1>7. SumOn(f, A \ {a}) = Cardinality(A \ {a}) * c
    BY <1>2, <1>5
  <1>8. Cardinality(A \ {a}) = Cardinality(A) - 1 /\ Cardinality(A) \in Nat
    BY <1>3, <1>5, FS_RemoveElement, FS_CardinalityType
  <1>9. f[a] = c
    BY <1>3, <1>5
  <1>10. c + (Cardinality(A) - 1) * c = Cardinality(A) * c
    BY <1>8
  <1>11. QED BY <1>2, <1>6, <1>7, <1>8, <1>9, <1>10

-----------------------------------------------------------------------------
(* Levels and shares                                                       *)

\* A part of a whole is at most the whole.
LEMMA QuotientBound ==
    ASSUME NEW a \in Nat, NEW b \in Nat, NEW c \in Nat \ {0}, b <= c
    PROVE  (a * b) \div c \in Nat /\ (a * b) \div c <= a
  <1>1. a * b \in Nat /\ a * b <= c * a
    OBVIOUS
  <1>2. \A m \in Nat : m <= c * a => m \div c \in Nat /\ m \div c <= a
    OBVIOUS
  <1>3. QED BY <1>1, <1>2

\* A larger part of a smaller whole.
LEMMA QuotientGrows ==
    ASSUME NEW v \in Nat, NEW a \in Nat, NEW b \in Nat, a <= b,
           NEW c \in Nat \ {0}, NEW d \in Nat \ {0}, c <= d
    PROVE  (v * a) \div d <= (v * b) \div c
  <1>1. v * a \in Nat /\ v * b \in Nat /\ v * a <= v * b
    OBVIOUS
  <1>2. \A x, y \in Nat : x <= y => x \div d <= y \div c
    OBVIOUS
  <1>3. QED BY <1>1, <1>2

\* A signal has levels, and they are prices.
LEMMA LevelsType ==
    ASSUME NEW s \in Signals, NEW c \in Channels, NEW ref \in Int
    PROVE  Levels(s, c, ref) \in Seq(Int) /\ Levels(s, c, ref) # <<>>
  <1> DEFINE n == Smaller(c.entries, HardCap)
             steps(from) == [i \in 1..n |-> from + Deeper(s.side) * (i - 1) * c.step]
             first == IF s.side = "BUY" THEN s.zone[2] ELSE s.zone[1]
             width == s.zone[2] - s.zone[1]
             even == [i \in 1..n |->
                        first + Deeper(s.side) * Nearest((i - 1) * width, n - 1)]
  <1>1. n \in Int /\ Deeper(s.side) \in Int /\ c.step \in Int
    BY PlansAssumption DEF Smaller, HardCap, Deeper
  <1>2. Entry(s, ref) \in Int
    BY PlansAssumption, ElementOfSeq, EmptySeq DEF Entry
  <1> HIDE DEF n
  <1>3. ASSUME NEW from \in Int, n > 1
        PROVE  steps(from) \in Seq(Int) /\ steps(from) # <<>>
    <2>1. \A i \in 1..n : from + Deeper(s.side) * (i - 1) * c.step \in Int
      BY <1>1
    <2>2. QED BY <1>1, <1>3, <2>1, IsASeq
  <1>4. CASE c.mode = "range" /\ s.zone # <<>> /\ n > 1
    <2>1. s.zone[1] \in Int /\ s.zone[2] \in Int
      BY <1>4, PlansAssumption
    <2>2. first \in Int /\ width \in Int
      BY <2>1
    <2>3. CASE c.step > 0
      BY <1>3, <1>4, <2>2, <2>3 DEF Levels, n
    <2>4. CASE ~(c.step > 0)
      <3> HIDE DEF first, width
      <3>1. ASSUME NEW i \in 1..n PROVE even[i] \in Int
        <4>1. (i - 1) * width \in Int
          BY <1>1, <2>2
        <4>2. \A a \in Int : Nearest(a, n - 1) \in Int
          BY <1>1, <1>4 DEF Nearest
        <4>3. \A a, b, d \in Int : a + b * d \in Int
          OBVIOUS
        <4> HIDE DEF n
        <4>4. QED BY <1>1, <2>2, <4>1, <4>2, <4>3
      <3>2. even \in Seq(Int) /\ even # <<>>
        BY <1>1, <1>4, <3>1, IsASeq
      <3>3. Levels(s, c, ref) = even
        BY <1>4, <2>4 DEF Levels, n, first, width
      <3>4. QED BY <3>2, <3>3
    <2>5. QED BY <2>3, <2>4
  <1>5. CASE ~(c.mode = "range" /\ s.zone # <<>> /\ n > 1)
             /\ c.mode = "scale_in" /\ n > 1 /\ c.step > 0
    <2>1. Levels(s, c, ref) = steps(Entry(s, ref))
      BY <1>5 DEF Levels, n
    <2>2. QED BY <1>2, <1>3, <1>5, <2>1
  <1>6. CASE /\ ~(c.mode = "range" /\ s.zone # <<>> /\ n > 1)
             /\ ~(c.mode = "scale_in" /\ n > 1 /\ c.step > 0)
    <2>1. Levels(s, c, ref) = <<Entry(s, ref)>>
      BY <1>6 DEF Levels, n
    <2>2. QED BY <1>2, <2>1
  <1>7. QED BY <1>4, <1>5, <1>6

Distances(levels, sl) == [i \in 1..Len(levels) |-> Abs(levels[i] - sl)]

\* The distances of levels from a stop.
LEMMA DistancesType ==
    ASSUME NEW levels \in Seq(Int), NEW sl \in Int
    PROVE  /\ Len(levels) \in Nat /\ IsFiniteSet(1..Len(levels))
           /\ Distances(levels, sl) \in [1..Len(levels) -> Nat]
           /\ Sum(Distances(levels, sl)) = SumOn(Distances(levels, sl), 1..Len(levels))
           /\ Sum(Distances(levels, sl)) \in Nat
  <1>1. Len(levels) \in Nat
    BY LenProperties
  <1>2. IsFiniteSet(1..Len(levels))
    BY <1>1, FS_Interval
  <1>3. \A i \in 1..Len(levels) : levels[i] \in Int
    BY ElementOfSeq
  <1>4. Distances(levels, sl) \in [1..Len(levels) -> Nat]
    BY <1>3 DEF Distances, Abs
  <1>5. Sum(Distances(levels, sl)) = SumOn(Distances(levels, sl), 1..Len(levels))
    BY <1>4, SumIsSumOn
  <1>6. QED BY <1>1, <1>2, <1>4, <1>5, SumOnType

\* The weights are natural numbers, some of them is positive.
LEMMA WeightsType ==
    ASSUME NEW levels \in Seq(Int), levels # <<>>, NEW sl \in Int, NEW split
    PROVE  /\ Weights(split, levels, sl) \in [1..Len(levels) -> Nat]
           /\ Sum(Weights(split, levels, sl)) = SumOn(Weights(split, levels, sl), 1..Len(levels))
           /\ Sum(Weights(split, levels, sl)) \in Nat \ {0}
           /\ \A i \in 1..Len(levels) :
                 Weights(split, levels, sl)[i] <= Sum(Weights(split, levels, sl))
  <1> DEFINE n == Len(levels)
             w == Weights(split, levels, sl)
  <1>1. n \in Nat \ {0} /\ IsFiniteSet(1..n)
    BY DistancesType, EmptySeq
  <1>2. w = CASE split = "pyramid" -> [i \in 1..n |-> n + 1 - i]
              [] split = "risk_based" /\ Sum(Distances(levels, sl)) > 0 -> Distances(levels, sl)
              [] OTHER -> [i \in 1..n |-> 1]
    BY DEF Weights, Distances
  <1> HIDE DEF w
  <1>3. w \in [1..n -> Nat]
    BY <1>1, <1>2, DistancesType
  <1>4. Sum(w) = SumOn(w, 1..n)
    BY <1>3, SumIsSumOn
  <1>5. Sum(w) \in Nat /\ \A i \in 1..n : w[i] <= Sum(w)
    BY <1>1, <1>3, <1>4, SumOnElementBound, SumOnType
  <1>6. Sum(w) # 0
    <2>1. CASE split = "risk_based" /\ Sum(Distances(levels, sl)) > 0
      BY <1>2, <2>1, DistancesType
    <2>2. CASE ~(split = "risk_based" /\ Sum(Distances(levels, sl)) > 0)
      <3>1. w[1] >= 1 /\ 1 \in 1..n
        BY <1>1, <1>2, <2>2
      <3>2. w[1] \in Nat /\ w[1] <= Sum(w)
        BY <1>3, <1>5, <3>1
      <3>3. QED BY <1>5, <3>1, <3>2
    <2>3. QED BY <2>1, <2>2
  <1>7. QED BY <1>3, <1>4, <1>5, <1>6 DEF w

Share(volume, split, levels, sl, i) ==
    IF split = "per_entry" THEN Larger(1, volume)
    ELSE Larger(1, (volume * Weights(split, levels, sl)[i]) \div Sum(Weights(split, levels, sl)))

\* The split, with its parts named.
LEMMA SplitIs ==
    ASSUME NEW volume \in Nat \ {0}, NEW levels \in Seq(Int), levels # <<>>,
           NEW sl \in Int, NEW split
    PROVE  /\ Len(levels) = 1 => SplitVolume(volume, split, levels, sl) = <<volume>>
           /\ Len(levels) # 1 => SplitVolume(volume, split, levels, sl) =
                 [i \in 1..Len(levels) |-> Share(volume, split, levels, sl, i)]
  <1>1. DOMAIN levels = 1..Len(levels)
    BY LenProperties
  <1>2. QED BY <1>1 DEF SplitVolume, Share

\* What one of several levels gets.
LEMMA ShareType ==
    ASSUME NEW volume \in Nat \ {0}, NEW levels \in Seq(Int), levels # <<>>,
           NEW sl \in Int, NEW split, NEW i \in 1..Len(levels)
    PROVE  Share(volume, split, levels, sl, i) \in 1..volume
  <1> DEFINE w == Weights(split, levels, sl)
  <1>1. w[i] \in Nat /\ Sum(w) \in Nat \ {0} /\ w[i] <= Sum(w)
    BY WeightsType
  <1> HIDE DEF w
  <1>2. (volume * w[i]) \div Sum(w) \in Nat /\ (volume * w[i]) \div Sum(w) <= volume
    BY <1>1, QuotientBound
  <1>3. QED BY <1>2 DEF Share, Larger, w

\* Every share is at least the smallest volume and at most the whole one.
LEMMA SplitType ==
    ASSUME NEW volume \in Nat \ {0}, NEW levels \in Seq(Int), levels # <<>>,
           NEW sl \in Int, NEW split, NEW i \in 1..Len(levels)
    PROVE  SplitVolume(volume, split, levels, sl)[i] \in 1..volume
  <1>1. CASE Len(levels) = 1
    BY <1>1, SplitIs
  <1>2. CASE Len(levels) # 1
    BY <1>2, SplitIs, ShareType
  <1>3. QED BY <1>1, <1>2

\* The equal split.
LEMMA SplitEqually ==
    ASSUME NEW volume \in Nat \ {0}, NEW levels \in Seq(Int), levels # <<>>,
           NEW sl \in Int, NEW i \in 1..Len(levels)
    PROVE  SplitVolume(volume, "equal", levels, sl)[i] = Larger(1, volume \div Len(levels))
  <1> DEFINE w == Weights("equal", levels, sl)
             n == Len(levels)
  <1>1. n \in Nat \ {0} /\ IsFiniteSet(1..n)
    BY DistancesType, EmptySeq
  <1>2. w = [k \in 1..n |-> 1]
    BY DEF Weights
  <1>3. Sum(w) = n
    <2>1. Sum(w) = SumOn(w, 1..n)
      BY WeightsType
    <2>2. \A k \in 1..n : w[k] = 1
      BY <1>2
    <2> HIDE DEF w, n
    <2>3. Cardinality(1..n) = n
      BY ONLY <1>1, FS_Interval
    <2>4. SumOn(w, 1..n) = Cardinality(1..n) * 1
      BY <1>1, <2>2, SumOnConstant
    <2>5. QED BY <1>1, <2>1, <2>3, <2>4
  <1>4. CASE n = 1
    <2>1. SplitVolume(volume, "equal", levels, sl)[i] = volume
      BY <1>4, SplitIs
    <2>2. QED BY <1>4, <2>1 DEF Larger
  <1>5. CASE n # 1
    <2>1. SplitVolume(volume, "equal", levels, sl)[i] = Share(volume, "equal", levels, sl, i)
      BY <1>5, SplitIs
    <2>2. w[i] = 1 /\ volume * 1 = volume
      BY <1>2
    <2>3. QED BY <1>3, <2>1, <2>2 DEF Share
  <1>6. QED BY <1>4, <1>5

\* The sums of a selection of the weights.
LEMMA SumOfFew ==
    ASSUME NEW p \in Nat, NEW n \in Nat, NEW at \in [1..p -> 1..n],
           \A j, k \in 1..p : at[j] = at[k] => j = k,
           NEW u \in [1..p -> Nat], NEW w \in [1..n -> Nat],
           \A j \in 1..p : u[j] <= w[at[j]]
    PROVE  SumOn(u, 1..p) <= SumOn(w, 1..n)
  <1>1. IsFiniteSet(1..p) /\ IsFiniteSet(1..n)
    BY FS_Interval
  <1>2. \A j \in 1..p : at[j] \in 1..n
    OBVIOUS
  <1>3. QED BY <1>1, <1>2, SumOnInjection

\* A selection is not longer.
LEMMA FewAreFewer ==
    ASSUME NEW p \in Nat, NEW n \in Nat, NEW at \in [1..p -> 1..n],
           \A j, k \in 1..p : at[j] = at[k] => j = k
    PROVE  p <= n
  <1>1. at \in Injection(1..p, 1..n)
    BY DEF Injection, IsInjective
  <1>2. IsFiniteSet(1..n) /\ Cardinality(1..p) = p /\ Cardinality(1..n) = n
    BY ONLY p \in Nat, n \in Nat, FS_Interval
  <1>3. Cardinality(1..p) <= Cardinality(1..n)
    BY <1>1, <1>2, FS_Injection
  <1>4. QED BY <1>2, <1>3

\* A larger weight in a smaller sum is a larger share.
LEMMA PartGrows ==
    ASSUME NEW volume \in Nat, NEW a \in Nat, NEW b \in Nat, a <= b,
           NEW c \in Nat \ {0}, NEW d \in Nat \ {0}, c <= d
    PROVE  Larger(1, (volume * b) \div c) >= Larger(1, (volume * a) \div d)
  <1>1. (volume * a) \div d <= (volume * b) \div c
    BY QuotientGrows
  <1>2. volume * a \in Nat /\ volume * b \in Nat
    OBVIOUS
  <1>3. (volume * a) \div d \in Int /\ (volume * b) \div c \in Int
    BY <1>2
  <1>4. QED BY <1>1, <1>3 DEF Larger

\* What one of a selection of the levels gets is not less than what it gets
\* among all.  With a pyramid it must be as far from the last.
LEMMA SplitGrows ==
    ASSUME NEW volume \in Nat \ {0}, NEW sl \in Int, NEW split,
           NEW levels \in Seq(Int), levels # <<>>,
           NEW few \in Seq(Int), few # <<>>,
           NEW at \in [1..Len(few) -> 1..Len(levels)],
           \A j, k \in 1..Len(few) : at[j] = at[k] => j = k,
           \A j \in 1..Len(few) : few[j] = levels[at[j]],
           NEW k \in 1..Len(few),
           split = "pyramid" => Len(few) - k = Len(levels) - at[k]
    PROVE  SplitVolume(volume, split, few, sl)[k] >= SplitVolume(volume, split, levels, sl)[at[k]]
  <1> DEFINE n == Len(levels)
             p == Len(few)
             i == at[k]
  <1>1. n \in Nat \ {0} /\ IsFiniteSet(1..n) /\ p \in Nat \ {0} /\ IsFiniteSet(1..p)
    BY DistancesType, EmptySeq
  <1>2. i \in 1..n
    OBVIOUS
  <1>3. p <= n
    BY <1>1, FewAreFewer
  <1>4. SplitVolume(volume, split, levels, sl)[i] \in 1..volume
    BY <1>2, SplitType
  <1>5. CASE p = 1
    <2>1. SplitVolume(volume, split, few, sl)[k] = volume
      BY <1>5, SplitIs
    <2>2. QED BY <1>4, <2>1
  <1>6. CASE p # 1
    <2> DEFINE u == Weights(split, few, sl)
               w == Weights(split, levels, sl)
    <2>1. /\ SplitVolume(volume, split, few, sl)[k] = Share(volume, split, few, sl, k)
          /\ SplitVolume(volume, split, levels, sl)[i] = Share(volume, split, levels, sl, i)
      <3>1. n # 1
        BY ONLY <1>1, <1>3, <1>6
      <3>2. QED BY <1>2, <1>6, <3>1, SplitIs
    <2>2. /\ u \in [1..p -> Nat] /\ Sum(u) = SumOn(u, 1..p) /\ Sum(u) \in Nat \ {0}
          /\ w \in [1..n -> Nat] /\ Sum(w) = SumOn(w, 1..n) /\ Sum(w) \in Nat \ {0}
      BY WeightsType
    <2> HIDE DEF u, w
    <2>3. ASSUME w[i] <= u[k], Sum(u) <= Sum(w)
          PROVE  SplitVolume(volume, split, few, sl)[k] >= SplitVolume(volume, split, levels, sl)[i]
      <3>1. w[i] \in Nat /\ u[k] \in Nat
        BY <1>2, <2>2
      <3>2. Larger(1, (volume * u[k]) \div Sum(u)) >= Larger(1, (volume * w[i]) \div Sum(w))
        BY ONLY <2>2, <2>3, <3>1, PartGrows, volume \in Nat
      <3>3. split # "per_entry" =>
               /\ Share(volume, split, few, sl, k) = Larger(1, (volume * u[k]) \div Sum(u))
               /\ Share(volume, split, levels, sl, i) = Larger(1, (volume * w[i]) \div Sum(w))
        BY DEF Share, u, w
      <3>4. split = "per_entry" =>
               /\ Share(volume, split, few, sl, k) = Larger(1, volume)
               /\ Share(volume, split, levels, sl, i) = Larger(1, volume)
        BY DEF Share
      <3>5. Larger(1, volume) \in Nat
        BY DEF Larger
      <3>6. Share(volume, split, few, sl, k) >= Share(volume, split, levels, sl, i)
        BY ONLY <3>2, <3>3, <3>4, <3>5
      <3>7. QED BY ONLY <2>1, <3>6
    <2>4. CASE split = "pyramid"
      <3>1. u = [j \in 1..p |-> p + 1 - j] /\ w = [j \in 1..n |-> n + 1 - j]
        BY <2>4 DEF Weights, u, w
      <3>2. w[i] = u[k]
        <4>1. p - k = n - i
          BY <2>4
        <4>2. w[i] = n + 1 - i /\ u[k] = p + 1 - k
          BY ONLY <1>2, <3>1, k \in 1..p
        <4> HIDE DEF n, p, i
        <4>3. QED BY ONLY <1>1, <1>2, <4>1, <4>2, k \in 1..p
      <3>3. SumOn(u, 1..p) <= SumOn(w, 1..n)
        <4> DEFINE b == [j \in 1..p |-> j + (n - p)]
        <4> HIDE DEF n, p
        <4>1. \A j \in 1..p : b[j] \in 1..n /\ u[j] <= w[b[j]]
          BY ONLY <1>1, <1>3, <3>1
        <4>2. \A j, l \in 1..p : b[j] = b[l] => j = l
          BY ONLY <1>1
        <4>3. b \in [1..p -> 1..n]
          BY ONLY <4>1
        <4> HIDE DEF b
        <4>4. QED BY ONLY <1>1, <2>2, <4>1, <4>2, <4>3, SumOfFew
      <3>4. w[i] <= u[k]
        <4>1. w[i] \in Nat
          BY ONLY <1>2, <2>2
        <4>2. QED BY ONLY <3>2, <4>1
      <3>5. QED BY <2>2, <2>3, <3>3, <3>4
    <2>5. CASE split = "risk_based"
      <3> DEFINE few0 == Distances(few, sl)
                 all0 == Distances(levels, sl)
      <3>1. /\ few0 \in [1..p -> Nat] /\ Sum(few0) = SumOn(few0, 1..p) /\ Sum(few0) \in Nat
            /\ all0 \in [1..n -> Nat] /\ Sum(all0) = SumOn(all0, 1..n) /\ Sum(all0) \in Nat
        BY DistancesType DEF few0, all0
      <3>2. \A j \in 1..p : few0[j] = all0[at[j]]
        BY DEF Distances, few0, all0
      <3> HIDE DEF few0, all0
      <3>3. SumOn(few0, 1..p) <= SumOn(all0, 1..n)
        <4>1. \A j \in 1..p : few0[j] <= all0[at[j]]
          BY ONLY <3>1, <3>2
        <4>2. at \in [1..p -> 1..n] /\ \A j, l \in 1..p : at[j] = at[l] => j = l
          OBVIOUS
        <4>3. QED BY ONLY <1>1, <3>1, <4>1, <4>2, SumOfFew
      <3>4. /\ u = IF Sum(few0) > 0 THEN few0 ELSE [j \in 1..p |-> 1]
            /\ w = IF Sum(all0) > 0 THEN all0 ELSE [j \in 1..n |-> 1]
        BY <2>5 DEF Weights, Distances, u, w, few0, all0
      <3>5. few0[k] = all0[i] /\ few0[k] \in Nat
        BY <3>1, <3>2
      <3>6. CASE Sum(few0) > 0
        BY <2>1, <2>2, <2>3, <3>1, <3>3, <3>4, <3>5, <3>6
      <3>7. CASE Sum(few0) = 0 /\ Sum(all0) > 0
        <4>1. few0[k] <= Sum(few0)
          <5>1. \A j \in 1..p : few0[j] \in Nat
            BY ONLY <3>1
          <5>2. few0[k] <= SumOn(few0, 1..p)
            BY <1>1, <5>1, SumOnElementBound
          <5>3. QED BY ONLY <3>1, <5>2
        <4>2. w[i] = 0
          BY <3>1, <3>4, <3>5, <3>7, <4>1
        <4>3. Share(volume, split, levels, sl, i) = 1
          <5>1. \A d \in Nat \ {0} : 0 \div d = 0
            OBVIOUS
          <5>2. (volume * w[i]) \div Sum(w) = 0
            BY <2>2, <4>2, <5>1
          <5>3. QED BY <2>5, <5>2 DEF Share, Larger, w
        <4>4. Share(volume, split, few, sl, k) \in 1..volume
          BY ShareType
        <4>5. QED BY <2>1, <4>3, <4>4
      <3>8. CASE Sum(few0) = 0 /\ Sum(all0) = 0
        <4>1. u = [j \in 1..p |-> 1] /\ w = [j \in 1..n |-> 1]
          BY <3>4, <3>8
        <4>2. SumOn(u, 1..p) <= SumOn(w, 1..n)
          <5>1. \A j \in 1..p : u[j] <= w[at[j]]
            BY <4>1
          <5>2. at \in [1..p -> 1..n] /\ \A j, l \in 1..p : at[j] = at[l] => j = l
            OBVIOUS
          <5>3. QED BY ONLY <1>1, <2>2, <5>1, <5>2, SumOfFew
        <4>3. w[i] <= u[k]
          BY ONLY <1>2, <4>1, k \in 1..p
        <4>4. QED BY <2>1, <2>2, <2>3, <4>2, <4>3
      <3>9. QED BY <3>1, <3>6, <3>7, <3>8
    <2>6. CASE split \notin {"pyramid", "risk_based"}
      <3>1. u = [j \in 1..p |-> 1] /\ w = [j \in 1..n |-> 1]
        BY <2>6 DEF Weights, u, w
      <3>2. SumOn(u, 1..p) <= SumOn(w, 1..n)
        <4>1. \A j \in 1..p : u[j] <= w[at[j]]
          BY <3>1
        <4>2. at \in [1..p -> 1..n] /\ \A j, l \in 1..p : at[j] = at[l] => j = l
          OBVIOUS
        <4>3. QED BY ONLY <1>1, <2>2, <4>1, <4>2, SumOfFew
      <3>3. w[i] <= u[k]
        BY ONLY <1>2, <3>1, k \in 1..p
      <3>4. QED BY <2>1, <2>2, <2>3, <3>2, <3>3
    <2>7. QED BY <2>4, <2>5, <2>6
  <1>7. QED BY <1>5, <1>6

-----------------------------------------------------------------------------
(* The inductive invariant of the plans                                    *)

Plan == [id : Nat, level : Int, share : Nat,
         status : {"pending", "executed", "cancelled"}]

PlansTyped ==
    /\ signal \in Signals /\ channel \in Channels /\ tolerance \in Tolerances
    /\ total \in Nat \ {0}
    /\ phase \in {"new", "active", "done"}
    /\ plans \in Seq(Plan)
    /\ phase = "new" => plans = <<>> /\ orders = {}

\* An order belongs to one executed plan; in single mode there is no plan.
OnePerPlan ==
    /\ IsFiniteSet(orders)
    /\ \A o \in orders : o.id \in Nat /\ o.volume \in 1..total
    /\ \A o, q \in orders : o.id = q.id => o = q
    /\ plans # <<>> => \A o \in orders : /\ o.id + 1 \in DOMAIN plans
                                         /\ plans[o.id + 1].status = "executed"

\* The history of the shares: what the split gave each level at the start.
AllLevels == [i \in 1..Len(plans) |-> plans[i].level]
SharesKept ==
    \A i \in 1..Len(plans) :
        plans[i].share = SplitVolume(total, channel.split, AllLevels, signal.sl)[i]

\* What a level gets in an equal split when k levels are pending.
Part(k) == Larger(1, total \div k)
Parts == [k \in 1..Len(plans) |-> Part(k)]

\* The sum of an equal split so far: one term for each plan that left.
EqualSoFar ==
    channel.split = "equal" /\ plans # <<>> =>
        SumOn([o \in orders |-> o.volume], orders)
            <= SumOn(Parts, (Cardinality(Pending) + 1)..Len(plans))

PlansIInv ==
    /\ PlansTyped
    /\ OnePerPlan
    /\ SharesKept
    /\ EqualSoFar
    /\ DeferredNeverRest

\* The levels of the pending plans are a selection of all levels: the place of
\* a plan numbers them from 1 in the order of the plans.
At == [k \in 1..Cardinality(Pending) |-> CHOOSE i \in Pending : Place(i) = k]

\* The pending plans are a finite set of plans.
LEMMA PendingType ==
    ASSUME plans \in Seq(Plan)
    PROVE  /\ Len(plans) \in Nat
           /\ DOMAIN plans = 1..Len(plans)
           /\ \A i \in 1..Len(plans) : plans[i] \in Plan
           /\ Pending \subseteq 1..Len(plans)
           /\ IsFiniteSet(Pending)
           /\ Cardinality(Pending) \in 0..Len(plans)
  <1>1. Len(plans) \in Nat /\ DOMAIN plans = 1..Len(plans)
    BY LenProperties
  <1>2. \A i \in 1..Len(plans) : plans[i] \in Plan
    BY ElementOfSeq
  <1>3. Pending \subseteq 1..Len(plans)
    BY <1>1 DEF Pending
  <1>4. IsFiniteSet(1..Len(plans)) /\ Cardinality(1..Len(plans)) = Len(plans)
    BY <1>1, FS_Interval
  <1>5. IsFiniteSet(Pending) /\ Cardinality(Pending) <= Len(plans)
    BY <1>3, <1>4, FS_Subset
  <1>6. Cardinality(Pending) \in Nat
    BY <1>5, FS_CardinalityType
  <1>7. QED BY <1>1, <1>2, <1>3, <1>5, <1>6

\* The places are numbers from 1 to the number of pending plans,
LEMMA PlaceType ==
    ASSUME plans \in Seq(Plan), NEW i \in Pending
    PROVE  Place(i) \in 1..Cardinality(Pending)
  <1> DEFINE U == {j \in Pending : j <= i}
  <1>1. IsFiniteSet(Pending) /\ i \in Nat /\ Cardinality(Pending) \in Nat
    BY PendingType
  <1>2. U \subseteq Pending /\ i \in U
    BY <1>1
  <1> HIDE DEF U
  <1>3. IsFiniteSet(U) /\ Cardinality(U) <= Cardinality(Pending)
    BY <1>1, <1>2, FS_Subset
  <1>4. Cardinality(U) \in Nat /\ Cardinality(U) # 0
    BY <1>2, <1>3, FS_CardinalityType, FS_EmptySet
  <1>5. QED BY <1>1, <1>3, <1>4 DEF Place, U

\* in the order of the plans,
LEMMA PlaceGrows ==
    ASSUME plans \in Seq(Plan), NEW i \in Pending, NEW j \in Pending, i < j
    PROVE  Place(i) < Place(j)
  <1> DEFINE U == {k \in Pending : k <= i}
             W == {k \in Pending : k <= j}
  <1>1. IsFiniteSet(Pending) /\ Pending \subseteq Nat
    BY PendingType
  <1>2. U \subseteq W /\ W \subseteq Pending /\ j \in W /\ j \notin U
    <2>1. i \in Nat /\ j \in Nat /\ \A k \in Pending : k \in Nat
      BY <1>1
    <2>2. (\A k \in Pending : k <= i => k <= j) /\ ~(j <= i) /\ j <= j
      BY <2>1
    <2>3. QED BY ONLY <2>2, j \in Pending
  <1> HIDE DEF U, W
  <1>3. IsFiniteSet(W)
    BY <1>1, <1>2, FS_Subset
  <1>4. /\ IsFiniteSet(U) /\ Cardinality(U) <= Cardinality(W)
        /\ Cardinality(U) # Cardinality(W)
    BY <1>2, <1>3, FS_Subset
  <1>5. Cardinality(U) \in Nat /\ Cardinality(W) \in Nat
    BY <1>3, <1>4, FS_CardinalityType
  <1>6. QED BY <1>4, <1>5 DEF Place, U, W

\* each for one plan.
LEMMA AtType ==
    ASSUME plans \in Seq(Plan)
    PROVE  /\ At \in [1..Cardinality(Pending) -> Pending]
           /\ \A k \in 1..Cardinality(Pending) : Place(At[k]) = k
           /\ \A i \in Pending : At[Place(i)] = i
  <1> DEFINE p == Cardinality(Pending)
             place == [i \in Pending |-> Place(i)]
  <1>1. IsFiniteSet(Pending) /\ p \in Nat /\ Pending \subseteq Nat
    BY PendingType
  <1>2. \A i, j \in Pending : Place(i) = Place(j) => i = j
    <2> SUFFICES ASSUME NEW i \in Pending, NEW j \in Pending, Place(i) = Place(j), i # j
                 PROVE  FALSE
      OBVIOUS
    <2>1. Place(i) \in Nat
      BY PlaceType, <1>1
    <2>2. i < j \/ j < i
      BY <1>1
    <2>3. QED BY <2>1, <2>2, PlaceGrows
  <1>3. \A k \in 1..p : \E i \in Pending : Place(i) = k
    <2>1. place \in [Pending -> 1..p]
      BY PlaceType
    <2>2. place \in Injection(Pending, 1..p)
      BY <1>2, <2>1 DEF Injection, IsInjective
    <2>3. IsFiniteSet(1..p) /\ Cardinality(1..p) = p
      BY <1>1, FS_Interval
    <2> HIDE DEF place
    <2>4. place \in Surjection(Pending, 1..p)
      BY <2>2, <2>3, FS_Injection
    <2>5. \A k \in 1..p : \E i \in Pending : place[i] = k
      BY <2>4 DEF Surjection
    <2>6. QED BY <2>5 DEF place
  <1>4. \A k \in 1..p : At[k] \in Pending /\ Place(At[k]) = k
    <2> TAKE k \in 1..p
    <2>1. At[k] = CHOOSE i \in Pending : Place(i) = k
      BY DEF At
    <2>2. \E i \in Pending : Place(i) = k
      BY <1>3
    <2>3. QED BY <2>1, <2>2
  <1>5. At \in [1..p -> Pending]
    <2>1. At = [k \in 1..p |-> At[k]]
      BY DEF At
    <2>2. QED BY <1>4, <2>1
  <1>6. \A i \in Pending : At[Place(i)] = i
    <2> TAKE i \in Pending
    <2>1. Place(i) \in 1..p
      BY PlaceType
    <2>2. QED BY <1>2, <1>4, <2>1
  <1>7. QED BY <1>4, <1>5, <1>6

\* Where all deeper plans are pending, as many follow as follow among all.
LEMMA PlaceFromTheEnd ==
    ASSUME plans \in Seq(Plan), NEW i \in Pending,
           \A j \in (i + 1)..Len(plans) : j \in Pending
    PROVE  Cardinality(Pending) - Place(i) = Len(plans) - i
  <1> DEFINE U == {j \in Pending : j <= i}
             W == (i + 1)..Len(plans)
  <1>1. IsFiniteSet(Pending) /\ Pending \subseteq 1..Len(plans) /\ Len(plans) \in Nat
    BY PendingType
  <1>2. i \in Nat /\ i <= Len(plans)
    BY <1>1
  <1>3. Pending = U \cup W /\ U \cap W = {} /\ U \subseteq Pending
    <2>1. \A j \in Pending : j \in Nat /\ j <= Len(plans)
      BY <1>1
    <2>2. \A j \in Pending : j \in U \/ j \in W
      BY <1>1, <1>2, <2>1
    <2>3. W \subseteq Pending
      OBVIOUS
    <2>4. \A j \in U : j \notin W
      BY <1>1, <1>2, <2>1
    <2>5. QED BY <2>2, <2>3, <2>4
  <1>4. IsFiniteSet(W) /\ Cardinality(W) = Len(plans) - i
    <2>1. i + 1 \in Int /\ Len(plans) \in Int
      BY <1>1, <1>2
    <2>2. QED BY <1>1, <1>2, <2>1, FS_Interval
  <1> HIDE DEF U, W
  <1>5. IsFiniteSet(U)
    BY <1>1, <1>3, FS_Subset
  <1>6. Cardinality(Pending) = Cardinality(U) + Cardinality(W) - Cardinality(U \cap W)
    BY <1>3, <1>4, <1>5, FS_Union
  <1>7. Cardinality(U) \in Nat /\ Cardinality(U \cap W) = 0
    BY <1>3, <1>5, FS_CardinalityType, FS_EmptySet
  <1>8. QED BY <1>1, <1>2, <1>4, <1>6, <1>7 DEF Place, U

\* The levels that are split anew.
LEMMA PendingLevelsAre ==
    ASSUME plans \in Seq(Plan)
    PROVE  /\ PendingLevels \in Seq(Int)
           /\ Len(PendingLevels) = Cardinality(Pending)
           /\ \A k \in 1..Cardinality(Pending) : PendingLevels[k] = plans[At[k]].level
  <1> DEFINE p == Cardinality(Pending)
  <1>1. p \in Nat /\ Pending \subseteq 1..Len(plans) /\ \A i \in 1..Len(plans) : plans[i].level \in Int
    BY PendingType DEF Plan
  <1>2. PendingLevels = [k \in 1..p |-> plans[At[k]].level]
    BY DEF PendingLevels, At
  <1>3. \A k \in 1..p : plans[At[k]].level \in Int
    BY <1>1, AtType
  <1>4. PendingLevels \in Seq(Int)
    <2> HIDE DEF p
    <2>1. [k \in 1..p |-> plans[At[k]].level] \in Seq(Int)
      BY <1>1, <1>3, IsASeq
    <2>2. QED BY <1>2, <2>1
  <1>5. Len(PendingLevels) = p
    BY <1>1, <1>2, <1>4, LenProperties
  <1>6. QED BY <1>2, <1>4, <1>5

\* The levels of all plans.
LEMMA AllLevelsAre ==
    ASSUME plans \in Seq(Plan)
    PROVE  AllLevels \in Seq(Int) /\ Len(AllLevels) = Len(plans)
  <1>1. Len(plans) \in Nat /\ \A i \in 1..Len(plans) : plans[i].level \in Int
    BY PendingType DEF Plan
  <1>2. AllLevels \in Seq(Int)
    BY <1>1, IsASeq DEF AllLevels
  <1>3. QED BY <1>1, <1>2, LenProperties DEF AllLevels

\* The volume of a signal is positive.
LEMMA VolumeType ==
    ASSUME NEW lot \in FixedLots, NEW v \in Volume(lot)
    PROVE  v \in Nat \ {0}
  <1>1. lot \in Nat /\ LotMin \in Nat \ {0} /\ LotMax \in Nat /\ LotStep \in Nat \ {0}
    BY PlansAssumption
  <1>2. lot \div LotStep \in Int
    BY <1>1
  <1>3. PICK n \in Int : v = Larger(LotMin, Smaller(n * LotStep, LotMax))
    BY <1>2 DEF Volume
  <1>4. n * LotStep \in Int
    BY <1>1
  <1>5. QED BY <1>1, <1>3, <1>4 DEF Larger, Smaller

\* What a re-entry sends.
LEMMA ReentryVolumeIs ==
    ASSUME PlansTyped, NEW i \in Pending
    PROVE  /\ ReentryVolume(i) \in 1..total
           /\ channel.split = "equal" => ReentryVolume(i) = Part(Cardinality(Pending))
  <1>1. signal.sl \in Int /\ total \in Nat \ {0} /\ plans \in Seq(Plan)
    BY PlansAssumption DEF PlansTyped
  <1>2. /\ PendingLevels \in Seq(Int) /\ Len(PendingLevels) = Cardinality(Pending)
        /\ Place(i) \in 1..Len(PendingLevels)
    BY <1>1, PendingLevelsAre, PlaceType
  <1>3. PendingLevels # <<>>
    BY <1>2, EmptySeq
  <1>4. ReentryVolume(i) \in 1..total
    BY <1>1, <1>2, <1>3, SplitType DEF ReentryVolume
  <1>5. ASSUME channel.split = "equal"
        PROVE  ReentryVolume(i) = Part(Cardinality(Pending))
    BY <1>1, <1>2, <1>3, <1>5, SplitEqually DEF ReentryVolume, Part
  <1>6. QED BY <1>4, <1>5

-----------------------------------------------------------------------------
(* The invariant is inductive                                              *)

\* The volumes of the accepted orders.
Volumes == [o \in orders |-> o.volume]

\* A part is a natural number, and smaller for more levels.
LEMMA PartType ==
    ASSUME total \in Nat \ {0}, NEW k \in Nat \ {0}
    PROVE  Part(k) \in Nat /\ \A j \in 1..k : Part(k) <= Part(j)
  <1>1. \A t, d \in Nat : d > 0 => t \div d \in Nat
    OBVIOUS
  <1>2. \A t, d, e \in Nat : d > 0 /\ d <= e => t \div e <= t \div d
    OBVIOUS
  <1>3. total \div k \in Nat
    BY <1>1
  <1>4. Part(k) \in Nat
    BY <1>3 DEF Part, Larger
  <1>5. ASSUME NEW j \in 1..k PROVE Part(k) <= Part(j)
    <2>1. total \div j \in Nat /\ total \div k <= total \div j
      BY <1>1, <1>2
    <2>2. QED BY <1>3, <2>1 DEF Part, Larger
  <1>6. QED BY <1>4, <1>5

\* One term more: the plans that are pending become one less.
LEMMA PartsFrom ==
    ASSUME total \in Nat \ {0}, plans \in Seq(Plan), NEW p \in 1..Len(plans)
    PROVE  /\ SumOn(Parts, p..Len(plans)) = Part(p) + SumOn(Parts, (p + 1)..Len(plans))
           /\ Part(p) \in Nat
           /\ SumOn(Parts, (p + 1)..Len(plans)) \in Nat
  <1> DEFINE n == Len(plans)
             A == (p + 1)..n
  <1>1. n \in Nat
    BY PendingType
  <1>2. \A k \in 1..n : Parts[k] = Part(k) /\ Part(k) \in Nat
    BY PartType DEF Parts
  <1>3. IsFiniteSet(A) /\ p \notin A /\ A \cup {p} = p..n /\ A \cup {p} \subseteq 1..n
    <2>1. p + 1 \in Int /\ p \in Nat
      BY <1>1
    <2>2. IsFiniteSet(A)
      BY <1>1, <2>1, FS_Interval
    <2>3. QED BY <1>1, <2>2
  <1>4. \A k \in A \cup {p} : Parts[k] \in Nat
    BY <1>2, <1>3
  <1> HIDE DEF A
  <1>5. SumOn(Parts, A \cup {p}) = Parts[p] + SumOn(Parts, A)
    BY <1>3, <1>4, SumOnAdd
  <1>6. SumOn(Parts, A) \in Nat
    BY <1>3, <1>4, SumOnType
  <1>7. QED BY <1>2, <1>3, <1>5, <1>6 DEF A

\* Plan i leaves the pending ones.
LEMMA PlanLeaves ==
    ASSUME PlansTyped, NEW i \in Pending, NEW st \in {"executed", "cancelled"},
           plans' = [plans EXCEPT ![i].status = st]
    PROVE  /\ plans' \in Seq(Plan) /\ Len(plans') = Len(plans) /\ plans # <<>> /\ plans' # <<>>
           /\ \A j \in 1..Len(plans) : /\ plans'[j].level = plans[j].level
                                       /\ plans'[j].share = plans[j].share
                                       /\ plans'[j].status = IF j = i THEN st ELSE plans[j].status
           /\ AllLevels' = AllLevels
           /\ Cardinality(Pending)' = Cardinality(Pending) - 1
           /\ Cardinality(Pending) \in 1..Len(plans)
  <1>1. /\ plans \in Seq(Plan) /\ Len(plans) \in Nat /\ DOMAIN plans = 1..Len(plans)
        /\ i \in 1..Len(plans) /\ IsFiniteSet(Pending)
        /\ Cardinality(Pending) \in 0..Len(plans)
        /\ \A j \in 1..Len(plans) : plans[j] \in Plan
    BY PendingType DEF PlansTyped
  <1>2. plans' = [plans EXCEPT ![i] = [plans[i] EXCEPT !.status = st]]
    OBVIOUS
  <1>3. [plans[i] EXCEPT !.status = st] \in Plan
    BY <1>1 DEF Plan
  <1>4. /\ plans' \in Seq(Plan) /\ Len(plans') = Len(plans)
        /\ \A j \in 1..Len(plans) : plans'[j] = IF j = i THEN [plans[i] EXCEPT !.status = st] ELSE plans[j]
    BY <1>1, <1>2, <1>3, ExceptSeq
  <1>5. \A j \in 1..Len(plans) : /\ plans'[j].level = plans[j].level
                                 /\ plans'[j].share = plans[j].share
                                 /\ plans'[j].status = IF j = i THEN st ELSE plans[j].status
    BY <1>1, <1>4 DEF Plan
  <1>6. AllLevels' = AllLevels
    BY <1>4, <1>5 DEF AllLevels
  <1>7. Pending' = Pending \ {i}
    <2>1. DOMAIN plans' = 1..Len(plans)
      BY <1>4, LenProperties
    <2>2. QED BY <1>1, <1>5, <2>1 DEF Pending
  <1>8. Cardinality(Pending)' = Cardinality(Pending) - 1
    BY <1>1, <1>7, FS_RemoveElement
  <1>9. Cardinality(Pending) # 0
    BY <1>1, FS_EmptySet
  <1>10. plans # <<>> /\ plans' # <<>>
    BY <1>1, <1>4, EmptySeq
  <1>11. QED BY <1>1, <1>4, <1>5, <1>6, <1>8, <1>9, <1>10

\* The invariant holds at the start.
LEMMA PlansInitInv == PlansInit => PlansIInv
  <1> SUFFICES ASSUME PlansInit PROVE PlansIInv
    OBVIOUS
  <1>1. plans = <<>> /\ orders = {} /\ Len(plans) = 0 /\ plans \in Seq(Plan)
    BY EmptySeq DEF PlansInit
  <1>2. PlansTyped
    BY <1>1, VolumeType DEF PlansInit, PlansTyped
  <1>3. OnePerPlan
    BY <1>1, FS_EmptySet DEF OnePerPlan
  <1>4. SharesKept /\ EqualSoFar /\ DeferredNeverRest
    BY <1>1 DEF SharesKept, EqualSoFar, DeferredNeverRest
  <1>5. QED BY <1>2, <1>3, <1>4 DEF PlansIInv

\* Nothing but the phase changes.
LEMMA PlansStutterInv == PlansIInv /\ UNCHANGED <<inputs, plans, orders>> /\ phase' \in {phase, "done"} => PlansIInv'
  <1> SUFFICES ASSUME PlansIInv, UNCHANGED <<inputs, plans, orders>>, phase' \in {phase, "done"}
               PROVE  PlansIInv'
    OBVIOUS
  <1> USE DEF PlansIInv, inputs
  <1>1. PlansTyped'
    BY DEF PlansTyped
  <1>2. OnePerPlan'
    BY DEF OnePerPlan
  <1>3. SharesKept'
    BY DEF SharesKept, AllLevels
  <1>4. EqualSoFar'
    BY DEF EqualSoFar, Parts, Part, Pending
  <1>5. DeferredNeverRest'
    BY DEF DeferredNeverRest
  <1>6. QED BY <1>1, <1>2, <1>3, <1>4, <1>5

\* The only order of the single mode.
LEMMA ExecuteSingleInv ==
    ASSUME PlansIInv, NEW ref \in Quotes, ExecuteSingle(ref)
    PROVE  PlansIInv'
  <1> DEFINE first == Order(0, total, DecideSingle(signal, ref, tolerance), FALSE)
  <1>1. plans' = <<>> /\ plans \in Seq(Plan) /\ Len(<<>>) = 0 /\ <<>> \in Seq(Plan)
    BY EmptySeq DEF PlansIInv, PlansTyped, ExecuteSingle
  <1>2. PlansTyped'
    BY <1>1 DEF PlansIInv, PlansTyped, ExecuteSingle, inputs
  <1>3. orders' = {} \/ orders' = {first}
    BY DEF ExecuteSingle
  <1>4. first.id = 0 /\ first.volume = total
    BY DEF Order
  <1> HIDE DEF first
  <1>5. IsFiniteSet(orders')
    BY <1>3, FS_EmptySet, FS_Singleton
  <1>6. total' = total /\ total \in Nat \ {0}
    BY DEF PlansIInv, PlansTyped, ExecuteSingle, inputs
  <1>7. OnePerPlan'
    BY <1>1, <1>3, <1>4, <1>5, <1>6 DEF OnePerPlan
  <1>8. SharesKept' /\ EqualSoFar'
    BY <1>1 DEF SharesKept, EqualSoFar
  <1>9. DeferredNeverRest'
    BY <1>3, <1>4 DEF DeferredNeverRest
  <1>10. QED BY <1>2, <1>7, <1>8, <1>9 DEF PlansIInv

\* A plan is refused.
LEMMA RejectInv ==
    ASSUME PlansIInv, NEW i \in DOMAIN plans, Reject(i)
    PROVE  PlansIInv'
  <1>1. PlansTyped /\ i \in Pending /\ plans' = [plans EXCEPT ![i].status = "cancelled"]
    BY DEF PlansIInv, Reject, Pending
  <1>2. UNCHANGED <<inputs, phase, orders>> /\ phase = "active"
    BY DEF Reject
  <1>3. /\ plans' \in Seq(Plan) /\ Len(plans') = Len(plans) /\ plans # <<>> /\ plans' # <<>>
        /\ \A j \in 1..Len(plans) : /\ plans'[j].level = plans[j].level
                                    /\ plans'[j].share = plans[j].share
                                    /\ plans'[j].status = IF j = i THEN "cancelled" ELSE plans[j].status
        /\ AllLevels' = AllLevels
        /\ Cardinality(Pending)' = Cardinality(Pending) - 1
        /\ Cardinality(Pending) \in 1..Len(plans)
    BY <1>1, PlanLeaves
  <1>4. /\ plans \in Seq(Plan) /\ Len(plans) \in Nat /\ DOMAIN plans = 1..Len(plans)
        /\ DOMAIN plans' = 1..Len(plans) /\ total \in Nat \ {0}
    BY <1>1, <1>3, LenProperties DEF PlansTyped
  <1>5. PlansTyped'
    BY <1>1, <1>2, <1>3 DEF PlansTyped, inputs
  <1>6. OnePerPlan'
    <2>1. plans[i].status = "pending"
      BY DEF Reject
    <2>2. QED BY <1>2, <1>3, <1>4, <2>1 DEF OnePerPlan, PlansIInv, inputs
  <1>7. SharesKept'
    BY <1>2, <1>3 DEF SharesKept, PlansIInv, inputs
  <1>8. EqualSoFar'
    <2> DEFINE p == Cardinality(Pending)
    <2>1. Cardinality(Pending)' + 1 = p
      BY <1>3
    <2>2. Parts' = Parts
      BY <1>2, <1>3 DEF Parts, Part, inputs
    <2>3. /\ SumOn(Parts, p..Len(plans)) = Part(p) + SumOn(Parts, (p + 1)..Len(plans))
          /\ Part(p) \in Nat /\ SumOn(Parts, (p + 1)..Len(plans)) \in Nat
      BY <1>3, <1>4, PartsFrom
    <2>4. SumOn(Volumes, orders) \in Nat
      <3>1. \A o \in orders : Volumes[o] \in Nat
        BY <1>4 DEF PlansIInv, OnePerPlan, Volumes
      <3>2. QED BY <3>1, SumOnType DEF PlansIInv, OnePerPlan
    <2>5. channel.split = "equal" => SumOn(Volumes, orders) <= SumOn(Parts, (p + 1)..Len(plans))
      BY <1>3 DEF PlansIInv, EqualSoFar, Volumes
    <2>6. channel.split = "equal" => SumOn(Volumes, orders) <= SumOn(Parts, p..Len(plans))
      BY <2>3, <2>4, <2>5
    <2> HIDE DEF p
    <2>7. QED BY <1>2, <1>3, <2>1, <2>2, <2>6 DEF EqualSoFar, Volumes, inputs
  <1>9. DeferredNeverRest'
    BY <1>2 DEF DeferredNeverRest, PlansIInv, inputs
  <1>10. QED BY <1>5, <1>6, <1>7, <1>8, <1>9 DEF PlansIInv

\* A plan is entered.
LEMMA ReentryInv ==
    ASSUME PlansIInv, NEW i \in DOMAIN plans, NEW ref \in Quotes, Reentry(i, ref)
    PROVE  PlansIInv'
  <1> DEFINE o1 == Order(i - 1, ReentryVolume(i), MarketOrder, TRUE)
  <1>1. PlansTyped /\ i \in Pending /\ plans' = [plans EXCEPT ![i].status = "executed"]
    BY DEF PlansIInv, Reentry, Pending
  <1>2. UNCHANGED <<inputs, phase>> /\ phase = "active" /\ orders' = orders \cup {o1}
    BY DEF Reentry
  <1>3. /\ plans' \in Seq(Plan) /\ Len(plans') = Len(plans) /\ plans # <<>> /\ plans' # <<>>
        /\ \A j \in 1..Len(plans) : /\ plans'[j].level = plans[j].level
                                    /\ plans'[j].share = plans[j].share
                                    /\ plans'[j].status = IF j = i THEN "executed" ELSE plans[j].status
        /\ AllLevels' = AllLevels
        /\ Cardinality(Pending)' = Cardinality(Pending) - 1
        /\ Cardinality(Pending) \in 1..Len(plans)
    BY <1>1, PlanLeaves
  <1>4. /\ plans \in Seq(Plan) /\ Len(plans) \in Nat /\ DOMAIN plans = 1..Len(plans)
        /\ DOMAIN plans' = 1..Len(plans) /\ total \in Nat \ {0} /\ i \in 1..Len(plans)
    BY <1>1, <1>3, LenProperties DEF PlansTyped
  <1>5. o1.id = i - 1 /\ o1.volume = ReentryVolume(i) /\ o1.kind = "MARKET"
    BY DEF Order, MarketOrder
  <1> HIDE DEF o1
  <1>6. ReentryVolume(i) \in 1..total /\
        (channel.split = "equal" => ReentryVolume(i) = Part(Cardinality(Pending)))
    BY <1>1, ReentryVolumeIs
  <1>7. PlansTyped'
    BY <1>1, <1>2, <1>3 DEF PlansTyped, inputs
  <1>8. \A o \in orders : o.id # i - 1
    <2>1. plans[i].status = "pending"
      BY DEF Reentry
    <2>2. \A o \in orders : o.id \in Nat /\ plans[o.id + 1].status = "executed"
      BY <1>3 DEF PlansIInv, OnePerPlan
    <2>3. ASSUME NEW o \in orders, o.id = i - 1 PROVE FALSE
      <3>1. o.id + 1 = i
        BY <1>4, <2>3
      <3>2. QED BY <2>1, <2>2, <3>1
    <2>4. QED BY <2>3
  <1>9. OnePerPlan'
    <2>1. IsFiniteSet(orders')
      BY <1>2, FS_AddElement DEF PlansIInv, OnePerPlan
    <2>2. \A o \in orders' : o.id \in Nat /\ o.volume \in 1..total'
      BY <1>2, <1>4, <1>5, <1>6 DEF PlansIInv, OnePerPlan, inputs
    <2>3. \A o, q \in orders' : o.id = q.id => o = q
      BY <1>2, <1>5, <1>8 DEF PlansIInv, OnePerPlan
    <2>4. \A o \in orders' : o.id + 1 \in DOMAIN plans' /\ plans'[o.id + 1].status = "executed"
      <3>1. o1.id + 1 = i
        BY <1>4, <1>5
      <3>2. \A o \in orders : o.id + 1 \in 1..Len(plans) /\ plans[o.id + 1].status = "executed"
        BY <1>3, <1>4 DEF PlansIInv, OnePerPlan
      <3>3. QED BY <1>2, <1>3, <1>4, <3>1, <3>2
    <2>5. QED BY <2>1, <2>2, <2>3, <2>4 DEF OnePerPlan
  <1>10. SharesKept'
    BY <1>2, <1>3 DEF SharesKept, PlansIInv, inputs
  <1>11. EqualSoFar'
    <2> DEFINE p == Cardinality(Pending)
    <2>1. Cardinality(Pending)' + 1 = p
      BY <1>3
    <2>2. Parts' = Parts
      BY <1>2, <1>3 DEF Parts, Part, inputs
    <2>3. /\ SumOn(Parts, p..Len(plans)) = Part(p) + SumOn(Parts, (p + 1)..Len(plans))
          /\ Part(p) \in Nat /\ SumOn(Parts, (p + 1)..Len(plans)) \in Nat
      BY <1>3, <1>4, PartsFrom
    <2>4. SumOn(Volumes', orders') = ReentryVolume(i) + SumOn(Volumes, orders)
      <3>1. IsFiniteSet(orders) /\ o1 \notin orders
        BY <1>5, <1>8 DEF PlansIInv, OnePerPlan
      <3>2. \A o \in orders \cup {o1} : o.volume \in Nat
        BY <1>4, <1>5, <1>6 DEF PlansIInv, OnePerPlan
      <3>3. Volumes' = [o \in orders \cup {o1} |-> o.volume]
        BY <1>2 DEF Volumes
      <3>4. \A o \in orders \cup {o1} : Volumes'[o] = o.volume
        BY <3>3
      <3>5. SumOn(Volumes', orders \cup {o1}) = Volumes'[o1] + SumOn(Volumes', orders)
        <4>1. \A o \in orders \cup {o1} : Volumes'[o] \in Nat
          BY <3>2, <3>4
        <4>2. QED BY <3>1, <4>1, SumOnAdd
      <3>6. SumOn(Volumes', orders) = SumOn(Volumes, orders)
        <4>1. \A o \in orders : Volumes'[o] = Volumes[o]
          BY <3>4 DEF Volumes
        <4>2. QED BY <4>1, SumOnAgrees
      <3>7. QED BY <1>2, <1>5, <3>4, <3>5, <3>6
    <2>5. SumOn(Volumes, orders) \in Nat
      <3>1. \A o \in orders : Volumes[o] \in Nat
        BY <1>4 DEF PlansIInv, OnePerPlan, Volumes
      <3>2. QED BY <3>1, SumOnType DEF PlansIInv, OnePerPlan
    <2>6. channel.split = "equal" => SumOn(Volumes, orders) <= SumOn(Parts, (p + 1)..Len(plans))
      BY <1>3 DEF PlansIInv, EqualSoFar, Volumes
    <2>7. channel.split = "equal" => SumOn(Volumes', orders') <= SumOn(Parts, p..Len(plans))
      BY <1>6, <2>3, <2>4, <2>5, <2>6
    <2> HIDE DEF p
    <2>8. QED BY <1>2, <1>3, <2>1, <2>2, <2>7 DEF EqualSoFar, Volumes, inputs
  <1>12. DeferredNeverRest'
    BY <1>2, <1>5 DEF DeferredNeverRest, PlansIInv, inputs
  <1>13. QED BY <1>7, <1>9, <1>10, <1>11, <1>12 DEF PlansIInv

\* A level that is sent at once and is not the first is sent at the market.
LEMMA ImmediateIsMarket ==
    ASSUME NEW s \in Signals, NEW level \in Int, NEW ref \in Int,
           NEW tol \in Nat, tol >= PlanTolerance, NEW noStop, NEW zone,
           KindAt(s.side, level, ref, PlanTolerance) = "MARKET"
    PROVE  Decide(s.side, level, ref, tol, noStop, zone) = MarketOrder
  <1>1. Abs(level - ref) <= PlanTolerance
    BY DEF KindAt
  <1>2. Abs(level - ref) <= tol
    BY <1>1 DEF Abs, PlanTolerance
  <1>3. KindAt(s.side, level, ref, tol) = "MARKET"
    BY <1>2 DEF KindAt
  <1>4. QED BY <1>3 DEF Decide

\* Orders of different plans are as many as the plans.
LEMMA OrdersOfPlans ==
    ASSUME NEW I, IsFiniteSet(I), NEW f, NEW O, O = {f[i] : i \in I}
    PROVE  IsFiniteSet(O) /\ Cardinality(O) <= Cardinality(I)
  <1> DEFINE g == [i \in I |-> f[i]]
  <1>1. g \in Surjection(I, O)
    BY DEF Surjection
  <1> HIDE DEF g
  <1>2. QED BY <1>1, FS_Surjection

\* The plans are made and the first orders sent.
LEMMA ExecuteMultiInv ==
    ASSUME PlansIInv, NEW ref \in Quotes, ExecuteMulti(ref)
    PROVE  PlansIInv'
  <1> DEFINE levels == Levels(signal, channel, ref)
             shares == SplitVolume(total, channel.split, levels, signal.sl)
             n == Len(levels)
             now == {i \in DOMAIN levels : ~TooClose(ref) /\ Immediate(levels[i], i - 1, ref)}
             decided(i) == Decide(signal.side, levels[i], ref, tolerance,
                                  channel.noStop, signal.zone)
             sent(i) == Order(i - 1, shares[i], decided(i), FALSE)
             status(i, accepted) == IF TooClose(ref) THEN "cancelled"
                                    ELSE IF i \in accepted THEN "executed" ELSE "pending"
             plan(i, accepted) == [id |-> i - 1, level |-> levels[i], share |-> shares[i],
                                   status |-> status(i, accepted)]
  <1>1. /\ signal \in Signals /\ channel \in Channels /\ ref \in Int
        /\ signal.sl \in Int /\ total \in Nat \ {0}
        /\ tolerance \in Tolerances /\ tolerance \in Nat
    BY PlansAssumption DEF PlansIInv, PlansTyped
  <1>2. UNCHANGED inputs /\ phase' \in {"active", "done"}
    BY DEF ExecuteMulti
  <1>3. PICK accepted \in SUBSET now :
          /\ plans' = [i \in DOMAIN levels |-> plan(i, accepted)]
          /\ orders' = {sent(i) : i \in accepted}
    BY DEF ExecuteMulti
  <1>4. levels \in Seq(Int) /\ levels # <<>>
    BY <1>1, LevelsType
  <1> HIDE DEF levels
  <1>5. n \in Nat \ {0} /\ DOMAIN levels = 1..n /\ \A i \in 1..n : levels[i] \in Int
    BY <1>4, LenProperties, EmptySeq, ElementOfSeq
  <1>6. \A i \in 1..n : shares[i] \in 1..total
    BY <1>1, <1>4, SplitType
  <1>7. accepted \subseteq now /\ now \subseteq 1..n
    BY <1>5
  <1>8. /\ plans' \in Seq(Plan) /\ Len(plans') = n /\ plans' # <<>> /\ DOMAIN plans' = 1..n
        /\ \A i \in 1..n : plans'[i] = plan(i, accepted)
    <2>1. \A i \in 1..n : plan(i, accepted) \in Plan
      <3> TAKE i \in 1..n
      <3>1. i - 1 \in Nat /\ levels[i] \in Int /\ shares[i] \in Nat
        BY <1>1, <1>5, <1>6
      <3>2. QED BY <3>1 DEF Plan
    <2>2. plans' = [i \in 1..n |-> plan(i, accepted)]
      BY <1>3, <1>5
    <2> HIDE DEF n, plan
    <2>3. [i \in 1..n |-> plan(i, accepted)] \in Seq(Plan)
      BY <1>5, <2>1, IsASeq
    <2>4. plans' \in Seq(Plan) /\ Len(plans') = n
      BY <1>5, <2>2, <2>3, LenProperties
    <2>5. QED BY <1>5, <2>2, <2>4, EmptySeq
  <1> HIDE DEF shares
  <1>9. \A i \in 1..n : /\ plans'[i].level = levels[i]
                        /\ plans'[i].share = shares[i]
                        /\ plans'[i].status = status(i, accepted)
    BY <1>8
  <1>10. \A i \in accepted : /\ sent(i).id = i - 1 /\ sent(i).volume = shares[i]
                             /\ sent(i).kind = decided(i).kind
    BY DEF Order
  <1> HIDE DEF sent, decided
  <1>11. PlansTyped'
    BY <1>1, <1>2, <1>8 DEF PlansTyped, inputs
  <1> DEFINE p == Cardinality(Pending')
  <1>12. /\ IsFiniteSet(accepted) /\ IsFiniteSet(orders')
         /\ Cardinality(orders') \in Nat /\ p \in Nat /\ p <= n
         /\ Cardinality(orders') <= n - p
    <2>1. IsFiniteSet(1..n) /\ Cardinality(1..n) = n
      BY <1>5, FS_Interval
    <2>2. Pending' \subseteq 1..n /\ accepted \subseteq 1..n
      BY <1>7, <1>8 DEF Pending
    <2>3. Pending' \cap accepted = {}
      <3>1. \A i \in Pending' : status(i, accepted) = "pending"
        BY <1>8, <1>9, <2>2 DEF Pending
      <3>2. QED BY <3>1
    <2>4. IsFiniteSet(Pending') /\ IsFiniteSet(accepted)
      BY <2>1, <2>2, FS_Subset
    <2> HIDE DEF n
    <2>5. Cardinality(Pending') + Cardinality(accepted) <= n
      <3>1. Cardinality(Pending' \cup accepted) <= n
        <4>1. Pending' \cup accepted \subseteq 1..n
          BY <2>2
        <4>2. QED BY <2>1, <4>1, FS_Subset
      <3>2. Cardinality(Pending' \cup accepted) = Cardinality(Pending') + Cardinality(accepted) - Cardinality(Pending' \cap accepted)
        BY <2>4, FS_Union
      <3>3. Cardinality(Pending' \cap accepted) = 0 /\ Cardinality(Pending') \in Nat /\ Cardinality(accepted) \in Nat
        BY <2>3, <2>4, FS_EmptySet, FS_CardinalityType
      <3>4. QED BY <3>1, <3>2, <3>3
    <2>6. IsFiniteSet(orders') /\ Cardinality(orders') <= Cardinality(accepted)
      <3> DEFINE f == [i \in accepted |-> sent(i)]
      <3>1. orders' = {f[i] : i \in accepted}
        BY <1>3
      <3> HIDE DEF f
      <3>2. QED BY <2>4, <3>1, OrdersOfPlans
    <2>7. Cardinality(orders') \in Nat /\ Cardinality(accepted) \in Nat /\ p \in Nat
      BY <2>4, <2>6, FS_CardinalityType
    <2>8. QED BY <1>5, <2>4, <2>5, <2>6, <2>7
  <1>13. OnePerPlan'
    <2>1. ASSUME NEW o \in orders'
          PROVE  o.id \in Nat /\ o.volume \in 1..total' /\ o.id + 1 \in DOMAIN plans' /\ plans'[o.id + 1].status = "executed"
      <3>1. PICK i \in accepted : o = sent(i)
        BY <1>3
      <3>2. i \in 1..n /\ ~TooClose(ref)
        BY <1>7
      <3>3. o.id = i - 1 /\ o.id + 1 = i /\ o.volume = shares[i]
        BY <1>5, <1>10, <3>1, <3>2
      <3>4. plans'[i].status = "executed"
        BY <1>9, <3>2
      <3>5. QED BY <1>2, <1>5, <1>6, <1>8, <3>2, <3>3, <3>4 DEF inputs
    <2>2. ASSUME NEW o \in orders', NEW q \in orders', o.id = q.id PROVE o = q
      <3>1. PICK i \in accepted : o = sent(i)
        BY <1>3
      <3>2. PICK j \in accepted : q = sent(j)
        BY <1>3
      <3>3. i - 1 = j - 1
        BY <1>10, <2>2, <3>1, <3>2
      <3>4. i = j
        BY <1>5, <1>7, <3>3
      <3>5. QED BY <3>1, <3>2, <3>4
    <2>3. QED BY <1>12, <2>1, <2>2 DEF OnePerPlan
  <1>14. SharesKept'
    <2>1. AllLevels' = levels
      <3>1. AllLevels' = [i \in 1..n |-> levels[i]]
        BY <1>8, <1>9 DEF AllLevels
      <3>2. levels = [i \in 1..n |-> levels[i]]
        BY <1>4, LenProperties
      <3>3. QED BY <3>1, <3>2
    <2>2. QED BY <1>2, <1>8, <1>9, <2>1 DEF SharesKept, shares, inputs
  <1>15. EqualSoFar'
    <2> SUFFICES ASSUME channel.split = "equal"
                 PROVE  SumOn(Volumes', orders') <= SumOn(Parts', (p + 1)..n)
      BY <1>2, <1>8 DEF EqualSoFar, Volumes, inputs
    <2>1. Parts' = [k \in 1..n |-> Part(k)]
      BY <1>2, <1>8 DEF Parts, Part, inputs
    <2>2. Part(n) \in Nat /\ \A k \in 1..n : Part(k) \in Nat /\ Part(n) <= Part(k)
      BY <1>1, <1>5, PartType
    <2>3. \A i \in 1..n : shares[i] = Part(n)
      BY <1>1, <1>4, SplitEqually DEF shares, Part
    <2>4. \A o \in orders' : Volumes'[o] = Part(n)
      <3>1. \A o \in orders' : Volumes'[o] = o.volume
        BY DEF Volumes
      <3>2. QED BY <1>3, <1>7, <1>10, <2>3, <3>1
    <2> HIDE DEF n, p
    <2>5. SumOn(Volumes', orders') = Cardinality(orders') * Part(n)
      BY <1>12, <2>2, <2>4, SumOnConstant
    <2> DEFINE A == (p + 1)..n
               same == [k \in A |-> Part(n)]
               id == [k \in A |-> k]
    <2>6. IsFiniteSet(A) /\ Cardinality(A) = n - p /\ A \subseteq 1..n
      <3>1. p + 1 \in Int /\ n \in Int
        BY <1>5, <1>12
      <3>2. IsFiniteSet(A) /\ Cardinality(A) = IF p + 1 > n THEN 0 ELSE n - (p + 1) + 1
        BY <3>1, FS_Interval
      <3>3. QED BY <1>5, <1>12, <3>2
    <2>7. SumOn(same, A) = (n - p) * Part(n)
      <3>1. \A k \in A : same[k] = Part(n)
        OBVIOUS
      <3> HIDE DEF A, same
      <3>2. SumOn(same, A) = Cardinality(A) * Part(n)
        BY <2>2, <2>6, <3>1, SumOnConstant
      <3>3. QED BY <2>6, <3>2
    <2>8. SumOn(same, A) <= SumOn(Parts', A)
      <3>1. \A k \in A : id[k] \in A /\ same[k] <= Parts'[id[k]]
        BY <2>1, <2>2, <2>6
      <3>2. (\A k \in A : same[k] \in Nat) /\ (\A k \in A : Parts'[k] \in Nat)
        BY <2>1, <2>2, <2>6
      <3>3. \A j, k \in A : id[j] = id[k] => j = k
        OBVIOUS
      <3> HIDE DEF A, same, id
      <3>4. QED BY <2>6, <3>1, <3>2, <3>3, SumOnInjection
    <2>9. Cardinality(orders') * Part(n) <= (n - p) * Part(n)
      <3>1. \A a, b, c \in Nat : a <= b => a * c <= b * c
        OBVIOUS
      <3>2. n - p \in Nat
        BY <1>5, <1>12
      <3>3. QED BY <1>12, <2>2, <3>1, <3>2
    <2>10. SumOn(Parts', A) \in Nat /\ Cardinality(orders') * Part(n) \in Nat /\ (n - p) * Part(n) \in Nat
      <3>1. \A k \in A : Parts'[k] \in Nat
        BY <2>1, <2>2, <2>6
      <3>2. SumOn(Parts', A) \in Nat
        BY <2>6, <3>1, SumOnType
      <3>3. n - p \in Nat
        BY <1>5, <1>12
      <3>4. \A a, b \in Nat : a * b \in Nat
        OBVIOUS
      <3>5. QED BY <1>12, <2>2, <3>2, <3>3, <3>4
    <2>11. QED BY <2>5, <2>7, <2>8, <2>9, <2>10
  <1>16. DeferredNeverRest'
    <2> SUFFICES ASSUME tolerance >= PlanTolerance, ~channel.all, NEW o \in orders', o.id > 0
                 PROVE  o.kind = "MARKET"
      BY <1>2 DEF DeferredNeverRest, inputs
    <2>1. PICK i \in accepted : o = sent(i)
      BY <1>3
    <2>2. i \in 1..n /\ Immediate(levels[i], i - 1, ref)
      BY <1>7, <2>1
    <2>3. i - 1 # 0
      BY <1>10, <2>1, <2>2
    <2>4. KindAt(signal.side, levels[i], ref, PlanTolerance) = "MARKET"
      BY <2>2, <2>3 DEF Immediate
    <2>5. decided(i) = MarketOrder
      BY <1>1, <1>5, <2>2, <2>4, ImmediateIsMarket DEF decided
    <2>6. QED BY <1>10, <2>1, <2>5 DEF MarketOrder
  <1>17. QED BY <1>11, <1>13, <1>14, <1>15, <1>16 DEF PlansIInv

\* Every step preserves the invariant.
LEMMA PlansNextInv == PlansIInv /\ [PlansNext]_planVars => PlansIInv'
  <1> SUFFICES ASSUME PlansIInv, [PlansNext]_planVars PROVE PlansIInv'
    OBVIOUS
  <1>1. ASSUME NEW ref \in Quotes, ExecuteSingle(ref) PROVE PlansIInv'
    BY <1>1, ExecuteSingleInv
  <1>2. ASSUME NEW ref \in Quotes, ExecuteMulti(ref) PROVE PlansIInv'
    BY <1>2, ExecuteMultiInv
  <1>3. ASSUME NEW i \in DOMAIN plans, Reject(i) PROVE PlansIInv'
    BY <1>3, RejectInv
  <1>4. ASSUME NEW i \in DOMAIN plans, NEW ref \in Quotes, Reentry(i, ref) PROVE PlansIInv'
    BY <1>4, ReentryInv
  <1>5. CASE Close
    BY <1>5, PlansStutterInv DEF Close
  <1>6. CASE UNCHANGED planVars
    BY <1>6, PlansStutterInv DEF planVars
  <1>7. QED BY <1>1, <1>2, <1>3, <1>4, <1>5, <1>6 DEF PlansNext

\* The inductive invariant of the plans.
THEOREM PlansInvariant == PlansSpec => []PlansIInv
  <1>1. PlansInit => PlansIInv
    BY PlansInitInv
  <1>2. PlansIInv /\ [PlansNext]_planVars => PlansIInv'
    BY PlansNextInv
  <1>3. QED BY <1>1, <1>2, PTL DEF PlansSpec

\* Where the builder's tolerance is not the smaller one, no level that is
\* deferred waits at the broker (_execute_multi, decide_order_type).
THEOREM NoDeferredRests == PlansSpec => []DeferredNeverRest
  <1>1. PlansIInv => DeferredNeverRest
    BY DEF PlansIInv
  <1>2. QED BY <1>1, PlansInvariant, PTL

\* The bound follows from the invariant: the terms of an equal split are some of
\* those of the bound, and otherwise each order is at most the volume of its plan.
LEMMA SentWithinBound == PlansIInv => SentBounded
  <1> DEFINE n == Len(plans)
  <1> SUFFICES ASSUME PlansIInv, n > 1
               PROVE  Sum(Volumes) <=
                        IF channel.split = "equal"
                        THEN Sum([k \in 1..n |-> Larger(1, total \div k)])
                        ELSE n * total
    BY DEF SentBounded, Volumes
  <1>1. /\ n \in Nat /\ DOMAIN plans = 1..n /\ plans # <<>> /\ total \in Nat \ {0}
        /\ Cardinality(Pending) \in 0..n /\ plans \in Seq(Plan) /\ IsFiniteSet(1..n)
    BY PendingType, EmptySeq, FS_Interval DEF PlansIInv, PlansTyped
  <1>2. IsFiniteSet(orders) /\ \A o \in orders : Volumes[o] \in Nat /\ Volumes[o] <= total
    BY <1>1 DEF PlansIInv, OnePerPlan, Volumes
  <1>3. Sum(Volumes) = SumOn(Volumes, orders)
    <2>1. Volumes \in [orders -> Nat]
      BY <1>2 DEF Volumes
    <2>2. QED BY <2>1, SumIsSumOn
  <1>4. SumOn(Volumes, orders) \in Nat
    BY <1>2, SumOnType
  <1>5. CASE channel.split = "equal"
    <2> DEFINE A == (Cardinality(Pending) + 1)..n
               id == [k \in A |-> k]
    <2>1. \A k \in 1..n : Parts[k] \in Nat
      BY <1>1, PartType DEF Parts
    <2>2. A \subseteq 1..n /\ IsFiniteSet(A)
      <3>1. A \subseteq 1..n
        BY <1>1
      <3>2. QED BY <1>1, <3>1, FS_Subset
    <2>3. SumOn(Volumes, orders) <= SumOn(Parts, A)
      BY <1>1, <1>5 DEF PlansIInv, EqualSoFar, Volumes
    <2>4. SumOn(Parts, A) <= SumOn(Parts, 1..n)
      <3>1. \A k \in A : id[k] \in 1..n /\ Parts[k] <= Parts[id[k]]
        BY <2>1, <2>2
      <3>2. \A j, k \in A : id[j] = id[k] => j = k
        OBVIOUS
      <3>3. \A k \in A : Parts[k] \in Nat
        BY <2>1, <2>2
      <3> HIDE DEF A, id, n
      <3>4. QED BY <1>1, <2>1, <2>2, <3>1, <3>2, <3>3, SumOnInjection
    <2>5. Sum(Parts) = SumOn(Parts, 1..n)
      <3>1. Parts \in [1..n -> Nat]
        BY <2>1 DEF Parts
      <3>2. QED BY <3>1, SumIsSumOn
    <2>6. Parts = [k \in 1..n |-> Larger(1, total \div k)]
      BY DEF Parts, Part
    <2>7. SumOn(Parts, A) \in Nat /\ SumOn(Parts, 1..n) \in Nat
      <3>1. \A k \in A : Parts[k] \in Nat
        BY <2>1, <2>2
      <3> HIDE DEF A, n
      <3>2. QED BY <1>1, <2>1, <2>2, <3>1, SumOnType
    <2> HIDE DEF A, n
    <2>8. QED BY <1>3, <1>4, <1>5, <2>3, <2>4, <2>5, <2>6, <2>7
  <1>6. CASE channel.split # "equal"
    <2> DEFINE whole == [k \in 1..n |-> total]
               plan == [o \in orders |-> o.id + 1]
    <2>1. \A o \in orders : plan[o] \in 1..n /\ Volumes[o] <= whole[plan[o]]
      BY <1>1, <1>2 DEF PlansIInv, OnePerPlan
    <2>2. \A o, q \in orders : plan[o] = plan[q] => o = q
      <3>1. \A o \in orders : o.id \in Nat
        BY DEF PlansIInv, OnePerPlan
      <3>2. \A a, b \in Nat : a + 1 = b + 1 => a = b
        OBVIOUS
      <3>3. \A o, q \in orders : o.id = q.id => o = q
        BY DEF PlansIInv, OnePerPlan
      <3>4. QED BY <3>1, <3>2, <3>3
    <2>3. \A k \in 1..n : whole[k] = total /\ whole[k] \in Nat
      BY <1>1
    <2> HIDE DEF whole, plan, n
    <2>4. SumOn(Volumes, orders) <= SumOn(whole, 1..n)
      BY <1>1, <1>2, <2>1, <2>2, <2>3, SumOnInjection
    <2>5. SumOn(whole, 1..n) = Cardinality(1..n) * total
      BY <1>1, <2>3, SumOnConstant
    <2>6. Cardinality(1..n) = n
      BY <1>1, FS_Interval
    <2>7. QED BY <1>3, <1>6, <2>4, <2>5, <2>6
  <1>7. QED BY <1>5, <1>6

\* However the levels are entered, refused and cancelled, a signal opens at most
\* the harmonic number of its levels times its volume in an equal split, and at
\* most one volume per level in any other (split_volume, handle_reentry).
THEOREM SentIsBounded == PlansSpec => []SentBounded
  <1>1. QED BY SentWithinBound, PlansInvariant, PTL

\* A re-entry that is sent now is at least the share of its level.
LEMMA ReentryNeverShrinks ==
    ASSUME PlansIInv, NEW i \in Pending,
           channel.split = "pyramid" => \A j \in DOMAIN plans : j > i => plans[j].status = "pending"
    PROVE  ReentryVolume(i) >= plans[i].share
  <1> DEFINE n == Len(plans)
             few == PendingLevels
             all == AllLevels
  <1>1. /\ plans \in Seq(Plan) /\ signal.sl \in Int /\ total \in Nat \ {0}
        /\ n \in Nat /\ DOMAIN plans = 1..n /\ i \in 1..n /\ Pending \subseteq 1..n
    BY PlansAssumption, PendingType DEF PlansIInv, PlansTyped
  <1>2. /\ few \in Seq(Int) /\ Len(few) = Cardinality(Pending)
        /\ \A k \in 1..Len(few) : few[k] = plans[At[k]].level
    BY <1>1, PendingLevelsAre
  <1>3. all \in Seq(Int) /\ Len(all) = n /\ \A j \in 1..n : all[j] = plans[j].level
    BY <1>1, AllLevelsAre DEF AllLevels
  <1>4. /\ At \in [1..Len(few) -> Pending] /\ At[Place(i)] = i
        /\ \A k \in 1..Len(few) : Place(At[k]) = k
    BY <1>1, <1>2, AtType
  <1>5. Place(i) \in 1..Len(few)
    BY <1>1, <1>2, PlaceType
  <1> HIDE DEF few, all
  <1>6. few # <<>> /\ all # <<>>
    BY <1>1, <1>2, <1>3, <1>5, EmptySeq
  <1>7. At \in [1..Len(few) -> 1..Len(all)]
    BY <1>1, <1>3, <1>4
  <1>8. \A j, k \in 1..Len(few) : At[j] = At[k] => j = k
    BY <1>4
  <1>9. \A j \in 1..Len(few) : few[j] = all[At[j]]
    BY <1>1, <1>2, <1>3, <1>4
  <1>10. channel.split = "pyramid" => Len(few) - Place(i) = Len(all) - At[Place(i)]
    <2> SUFFICES ASSUME channel.split = "pyramid"
                 PROVE  Len(few) - Place(i) = Len(all) - At[Place(i)]
      OBVIOUS
    <2>1. \A j \in (i + 1)..n : j \in Pending
      <3>1. \A j \in (i + 1)..n : j \in 1..n /\ j > i
        BY <1>1
      <3>2. QED BY <1>1, <3>1 DEF Pending
    <2>2. Cardinality(Pending) - Place(i) = n - i
      BY <1>1, <2>1, PlaceFromTheEnd
    <2>3. QED BY <1>2, <1>3, <1>4, <2>2
  <1>11. SplitVolume(total, channel.split, few, signal.sl)[Place(i)]
           >= SplitVolume(total, channel.split, all, signal.sl)[At[Place(i)]]
    BY <1>1, <1>2, <1>3, <1>5, <1>6, <1>7, <1>8, <1>9, <1>10, SplitGrows
  <1>12. plans[i].share = SplitVolume(total, channel.split, all, signal.sl)[i]
    BY <1>1 DEF PlansIInv, SharesKept, all
  <1>13. QED BY <1>4, <1>11, <1>12 DEF ReentryVolume, few

\* A re-entry never sends less than the share its level got when the signal
\* came; with a pyramid, as long as the deeper levels are pending
\* (handle_reentry).
THEOREM ReentriesNeverShrink == PlansSpec => NeverShrinks
  <1> DEFINE Kept(o) ==
          /\ o.later
          /\ channel.split = "pyramid" =>
                \A i \in DOMAIN plans : i > o.id + 1 => plans[i].status = "pending"
          => o.volume >= plans[o.id + 1].share
  <1>1. ASSUME PlansIInv, PlansNext, NEW o \in orders' \ orders PROVE Kept(o)
    <2>1. CASE \E ref \in Quotes : ExecuteSingle(ref)
      <3>1. o.later = FALSE
        BY <2>1 DEF ExecuteSingle, Order
      <3>2. QED BY <3>1
    <2>2. CASE \E ref \in Quotes : ExecuteMulti(ref)
      <3>1. o.later = FALSE
        BY <2>2 DEF ExecuteMulti, Order
      <3>2. QED BY <3>1
    <2>3. CASE \E i \in DOMAIN plans, ref \in Quotes : Reentry(i, ref)
      <3>1. PICK i \in DOMAIN plans : /\ o.id = i - 1 /\ o.volume = ReentryVolume(i)
                                      /\ plans[i].status = "pending"
        BY <2>3 DEF Reentry, Order
      <3>2. i \in Pending /\ o.id + 1 = i
        <4>1. i \in Nat
          BY PendingType DEF PlansIInv, PlansTyped
        <4>2. QED BY <3>1, <4>1 DEF Pending
      <3>3. (channel.split = "pyramid" => \A j \in DOMAIN plans : j > i => plans[j].status = "pending")
              => o.volume >= plans[i].share
        BY <1>1, <3>1, <3>2, ReentryNeverShrinks
      <3>4. QED BY <3>2, <3>3
    <2>4. CASE (\E i \in DOMAIN plans : Reject(i)) \/ Close
      <3>1. orders' = orders
        BY <2>4 DEF Reject, Close
      <3>2. QED BY <3>1
    <2>5. QED BY <1>1, <2>1, <2>2, <2>3, <2>4 DEF PlansNext
  <1>2. PlansIInv /\ [PlansNext]_planVars => [\A o \in orders' \ orders : Kept(o)]_planVars
    BY <1>1
  <1>3. PlansSpec => [][\A o \in orders' \ orders : Kept(o)]_planVars
    <2> HIDE DEF Kept
    <2>1. QED BY <1>2, PlansInvariant, PTL DEF PlansSpec
  <1>4. QED BY <1>3 DEF NeverShrinks
=============================================================================
