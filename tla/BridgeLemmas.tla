---------------------------- MODULE BridgeLemmas -----------------------------
(***************************************************************************)
(* Lemmas about the operators the modules share: the amounts, the jobs of  *)
(* a queue, and sums over finite sets as MapThenSumSet computes them (the  *)
(* caps of the two watchers are such sums).                                *)
(***************************************************************************)
EXTENDS BridgeAmounts, JobQueue, FiniteSetsExt, FiniteSetTheorems, TLAPS

-----------------------------------------------------------------------------
(***************************************************************************)
(* Amounts and jobs.                                                       *)
(***************************************************************************)

\* applyFee returns sats, and never more than it was given.
LEMMA ApplyFeeBound ==
    ASSUME NEW amount \in Nat
    PROVE  ApplyFee(amount) \in Nat /\ ApplyFee(amount) <= amount
<1> DEFINE rest == amount * (BpsDenom - FeeBps)
<1>1. FeeBps \in Nat /\ FeeBps <= 10000
  BY AmountsAssumption DEF BpsDenom
<1>2. amount * FeeBps \in Nat
  BY <1>1
<1>3. amount * (10000 - FeeBps) \in Nat
  BY <1>1
<1>4. rest \in Nat /\ rest <= amount * 10000
  BY <1>1, <1>2, <1>3 DEF BpsDenom
<1>5. QED
  BY <1>4 DEF ApplyFee, BpsDenom

\* Every queue operation maps a job to a job.
LEMMA JobType ==
    ASSUME NEW j \in Job
    PROVE  /\ Added(j) \in Job
           /\ Started(j) \in Job
           /\ Completed(j) \in Job
           /\ GivenUp(j) \in Job
           /\ Thrown(j) \in Job
           /\ Unstalled(j) \in Job
           /\ Trimmed(j) \in Job
<1> USE DEF Job, JobState
<1>1. NoJob \in Job
  BY DEF NoJob
<1>2. Added(j) \in Job
  BY <1>1 DEF Added
<1>3. Started(j) \in Job /\ Completed(j) \in Job /\ GivenUp(j) \in Job
  BY DEF Started, Completed, GivenUp
<1>4. Thrown(j) \in Job
  <2> DEFINE state == IF j.tries + 1 < Attempts THEN "wait" ELSE "failed"
  <2>1. state \in JobState /\ j.tries + 1 \in Nat
    OBVIOUS
  <2> HIDE DEF state
  <2>2. [j EXCEPT !.tries = j.tries + 1, !.state = state] \in Job
    BY <2>1
  <2>3. QED
    BY <2>2 DEF Thrown, state
<1>5. Unstalled(j) \in Job
  <2> DEFINE state == IF j.stalls < MaxStalls THEN "wait" ELSE "failed"
  <2>1. state \in JobState /\ j.stalls + 1 \in Nat
    OBVIOUS
  <2> HIDE DEF state
  <2>2. [j EXCEPT !.stalls = j.stalls + 1, !.state = state] \in Job
    BY <2>1
  <2>3. QED
    BY <2>2 DEF Unstalled, state
<1>6. QED
  BY <1>1, <1>2, <1>3, <1>4, <1>5 DEF Trimmed

\* How an attempt moves a job, from what every step but the first knows.
LEMMA JobMoves ==
    ASSUME NEW j \in Job
    PROVE  /\ Started(j).state = "active"
           /\ Completed(j).state = "completed"
           /\ GivenUp(j).state = "failed"
           /\ Thrown(j).state \in {"wait", "failed"}
           /\ Unstalled(j).state \in {"wait", "failed"}
           /\ Trimmed(j).state = "none"
<1>1. Started(j).state = "active" /\ Completed(j).state = "completed"
      /\ GivenUp(j).state = "failed" /\ Trimmed(j).state = "none"
  BY DEF Job, Started, Completed, GivenUp, Trimmed, NoJob
<1>2. Thrown(j).state \in {"wait", "failed"}
  <2> DEFINE state == IF j.tries + 1 < Attempts THEN "wait" ELSE "failed"
  <2>1. state \in {"wait", "failed"}
    OBVIOUS
  <2> HIDE DEF state
  <2>2. [j EXCEPT !.tries = j.tries + 1, !.state = state].state = state
    BY DEF Job
  <2>3. QED
    BY <2>1, <2>2 DEF Thrown, state
<1>3. Unstalled(j).state \in {"wait", "failed"}
  <2> DEFINE state == IF j.stalls < MaxStalls THEN "wait" ELSE "failed"
  <2>1. state \in {"wait", "failed"}
    OBVIOUS
  <2> HIDE DEF state
  <2>2. [j EXCEPT !.stalls = j.stalls + 1, !.state = state].state = state
    BY DEF Job
  <2>3. QED
    BY <2>1, <2>2 DEF Unstalled, state
<1>4. QED
  BY <1>1, <1>2, <1>3

-----------------------------------------------------------------------------
(***************************************************************************)
(* Sets of numbers, and of processes.                                      *)
(***************************************************************************)

\* Min returns an element.
LEMMA MinIsElement ==
    ASSUME NEW S \in SUBSET Nat, S # {}
    PROVE  Min(S) \in S
<1>1. PICK c \in S : \A d \in S : <<d, c>> \notin OpToRel(<, Nat)
  BY NatLessThanWellFounded, WFMin
<1>2. \A d \in S : ~(d < c)
  BY <1>1 DEF OpToRel
<1>3. \A d \in S : c <= d
  BY <1>2
<1>4. QED
  BY <1>3 DEF Min

\* Two sets of processes that differ in r alone.
LEMMA CardChange ==
    ASSUME NEW P, IsFiniteSet(P), NEW S \in SUBSET P, NEW T \in SUBSET P, NEW r \in P,
           \A q \in P \ {r} : q \in S <=> q \in T
    PROVE  /\ Cardinality(S) \in Nat /\ Cardinality(T) \in Nat
           /\ r \in T /\ r \notin S => Cardinality(T) = Cardinality(S) + 1
           /\ r \notin T /\ r \in S => Cardinality(T) = Cardinality(S) - 1
           /\ (r \in T <=> r \in S) => Cardinality(T) = Cardinality(S)
<1>1. IsFiniteSet(S) /\ IsFiniteSet(T)
  BY FS_Subset
<1>2. Cardinality(S) \in Nat /\ Cardinality(T) \in Nat
  BY <1>1, FS_CardinalityType
<1>3. ASSUME r \in T, r \notin S PROVE Cardinality(T) = Cardinality(S) + 1
  <2>1. T = S \union {r}
    BY <1>3
  <2>2. QED
    BY <1>1, <1>3, <2>1, FS_AddElement
<1>4. ASSUME r \notin T, r \in S PROVE Cardinality(T) = Cardinality(S) - 1
  <2>1. T = S \ {r}
    BY <1>4
  <2>2. QED
    BY <1>1, <1>4, <2>1, FS_RemoveElement
<1>5. ASSUME r \in T <=> r \in S PROVE Cardinality(T) = Cardinality(S)
  <2>1. T = S
    BY <1>5
  <2>2. QED
    BY <2>1
<1>6. QED
  BY <1>2, <1>3, <1>4, <1>5

-----------------------------------------------------------------------------
(***************************************************************************)
(* Sums.  The library's induction theorems take an operator as parameter,  *)
(* which the provers cannot instantiate; an induction over the subsets of  *)
(* a finite set is here the choice of a minimal element in the set of the  *)
(* counterexamples, by WFMin, and a sum is over a function rather than an  *)
(* operator.                                                               *)
(***************************************************************************)

\* The sum of v[x] for x in S.
Total(v, S) == MapThenSumSet(LAMBDA x : v[x], S)

\* The recursive function in MapThenFoldSet.
Pick(s) == CHOOSE x \in s : TRUE

Body(v, g, s) == IF s = {} THEN 0 ELSE v[Pick(s)] + g[s \ {Pick(s)}]

IsTotal(v, S, g) == g = [s \in SUBSET S |-> Body(v, g, s)]

TotalOf(v, S) == CHOOSE g : IsTotal(v, S, g)

\* The definition of a sum, unfolded.
LEMMA TotalUnfolded ==
    ASSUME NEW v, NEW S
    PROVE  Total(v, S) = TotalOf(v, S)[S]
BY DEF Total, MapThenSumSet, MapThenFoldSet, TotalOf, IsTotal, Body, Pick

\* A nonempty set of subsets of a finite set has a minimal element.
LEMMA MinimalSubset ==
    ASSUME NEW S, IsFiniteSet(S), NEW Bad \in SUBSET SUBSET S, Bad # {}
    PROVE  \E T \in Bad : \A U \in Bad : U \subseteq T => U = T
<1>1. IsWellFoundedOn(StrictSubsetOrdering(S), SUBSET S)
  BY FS_StrictSubsetOrderingWellFounded, FS_FiniteSubsetsOfFinite
<1>2. PICK T \in Bad : \A U \in Bad : <<U, T>> \notin StrictSubsetOrdering(S)
  BY <1>1, WFMin
<1>3. QED
  BY <1>2 DEF StrictSubsetOrdering

\* The element picked is in the set, and the rest is smaller.
LEMMA PickIsElement ==
    ASSUME NEW s, s # {}
    PROVE  Pick(s) \in s /\ s \ {Pick(s)} # s /\ s \ {Pick(s)} \subseteq s
BY DEF Pick

\* Two solutions of the recursion agree wherever both are defined.
LEMMA TotalIsUnique ==
    ASSUME NEW v, NEW S, NEW T, IsFiniteSet(S), NEW g, NEW h,
           IsTotal(v, S, g), IsTotal(v, T, h)
    PROVE  \A s \in SUBSET (S \cap T) : g[s] = h[s]
<1> DEFINE Bad == {s \in SUBSET (S \cap T) : g[s] # h[s]}
<1>1. SUFFICES ASSUME Bad # {} PROVE FALSE
  OBVIOUS
<1>2. Bad \in SUBSET SUBSET S
  OBVIOUS
<1>3. PICK s \in Bad : \A u \in Bad : u \subseteq s => u = s
  <2> HIDE DEF Bad
  <2>1. QED
    BY <1>1, <1>2, MinimalSubset
<1>4. g[s] = Body(v, g, s) /\ h[s] = Body(v, h, s)
  BY DEF IsTotal
<1>5. CASE s = {}
  BY <1>4, <1>5 DEF Body
<1>6. CASE s # {}
  <2>1. s \ {Pick(s)} \notin Bad /\ s \ {Pick(s)} \in SUBSET (S \cap T)
    BY <1>3, <1>6, PickIsElement
  <2>2. g[s \ {Pick(s)}] = h[s \ {Pick(s)}]
    BY <2>1
  <2>3. QED
    BY <1>4, <1>6, <2>2 DEF Body
<1>7. QED
  BY <1>5, <1>6

\* A solution for a set is one for its subsets.
LEMMA TotalExists ==
    ASSUME NEW v, NEW S, IsFiniteSet(S)
    PROVE  IsTotal(v, S, TotalOf(v, S))
<1> DEFINE Bad == {T \in SUBSET S : ~ \E g : IsTotal(v, T, g)}
<1>1. SUFFICES Bad = {}
  <2>1. \E g : IsTotal(v, S, g)
    BY <1>1
  <2>2. QED
    BY <2>1 DEF TotalOf
<1>2. SUFFICES ASSUME Bad # {} PROVE FALSE
  OBVIOUS
<1>3. PICK T \in Bad : \A U \in Bad : U \subseteq T => U = T
  <2>1. Bad \in SUBSET SUBSET S
    OBVIOUS
  <2> HIDE DEF Bad
  <2>2. QED
    BY <1>2, <2>1, MinimalSubset
<1>4. \A U \in SUBSET T : U # T => IsTotal(v, U, TotalOf(v, U))
  <2>1. ASSUME NEW U \in SUBSET T, U # T PROVE IsTotal(v, U, TotalOf(v, U))
    <3>1. U \notin Bad /\ U \in SUBSET S
      BY <1>3, <2>1
    <3>2. PICK g : IsTotal(v, U, g)
      BY <3>1
    <3>3. QED
      BY <3>2 DEF TotalOf
  <2>2. QED
    BY <2>1
<1> DEFINE rest(s) == s \ {Pick(s)}
           h == [s \in SUBSET T |-> IF s = {} THEN 0
                                    ELSE v[Pick(s)] + TotalOf(v, rest(s))[rest(s)]]
<1>5. ASSUME NEW s \in SUBSET T, s # {}
      PROVE  h[rest(s)] = TotalOf(v, rest(s))[rest(s)]
  <2> DEFINE u == rest(s)
  <2>1. u \in SUBSET T /\ u # T
    BY <1>5, PickIsElement
  <2>2. IsTotal(v, u, TotalOf(v, u))
    BY <1>4, <2>1
  <2>3. TotalOf(v, u)[u] = Body(v, TotalOf(v, u), u)
    BY <2>2 DEF IsTotal
  <2>4. CASE u = {}
    BY <2>1, <2>3, <2>4 DEF Body
  <2>5. CASE u # {}
    <3>1. rest(u) \in SUBSET T /\ rest(u) # T /\ rest(u) \subseteq u
      BY <2>1, <2>5, PickIsElement
    <3>2. IsTotal(v, rest(u), TotalOf(v, rest(u)))
      BY <1>4, <3>1
    <3>3. IsFiniteSet(u)
      BY <2>1, FS_Subset
    <3>4. rest(u) \in SUBSET (u \cap rest(u))
      BY <3>1
    <3> HIDE DEF u, rest
    <3>5. TotalOf(v, u)[rest(u)] = TotalOf(v, rest(u))[rest(u)]
      BY <2>2, <3>2, <3>3, <3>4, TotalIsUnique
    <3>6. TotalOf(v, u)[u] = v[Pick(u)] + TotalOf(v, u)[rest(u)]
      BY <2>3, <2>5 DEF Body, rest
    <3>7. h[u] = v[Pick(u)] + TotalOf(v, rest(u))[rest(u)]
      BY <2>1, <2>5
    <3>8. QED
      BY <3>5, <3>6, <3>7 DEF u
  <2>6. QED
    BY <2>4, <2>5
<1>6. \A s \in SUBSET T : h[s] = Body(v, h, s)
  <2>1. ASSUME NEW s \in SUBSET T PROVE h[s] = Body(v, h, s)
    <3>1. CASE s = {}
      BY <3>1 DEF Body
    <3>2. CASE s # {}
      <4>1. h[s] = v[Pick(s)] + TotalOf(v, rest(s))[rest(s)]
        BY <3>2
      <4>2. h[rest(s)] = TotalOf(v, rest(s))[rest(s)]
        BY <1>5, <3>2
      <4> HIDE DEF h
      <4>3. QED
        BY <3>2, <4>1, <4>2 DEF Body
    <3>3. QED
      BY <3>1, <3>2
  <2>2. QED
    BY <2>1
<1>7. IsTotal(v, T, h)
  <2>1. h = [s \in SUBSET T |-> h[s]]
    OBVIOUS
  <2> HIDE DEF h
  <2>2. QED
    BY <1>6, <2>1 DEF IsTotal
<1>8. QED
  BY <1>3, <1>7

\* The sum over no element.
LEMMA TotalEmpty ==
    ASSUME NEW v
    PROVE  Total(v, {}) = 0
<1>1. IsTotal(v, {}, TotalOf(v, {}))
  BY TotalExists, FS_EmptySet
<1>2. QED
  BY <1>1, TotalUnfolded DEF IsTotal, Body

\* The sum is the element picked and the sum of the rest.
LEMMA TotalPicked ==
    ASSUME NEW v, NEW S, IsFiniteSet(S), S # {}
    PROVE  Total(v, S) = v[Pick(S)] + Total(v, S \ {Pick(S)})
<1> DEFINE U == S \ {Pick(S)}
<1>1. IsFiniteSet(U) /\ U \in SUBSET (S \cap U)
  BY FS_RemoveElement
<1>2. IsTotal(v, S, TotalOf(v, S)) /\ IsTotal(v, U, TotalOf(v, U))
  BY <1>1, TotalExists
<1>3. TotalOf(v, S)[S] = v[Pick(S)] + TotalOf(v, S)[U]
  BY <1>2 DEF IsTotal, Body
<1> HIDE DEF U
<1>4. TotalOf(v, S)[U] = TotalOf(v, U)[U]
  BY <1>1, <1>2, TotalIsUnique
<1>5. QED
  BY <1>3, <1>4, TotalUnfolded DEF U

\* An induction over the subsets of a finite set: what holds of a set when it
\* holds of its proper subsets holds of all of them.
LEMMA SubsetInduction ==
    ASSUME NEW S, IsFiniteSet(S), NEW Good \in SUBSET SUBSET S,
           \A T \in SUBSET S : (\A U \in SUBSET T : U # T => U \in Good) => T \in Good
    PROVE  S \in Good
<1> DEFINE Bad == (SUBSET S) \ Good
<1>1. SUFFICES ASSUME Bad # {} PROVE FALSE
  OBVIOUS
<1>2. PICK T \in Bad : \A U \in Bad : U \subseteq T => U = T
  <2>1. Bad \in SUBSET SUBSET S
    OBVIOUS
  <2> HIDE DEF Bad
  <2>2. QED
    BY <1>1, <2>1, MinimalSubset
<1>3. \A U \in SUBSET T : U # T => U \in Good
  BY <1>2
<1>4. QED
  BY <1>2, <1>3

\* A sum of integers is an integer.
LEMMA TotalInt ==
    ASSUME NEW v, NEW S, IsFiniteSet(S), \A x \in S : v[x] \in Int
    PROVE  Total(v, S) \in Int
<1> DEFINE Good == {T \in SUBSET S : Total(v, T) \in Int}
<1>1. ASSUME NEW T \in SUBSET S, \A U \in SUBSET T : U # T => U \in Good
      PROVE  T \in Good
  <2>1. CASE T = {}
    BY <2>1, TotalEmpty
  <2>2. CASE T # {}
    <3>1. Total(v, T) = v[Pick(T)] + Total(v, T \ {Pick(T)})
      BY <2>2, FS_Subset, TotalPicked
    <3>2. QED
      BY <1>1, <2>2, <3>1, PickIsElement
  <2>3. QED
    BY <2>1, <2>2
<1>2. Good \in SUBSET SUBSET S
  OBVIOUS
<1> HIDE DEF Good
<1>3. S \in Good
  BY <1>1, <1>2, SubsetInduction
<1>4. QED
  BY <1>3 DEF Good

\* The sum is any one element and the sum of the rest.
LEMMA TotalRemove ==
    ASSUME NEW v, NEW S, IsFiniteSet(S), \A y \in S : v[y] \in Int, NEW x \in S
    PROVE  Total(v, S) = v[x] + Total(v, S \ {x})
<1> DEFINE Good == {T \in SUBSET S : \A y \in T : Total(v, T) = v[y] + Total(v, T \ {y})}
<1>1. ASSUME NEW T \in SUBSET S, \A U \in SUBSET T : U # T => U \in Good
      PROVE  T \in Good
  <2>1. CASE T = {}
    BY <2>1
  <2>2. ASSUME T # {}, NEW y \in T
        PROVE  Total(v, T) = v[y] + Total(v, T \ {y})
    <3> DEFINE c == Pick(T)
               rest == T \ {c, y}
    <3>1. c \in T /\ Total(v, T) = v[c] + Total(v, T \ {c})
      BY <2>2, FS_Subset, TotalPicked, PickIsElement
    <3>2. CASE y = c
      BY <3>1, <3>2
    <3>3. CASE y # c
      <4>1. Total(v, T \ {c}) = v[y] + Total(v, rest)
        <5>1. y \in T \ {c} /\ (T \ {c}) \ {y} = rest
          BY <3>3
        <5>2. QED
          BY <1>1, <3>1, <5>1
      <4>2. Total(v, T \ {y}) = v[c] + Total(v, rest)
        <5>1. c \in T \ {y} /\ (T \ {y}) \ {c} = rest
          BY <3>1, <3>3
        <5>2. QED
          BY <1>1, <2>2, <5>1
      <4>3. Total(v, rest) \in Int
        <5>1. IsFiniteSet(rest) /\ rest \subseteq S
          BY FS_Subset
        <5> HIDE DEF rest
        <5>2. QED
          BY <5>1, TotalInt
      <4>4. v[c] \in Int /\ v[y] \in Int
        BY <3>1, <2>2
      <4> HIDE DEF c, rest
      <4>5. QED
        BY <3>1, <4>1, <4>2, <4>3, <4>4
    <3>4. QED
      BY <3>2, <3>3
  <2>3. QED
    BY <2>1, <2>2
<1>2. Good \in SUBSET SUBSET S
  OBVIOUS
<1> HIDE DEF Good
<1>3. S \in Good
  BY <1>1, <1>2, SubsetInduction
<1>4. QED
  BY <1>3 DEF Good

\* ... and adding one element adds its value.
LEMMA TotalAdd ==
    ASSUME NEW v, NEW S, IsFiniteSet(S), NEW x, x \notin S,
           v[x] \in Int, \A y \in S : v[y] \in Int
    PROVE  Total(v, S \cup {x}) = v[x] + Total(v, S)
<1>1. IsFiniteSet(S \cup {x}) /\ (S \cup {x}) \ {x} = S
  BY FS_AddElement
<1>2. \A y \in S \cup {x} : v[y] \in Int
  OBVIOUS
<1> DEFINE U == S \cup {x}
<1>3. Total(v, U) = v[x] + Total(v, U \ {x})
  <2>1. x \in U /\ IsFiniteSet(U)
    BY <1>1
  <2> HIDE DEF U
  <2>2. QED
    BY <1>2, <2>1, TotalRemove DEF U
<1>4. QED
  BY <1>1, <1>3

\* A sum depends on the values of its elements only.
LEMMA TotalSame ==
    ASSUME NEW v, NEW w, NEW S, IsFiniteSet(S), \A x \in S : v[x] = w[x]
    PROVE  Total(v, S) = Total(w, S)
<1> DEFINE Good == {T \in SUBSET S : Total(v, T) = Total(w, T)}
<1>1. ASSUME NEW T \in SUBSET S, \A U \in SUBSET T : U # T => U \in Good
      PROVE  T \in Good
  <2>1. CASE T = {}
    BY <2>1, TotalEmpty
  <2>2. CASE T # {}
    <3>1. /\ Total(v, T) = v[Pick(T)] + Total(v, T \ {Pick(T)})
          /\ Total(w, T) = w[Pick(T)] + Total(w, T \ {Pick(T)})
      BY <2>2, FS_Subset, TotalPicked
    <3>2. QED
      BY <1>1, <2>2, <3>1, PickIsElement
  <2>3. QED
    BY <2>1, <2>2
<1>2. Good \in SUBSET SUBSET S
  OBVIOUS
<1> HIDE DEF Good
<1>3. S \in Good
  BY <1>1, <1>2, SubsetInduction
<1>4. QED
  BY <1>3 DEF Good

\* One value changes.
LEMMA TotalChange ==
    ASSUME NEW v, NEW w, NEW S, IsFiniteSet(S), NEW x \in S,
           \A y \in S : v[y] \in Int /\ w[y] \in Int,
           \A y \in S \ {x} : v[y] = w[y]
    PROVE  Total(w, S) = Total(v, S) + w[x] - v[x]
<1>1. IsFiniteSet(S \ {x})
  BY FS_RemoveElement
<1>2. Total(v, S \ {x}) = Total(w, S \ {x}) /\ Total(v, S \ {x}) \in Int
  BY <1>1, TotalSame, TotalInt
<1>3. Total(v, S) = v[x] + Total(v, S \ {x}) /\ Total(w, S) = w[x] + Total(w, S \ {x})
  BY TotalRemove
<1>4. QED
  BY <1>2, <1>3

\* Larger values have a larger sum.
LEMMA TotalMonotonic ==
    ASSUME NEW v, NEW w, NEW S, IsFiniteSet(S),
           \A x \in S : v[x] \in Int /\ w[x] \in Int /\ v[x] <= w[x]
    PROVE  Total(v, S) <= Total(w, S)
<1> DEFINE Good == {T \in SUBSET S : Total(v, T) <= Total(w, T)}
<1>1. ASSUME NEW T \in SUBSET S, \A U \in SUBSET T : U # T => U \in Good
      PROVE  T \in Good
  <2>1. CASE T = {}
    BY <2>1, TotalEmpty
  <2>2. CASE T # {}
    <3> DEFINE c == Pick(T)
               U == T \ {c}
    <3>1. Total(v, T) = v[c] + Total(v, U) /\ Total(w, T) = w[c] + Total(w, U)
      BY <2>2, FS_Subset, TotalPicked
    <3>2. c \in S /\ U \in SUBSET T /\ U # T /\ IsFiniteSet(U)
      BY <2>2, PickIsElement, FS_Subset
    <3>3. Total(v, U) \in Int /\ Total(w, U) \in Int
      <4> HIDE DEF U
      <4>1. QED
        BY <3>2, TotalInt
    <3>4. Total(v, U) <= Total(w, U)
      BY <1>1, <3>2
    <3>5. v[c] \in Int /\ w[c] \in Int /\ v[c] <= w[c]
      BY <3>2
    <3> HIDE DEF c, U
    <3>6. Total(v, T) <= Total(w, T)
      BY <3>1, <3>3, <3>4, <3>5
    <3>7. QED
      BY <3>6
  <2>3. QED
    BY <2>1, <2>2
<1>2. Good \in SUBSET SUBSET S
  OBVIOUS
<1> HIDE DEF Good
<1>3. S \in Good
  BY <1>1, <1>2, SubsetInduction
<1>4. QED
  BY <1>3 DEF Good

\* A sum of zeros.
LEMMA TotalZero ==
    ASSUME NEW S, IsFiniteSet(S)
    PROVE  Total([x \in S |-> 0], S) = 0
<1> DEFINE zero == [x \in S |-> 0]
           Good == {T \in SUBSET S : Total(zero, T) = 0}
<1>1. ASSUME NEW T \in SUBSET S, \A U \in SUBSET T : U # T => U \in Good
      PROVE  T \in Good
  <2>1. CASE T = {}
    BY <2>1, TotalEmpty
  <2>2. CASE T # {}
    <3>1. Total(zero, T) = zero[Pick(T)] + Total(zero, T \ {Pick(T)})
      BY <2>2, FS_Subset, TotalPicked
    <3>2. QED
      BY <1>1, <2>2, <3>1, PickIsElement
  <2>3. QED
    BY <2>1, <2>2
<1>2. Good \in SUBSET SUBSET S
  OBVIOUS
<1> HIDE DEF Good
<1>3. S \in Good
  BY <1>1, <1>2, SubsetInduction
<1>4. QED
  BY <1>3 DEF Good

\* A sum of naturals is a natural number.
LEMMA TotalNat ==
    ASSUME NEW v, NEW S, IsFiniteSet(S), \A x \in S : v[x] \in Nat
    PROVE  Total(v, S) \in Nat
<1> DEFINE zero == [x \in S |-> 0]
<1>1. Total(v, S) \in Int
  BY TotalInt
<1>2. Total(zero, S) <= Total(v, S)
  BY TotalMonotonic
<1>3. Total(zero, S) = 0
  BY TotalZero
<1>4. QED
  BY <1>1, <1>2, <1>3

\* A sum over a part of a set is a sum over the set with zeros elsewhere.
LEMMA TotalPart ==
    ASSUME NEW v, NEW S, IsFiniteSet(S), NEW T \in SUBSET S, \A x \in T : v[x] \in Int
    PROVE  Total(v, T) = Total([x \in S |-> IF x \in T THEN v[x] ELSE 0], S)
<1> DEFINE part == [x \in S |-> IF x \in T THEN v[x] ELSE 0]
           Good == {U \in SUBSET S : Total(v, U \cap T) = Total(part, U)}
<1>1. ASSUME NEW U \in SUBSET S, \A W \in SUBSET U : W # U => W \in Good
      PROVE  U \in Good
  <2>1. CASE U = {}
    <3>1. U \cap T = {}
      BY <2>1
    <3>2. QED
      BY <2>1, <3>1, TotalEmpty
  <2>2. CASE U # {}
    <3> DEFINE c == Pick(U)
               rest == U \ {c}
    <3>1. c \in U /\ c \in S /\ rest \in SUBSET U /\ rest # U
      BY <2>2, PickIsElement
    <3>2. Total(part, U) = part[c] + Total(part, rest)
      BY <2>2, FS_Subset, TotalPicked
    <3>3. Total(v, rest \cap T) = Total(part, rest)
      BY <1>1, <3>1
    <3>4. Total(part, rest) \in Int
      <4>1. IsFiniteSet(rest) /\ \A x \in rest : part[x] \in Int
        BY <3>1, FS_Subset
      <4> HIDE DEF part, rest
      <4>2. QED
        BY <4>1, TotalInt
    <3>5. CASE c \in T
      <4>1. Total(v, U \cap T) = v[c] + Total(v, (U \cap T) \ {c})
        <5>1. IsFiniteSet(U \cap T) /\ c \in U \cap T /\ \A x \in U \cap T : v[x] \in Int
          BY <3>1, <3>5, FS_Subset
        <5> HIDE DEF c
        <5>2. QED
          BY <5>1, TotalRemove
      <4>2. (U \cap T) \ {c} = rest \cap T
        OBVIOUS
      <4>3. part[c] = v[c]
        BY <3>1, <3>5
      <4> HIDE DEF c, rest, part
      <4>4. Total(v, U \cap T) = Total(part, U)
        BY <3>2, <3>3, <4>1, <4>2, <4>3
      <4>5. QED
        BY <4>4
    <3>6. CASE c \notin T
      <4>1. U \cap T = rest \cap T
        BY <3>6
      <4>2. part[c] = 0
        BY <3>1, <3>6
      <4> HIDE DEF c, rest, part
      <4>3. Total(v, U \cap T) = Total(part, U)
        BY <3>2, <3>3, <3>4, <4>1, <4>2
      <4>4. QED
        BY <4>3
    <3>7. QED
      BY <3>5, <3>6
  <2>3. QED
    BY <2>1, <2>2
<1>2. Good \in SUBSET SUBSET S
  OBVIOUS
<1> HIDE DEF Good
<1>3. S \in Good
  BY <1>1, <1>2, SubsetInduction
<1>4. S \cap T = T
  OBVIOUS
<1>5. QED
  BY <1>3, <1>4 DEF Good

\* A sum of sums.
LEMMA TotalPlus ==
    ASSUME NEW u, NEW v, NEW w, NEW S, IsFiniteSet(S),
           \A x \in S : v[x] \in Int /\ w[x] \in Int /\ u[x] = v[x] + w[x]
    PROVE  Total(u, S) = Total(v, S) + Total(w, S)
<1> DEFINE Good == {T \in SUBSET S : Total(u, T) = Total(v, T) + Total(w, T)}
<1>1. ASSUME NEW T \in SUBSET S, \A U \in SUBSET T : U # T => U \in Good
      PROVE  T \in Good
  <2>1. CASE T = {}
    BY <2>1, TotalEmpty
  <2>2. CASE T # {}
    <3> DEFINE c == Pick(T)
               U == T \ {c}
    <3>1. /\ Total(u, T) = u[c] + Total(u, U)
          /\ Total(v, T) = v[c] + Total(v, U)
          /\ Total(w, T) = w[c] + Total(w, U)
      BY <2>2, FS_Subset, TotalPicked
    <3>2. c \in S /\ U \in SUBSET T /\ U # T /\ IsFiniteSet(U)
      BY <2>2, PickIsElement, FS_Subset
    <3>3. Total(v, U) \in Int /\ Total(w, U) \in Int
      <4> HIDE DEF U
      <4>1. QED
        BY <3>2, TotalInt
    <3>4. Total(u, U) = Total(v, U) + Total(w, U)
      BY <1>1, <3>2
    <3>5. v[c] \in Int /\ w[c] \in Int /\ u[c] = v[c] + w[c]
      BY <3>2
    <3> HIDE DEF c, U
    <3>6. Total(u, T) = Total(v, T) + Total(w, T)
      BY <3>1, <3>3, <3>4, <3>5
    <3>7. QED
      BY <3>6
  <2>3. QED
    BY <2>1, <2>2
<1>2. Good \in SUBSET SUBSET S
  OBVIOUS
<1> HIDE DEF Good
<1>3. S \in Good
  BY <1>1, <1>2, SubsetInduction
<1>4. QED
  BY <1>3 DEF Good

\* A sum of multiples.
LEMMA TotalScaled ==
    ASSUME NEW v, NEW w, NEW k \in Int, NEW S, IsFiniteSet(S),
           \A x \in S : v[x] \in Int /\ w[x] = k * v[x]
    PROVE  Total(w, S) = k * Total(v, S)
<1> DEFINE Good == {T \in SUBSET S : Total(w, T) = k * Total(v, T)}
<1>1. ASSUME NEW T \in SUBSET S, \A U \in SUBSET T : U # T => U \in Good
      PROVE  T \in Good
  <2>1. CASE T = {}
    BY <2>1, TotalEmpty
  <2>2. CASE T # {}
    <3> DEFINE c == Pick(T)
               U == T \ {c}
    <3>1. /\ Total(v, T) = v[c] + Total(v, U)
          /\ Total(w, T) = w[c] + Total(w, U)
      BY <2>2, FS_Subset, TotalPicked
    <3>2. c \in S /\ U \in SUBSET T /\ U # T /\ IsFiniteSet(U)
      BY <2>2, PickIsElement, FS_Subset
    <3>3. Total(v, U) \in Int
      <4> HIDE DEF U
      <4>1. QED
        BY <3>2, TotalInt
    <3>4. Total(w, U) = k * Total(v, U)
      BY <1>1, <3>2
    <3>5. v[c] \in Int /\ w[c] = k * v[c]
      BY <3>2
    <3> HIDE DEF c, U
    <3>6. Total(w, T) = k * Total(v, T)
      <4> DEFINE a == v[c]
                 b == Total(v, U)
      <4>1. a \in Int /\ b \in Int
        BY <3>3, <3>5
      <4> HIDE DEF a, b
      <4>2. k * (a + b) = k * a + k * b
        BY <4>1
      <4>3. QED
        BY <3>1, <3>4, <3>5, <4>2 DEF a, b
    <3>7. QED
      BY <3>6
  <2>3. QED
    BY <2>1, <2>2
<1>2. Good \in SUBSET SUBSET S
  OBVIOUS
<1> HIDE DEF Good
<1>3. S \in Good
  BY <1>1, <1>2, SubsetInduction
<1>4. QED
  BY <1>3 DEF Good

\* A sum of ones counts the elements.
LEMMA TotalOnes ==
    ASSUME NEW S, IsFiniteSet(S)
    PROVE  Total([x \in S |-> 1], S) = Cardinality(S)
<1> DEFINE one == [x \in S |-> 1]
           Good == {T \in SUBSET S : Total(one, T) = Cardinality(T)}
<1>1. ASSUME NEW T \in SUBSET S, \A U \in SUBSET T : U # T => U \in Good
      PROVE  T \in Good
  <2>1. CASE T = {}
    BY <2>1, TotalEmpty, FS_EmptySet
  <2>2. CASE T # {}
    <3> DEFINE U == T \ {Pick(T)}
    <3>1. Total(one, T) = one[Pick(T)] + Total(one, U)
      BY <2>2, FS_Subset, TotalPicked
    <3>2. Pick(T) \in T /\ one[Pick(T)] = 1 /\ U \in SUBSET T /\ U # T
      BY <2>2, PickIsElement
    <3>3. Total(one, U) = Cardinality(U)
      BY <1>1, <3>2
    <3>4. Cardinality(U) = Cardinality(T) - 1 /\ Cardinality(T) \in Nat
      BY <3>2, FS_Subset, FS_RemoveElement, FS_CardinalityType
    <3>5. QED
      BY <3>1, <3>2, <3>3, <3>4
  <2>3. QED
    BY <2>1, <2>2
<1>2. Good \in SUBSET SUBSET S
  OBVIOUS
<1> HIDE DEF Good
<1>3. S \in Good
  BY <1>1, <1>2, SubsetInduction
<1>4. QED
  BY <1>3 DEF Good

\* A sum of numbers that are at most k, and 0 outside T.
LEMMA TotalBounded ==
    ASSUME NEW v, NEW S, IsFiniteSet(S), NEW T \in SUBSET S, NEW k \in Nat,
           \A x \in S : v[x] \in Int,
           \A x \in T : v[x] <= k, \A x \in S \ T : v[x] = 0
    PROVE  Total(v, S) <= k * Cardinality(T)
<1> DEFINE one == [x \in T |-> 1]
           ks == [x \in T |-> k]
           part == [x \in S |-> IF x \in T THEN v[x] ELSE 0]
<1>1. IsFiniteSet(T) /\ \A x \in T : v[x] \in Int
  BY FS_Subset
<1>2. Total(v, S) = Total(part, S)
  BY TotalSame
<1>3. Total(v, T) = Total(part, S)
  BY <1>1, TotalPart
<1>4. \A x \in T : v[x] \in Int /\ ks[x] \in Int /\ v[x] <= ks[x]
  BY <1>1
<1>5. \A x \in T : one[x] \in Int /\ ks[x] = k * one[x]
  OBVIOUS
<1>6. Total(one, T) = Cardinality(T)
  BY <1>1, TotalOnes
<1> HIDE DEF one, ks, part
<1>7. Total(v, T) <= Total(ks, T)
  BY <1>1, <1>4, TotalMonotonic
<1>8. Total(ks, T) = k * Total(one, T)
  BY <1>1, <1>5, TotalScaled
<1>9. QED
  BY <1>2, <1>3, <1>6, <1>7, <1>8
=============================================================================
