-------------------------- MODULE BrokerLimitsProofs --------------------------
(***************************************************************************)
(* What the orders add up to, in a day and in the account, stays within    *)
(* the limits: for any processes, ids, configs and limits.                 *)
(***************************************************************************)
EXTENDS BrokerVerdictProofs, BrokerAccount, FiniteSetTheorems

-----------------------------------------------------------------------------
(* Sums of the numbers that a function gives the members of a set *)

Sum(w, S) == MapThenSumSet(LAMBDA c : w[c], S)
AddsUp(w, iter, D) ==
    iter = [s \in D |-> IF s = {} THEN 0
                        ELSE LET y == CHOOSE z \in s : TRUE IN w[y] + iter[s \ {y}]]
Iter(w, S) == CHOOSE iter : AddsUp(w, iter, SUBSET S)

\* The sum is the last of those that a function from subsets adds up.
LEMMA SumIs == ASSUME NEW w, NEW S PROVE Sum(w, S) = Iter(w, S)[S]
BY Zenon DEF Sum, Iter, AddsUp, MapThenSumSet, MapThenFoldSet

\* Of some subsets of a finite set, one has no smaller one among them.
LEMMA Smallest ==
    ASSUME NEW U, IsFiniteSet(U), NEW Bad \in SUBSET (SUBSET U), Bad # {}
    PROVE  \E V \in Bad : IsFiniteSet(V) /\ \A x \in V : V \ {x} \notin Bad
<1> DEFINE Sizes == {Cardinality(V) : V \in Bad}
<1>1. \A V \in SUBSET U : IsFiniteSet(V) /\ Cardinality(V) \in Nat
  BY FS_Subset, FS_CardinalityType
<1>2. Sizes \in SUBSET Nat /\ Sizes # {}
  BY <1>1
<1>3. PICK k \in Sizes : \A j \in Sizes : <<j, k>> \notin OpToRel(<, Nat)
  <2> HIDE DEF Sizes
  <2> QED  BY <1>2, NatLessThanWellFounded, WFMin, ZenonT(30)
<1>4. PICK V \in Bad : k = Cardinality(V)
  OBVIOUS
<1>5. ASSUME NEW x \in V, V \ {x} \in Bad PROVE FALSE
  <2>1. Cardinality(V \ {x}) = Cardinality(V) - 1 /\ Cardinality(V) \in Nat
        /\ Cardinality(V \ {x}) \in Nat
    BY <1>1, <1>5, FS_RemoveElement
  <2>2. PICK j : j = Cardinality(V \ {x})
    OBVIOUS
  <2>3. j \in Sizes /\ j \in Nat /\ k \in Nat /\ j < k
    BY <1>4, <1>5, <2>1, <2>2
  <2>4. <<j, k>> \in Nat \X Nat /\ <<j, k>>[1] < <<j, k>>[2]
    BY <2>3
  <2>5. <<j, k>> \in OpToRel(<, Nat)
    BY <2>4, Zenon DEF OpToRel
  <2> QED  BY <1>3, <2>3, <2>5
<1> QED  BY <1>1, <1>4, <1>5

\* Two of them agree where both are defined.
LEMMA StepsAgree ==
    ASSUME NEW w, NEW A, IsFiniteSet(A), NEW B, NEW g, NEW h,
           AddsUp(w, g, SUBSET A), AddsUp(w, h, SUBSET B), NEW s \in SUBSET A, s \in SUBSET B
    PROVE  g[s] = h[s]
<1> DEFINE Bad == {r \in SUBSET A : r \in SUBSET B /\ g[r] # h[r]}
<1>1. SUFFICES ASSUME Bad # {} PROVE FALSE
  OBVIOUS
<1>2. PICK V \in Bad : \A x \in V : V \ {x} \notin Bad
  <2>1. Bad \in SUBSET (SUBSET A)
    OBVIOUS
  <2> HIDE DEF Bad
  <2> QED  BY <1>1, <2>1, Smallest
<1>3. V \in SUBSET A /\ V \in SUBSET B /\ g[V] # h[V]
  OBVIOUS
<1>4. V # {}
  BY <1>3, Zenon DEF AddsUp
<1>5. PICK x : x = CHOOSE z \in V : TRUE
  OBVIOUS
<1>6. x \in V
  BY <1>4, <1>5
<1>7. g[V] = w[x] + g[V \ {x}] /\ h[V] = w[x] + h[V \ {x}]
  <2> HIDE DEF Bad
  <2> QED  BY <1>3, <1>4, <1>5, Zenon DEF AddsUp
<1>8. g[V \ {x}] = h[V \ {x}]
  BY <1>2, <1>3, <1>6
<1> QED  BY <1>3, <1>7, <1>8

\* For a finite set there is one.
LEMMA IterSteps ==
    ASSUME NEW w, NEW U, IsFiniteSet(U)
    PROVE  AddsUp(w, Iter(w, U), SUBSET U)
<1> DEFINE Has(T) == \E g : AddsUp(w, g, SUBSET T)
           Bad == {T \in SUBSET U : ~Has(T)}
<1>1. SUFFICES ASSUME Bad # {} PROVE FALSE
  <2>1. Has(U) => AddsUp(w, Iter(w, U), SUBSET U)
    BY Zenon DEF Iter
  <2> QED  BY <2>1
<1>2. PICK V \in Bad : IsFiniteSet(V) /\ \A x \in V : V \ {x} \notin Bad
  <2>1. Bad \in SUBSET (SUBSET U)
    OBVIOUS
  <2> HIDE DEF Bad
  <2> QED  BY <1>1, <2>1, Smallest
<1>3. ASSUME NEW r \in SUBSET V, r # V PROVE AddsUp(w, Iter(w, r), SUBSET r) /\ IsFiniteSet(r)
  <2>1. PICK x \in V : x \notin r
    BY <1>3
  <2>2. PICK g : AddsUp(w, g, SUBSET (V \ {x}))
    BY <1>2
  <2> DEFINE h == [s \in SUBSET r |-> g[s]]
  <2>3. \A s \in SUBSET r : s \in SUBSET (V \ {x})
    BY <2>1
  <2>4. ASSUME NEW s \in SUBSET r
        PROVE  h[s] = IF s = {} THEN 0
                      ELSE LET y == CHOOSE z \in s : TRUE IN w[y] + h[s \ {y}]
    <3>1. g[s] = IF s = {} THEN 0
                 ELSE LET y == CHOOSE z \in s : TRUE IN w[y] + g[s \ {y}]
      BY <2>2, <2>3, Zenon DEF AddsUp
    <3>2. h[s] = g[s] /\ \A y : h[s \ {y}] = g[s \ {y}]
      OBVIOUS
    <3> QED  BY <3>1, <3>2, Zenon
  <2>5. AddsUp(w, h, SUBSET r)
    BY <2>4 DEF AddsUp
  <2> HIDE DEF h
  <2> QED  BY <1>2, <2>5, FS_Subset, Zenon DEF Iter
<1> DEFINE h == [s \in SUBSET V |->
                    IF s = {} THEN 0
                    ELSE LET y == CHOOSE z \in s : TRUE
                         IN  w[y] + Iter(w, s \ {y})[s \ {y}]]
<1>4. ASSUME NEW r \in SUBSET V, r # V PROVE h[r] = Iter(w, r)[r]
  <2>1. AddsUp(w, Iter(w, r), SUBSET r) /\ IsFiniteSet(r)
    BY <1>3, <1>4
  <2>2. PICK y : y = CHOOSE z \in r : TRUE
    OBVIOUS
  <2>3. Iter(w, r)[r] = IF r = {} THEN 0 ELSE w[y] + Iter(w, r)[r \ {y}]
    BY <2>1, <2>2, Zenon DEF AddsUp
  <2>4. h[r] = IF r = {} THEN 0 ELSE w[y] + Iter(w, r \ {y})[r \ {y}]
    BY <2>2
  <2>5. r \ {y} \in SUBSET V /\ r \ {y} # V /\ r \ {y} \in SUBSET r
    BY <1>4
  <2>6. AddsUp(w, Iter(w, r \ {y}), SUBSET (r \ {y}))
    BY <1>3, <2>5
  <2>7. Iter(w, r)[r \ {y}] = Iter(w, r \ {y})[r \ {y}]
    <3>1. PICK q : q = r \ {y}
      OBVIOUS
    <3>2. q \in SUBSET r /\ q \in SUBSET q /\ AddsUp(w, Iter(w, q), SUBSET q)
      BY <2>5, <2>6, <3>1
    <3>3. Iter(w, r)[q] = Iter(w, q)[q]
      BY <2>1, <3>2, StepsAgree
    <3> QED  BY <3>1, <3>3
  <2> QED  BY <2>3, <2>4, <2>7
<1>5. ASSUME NEW s \in SUBSET V
      PROVE  h[s] = IF s = {} THEN 0
                    ELSE LET y == CHOOSE z \in s : TRUE IN w[y] + h[s \ {y}]
  <2>1. PICK x : x = CHOOSE z \in s : TRUE
    OBVIOUS
  <2>2. h[s] = IF s = {} THEN 0 ELSE w[x] + Iter(w, s \ {x})[s \ {x}]
    BY <2>1
  <2>3. s # {} => x \in s
    BY <2>1
  <2>4. s # {} => s \ {x} \in SUBSET V /\ s \ {x} # V
    BY <2>3
  <2> HIDE DEF h
  <2>5. s # {} => h[s \ {x}] = Iter(w, s \ {x})[s \ {x}]
    BY <1>4, <2>4
  <2> QED  BY <2>1, <2>2, <2>5, Zenon
<1>6. AddsUp(w, h, SUBSET V)
  BY <1>5 DEF AddsUp
<1> HIDE DEF h
<1> QED  BY <1>2, <1>6

\* Nothing adds up to zero.
LEMMA SumNone == ASSUME NEW w PROVE Sum(w, {}) = 0
<1>1. IsFiniteSet({}) /\ {} \in SUBSET {}
  BY FS_EmptySet
<1>2. AddsUp(w, Iter(w, {}), SUBSET {})
  BY <1>1, IterSteps
<1> QED  BY <1>1, <1>2, SumIs, Zenon DEF AddsUp

\* A sum takes one of its set, and adds the sum of the others.
LEMMA SumTakes ==
    ASSUME NEW w, NEW U, IsFiniteSet(U)
    PROVE  U # {} => LET y == CHOOSE z \in U : TRUE IN Sum(w, U) = w[y] + Sum(w, U \ {y})
<1>2. PICK x : x = CHOOSE z \in U : TRUE
  OBVIOUS
<1>3. IsFiniteSet(U \ {x})
  BY FS_Subset
<1>4. AddsUp(w, Iter(w, U), SUBSET U) /\ AddsUp(w, Iter(w, U \ {x}), SUBSET (U \ {x}))
  BY <1>3, IterSteps
<1>5. Iter(w, U)[U \ {x}] = Iter(w, U \ {x})[U \ {x}]
  <2>1. PICK q : q = U \ {x}
    OBVIOUS
  <2>2. q \in SUBSET U /\ q \in SUBSET q /\ AddsUp(w, Iter(w, q), SUBSET q)
    BY <1>4, <2>1
  <2>3. Iter(w, U)[q] = Iter(w, q)[q]
    BY <1>4, <2>2, StepsAgree
  <2> QED  BY <2>1, <2>3
<1>6. U # {} => Iter(w, U)[U] = w[x] + Iter(w, U)[U \ {x}]
  BY <1>2, <1>4, Zenon DEF AddsUp
<1> QED  BY <1>2, <1>5, <1>6, SumIs, Zenon

\* A sum of numbers is a number, and any of them may be taken first.
LEMMA SumAny ==
    ASSUME NEW w, NEW U, IsFiniteSet(U), \A c \in U : w[c] \in Nat
    PROVE  Sum(w, U) \in Nat /\ \A x \in U : Sum(w, U) = w[x] + Sum(w, U \ {x})
<1> DEFINE Bad == {V \in SUBSET U : ~(Sum(w, V) \in Nat)}
<1>1. Bad = {}
  <2>1. SUFFICES ASSUME Bad # {} PROVE FALSE
    OBVIOUS
  <2>2. PICK V \in Bad : IsFiniteSet(V) /\ \A x \in V : V \ {x} \notin Bad
    <3>1. Bad \in SUBSET (SUBSET U)
      OBVIOUS
    <3> HIDE DEF Bad
    <3> QED  BY <2>1, <3>1, Smallest
  <2>3. V # {}
    BY SumNone
  <2>4. PICK x : x = CHOOSE z \in V : TRUE
    OBVIOUS
  <2>5. x \in V /\ Sum(w, V) = w[x] + Sum(w, V \ {x})
    BY <2>2, <2>3, <2>4, SumTakes
  <2>6. Sum(w, V \ {x}) \in Nat
    BY <2>2, <2>5
  <2>7. Sum(w, V) \in Nat
    BY <2>5, <2>6
  <2> QED  BY <2>7
<1>2. \A V \in SUBSET U : Sum(w, V) \in Nat
  BY <1>1
<1> DEFINE Odd == {V \in SUBSET U : \E x \in V : Sum(w, V) # w[x] + Sum(w, V \ {x})}
<1>3. Odd = {}
  <2>1. SUFFICES ASSUME Odd # {} PROVE FALSE
    OBVIOUS
  <2>2. PICK V \in Odd : IsFiniteSet(V) /\ \A x \in V : V \ {x} \notin Odd
    <3>1. Odd \in SUBSET (SUBSET U)
      OBVIOUS
    <3> HIDE DEF Odd
    <3> QED  BY <2>1, <3>1, Smallest
  <2>3. PICK x \in V : Sum(w, V) # w[x] + Sum(w, V \ {x})
    OBVIOUS
  <2>4. PICK y : y = CHOOSE z \in V : TRUE
    OBVIOUS
  <2>5. y \in V /\ Sum(w, V) = w[y] + Sum(w, V \ {y})
    BY <2>2, <2>3, <2>4, SumTakes
  <2>6. x # y
    BY <2>3, <2>5
  <2>7. Sum(w, V \ {y}) = w[x] + Sum(w, (V \ {y}) \ {x})
    BY <2>2, <2>5, <2>6
  <2>8. Sum(w, V \ {x}) = w[y] + Sum(w, (V \ {x}) \ {y})
    BY <2>2, <2>3, <2>5, <2>6
  <2>9. (V \ {y}) \ {x} = (V \ {x}) \ {y}
    OBVIOUS
  <2>10. Sum(w, (V \ {x}) \ {y}) \in Nat /\ w[x] \in Nat /\ w[y] \in Nat
    BY <1>2, <2>5
  <2>11. PICK m, n, k : m = Sum(w, V \ {x}) /\ n = Sum(w, V \ {y}) /\ k = Sum(w, (V \ {x}) \ {y})
    OBVIOUS
  <2>12. n = w[x] + k /\ m = w[y] + k /\ Sum(w, V) = w[y] + n
    BY <2>5, <2>7, <2>8, <2>9, <2>11
  <2>13. Sum(w, V) = w[x] + m
    BY <2>10, <2>11, <2>12
  <2> HIDE DEF Odd
  <2> QED  BY <2>3, <2>11, <2>13
<1> QED  BY <1>2, <1>3

\* More of them add up to no less.
LEMMA SumGrows ==
    ASSUME NEW w, NEW U, IsFiniteSet(U), \A c \in U : w[c] \in Nat, NEW S \in SUBSET U
    PROVE  Sum(w, S) <= Sum(w, U)
<1>1. \A V \in SUBSET U : IsFiniteSet(V) /\ \A c \in V : w[c] \in Nat
  BY FS_Subset
<1> DEFINE Bad == {V \in SUBSET U : S \subseteq V /\ ~(Sum(w, S) <= Sum(w, V))}
<1>2. SUFFICES ASSUME Bad # {} PROVE FALSE
  OBVIOUS
<1>3. PICK V \in Bad : \A x \in V : V \ {x} \notin Bad
  <2>1. Bad \in SUBSET (SUBSET U)
    OBVIOUS
  <2> HIDE DEF Bad
  <2> QED  BY <1>2, <2>1, Smallest
<1>4. Sum(w, V) \in Nat /\ Sum(w, S) \in Nat
  BY <1>1, SumAny
<1>5. PICK x \in V : x \notin S
  BY <1>4
<1>6. Sum(w, S) <= Sum(w, V \ {x}) /\ Sum(w, V \ {x}) \in Nat
  BY <1>1, <1>3, <1>5, SumAny
<1>7. Sum(w, V) = w[x] + Sum(w, V \ {x}) /\ w[x] \in Nat
  BY <1>1, <1>5, SumAny
<1> HIDE DEF Bad
<1>8. ~(Sum(w, S) <= Sum(w, V))
  BY DEF Bad
<1> QED  BY <1>4, <1>6, <1>7, <1>8

\* Greater numbers have a greater sum.
LEMMA SumLess ==
    ASSUME NEW v, NEW w, NEW U, IsFiniteSet(U),
           \A c \in U : v[c] \in Nat /\ w[c] \in Nat /\ v[c] <= w[c]
    PROVE  Sum(v, U) <= Sum(w, U)
<1>1. \A V \in SUBSET U : IsFiniteSet(V)
  BY FS_Subset
<1>2. \A V \in SUBSET U : Sum(v, V) \in Nat /\ Sum(w, V) \in Nat
  BY <1>1, SumAny
<1> DEFINE Bad == {V \in SUBSET U : ~(Sum(v, V) <= Sum(w, V))}
<1>3. SUFFICES ASSUME Bad # {} PROVE FALSE
  OBVIOUS
<1>4. PICK V \in Bad : \A x \in V : V \ {x} \notin Bad
  <2>1. Bad \in SUBSET (SUBSET U)
    OBVIOUS
  <2> HIDE DEF Bad
  <2> QED  BY <1>3, <2>1, Smallest
<1>5. V # {}
  <2>1. Sum(v, {}) = 0 /\ Sum(w, {}) = 0
    BY SumNone
  <2>2. ~(Sum(v, V) <= Sum(w, V))
    OBVIOUS
  <2>3. SUFFICES ASSUME V = {} PROVE FALSE
    OBVIOUS
  <2> HIDE DEF Bad
  <2>4. Sum(v, V) = 0 /\ Sum(w, V) = 0
    BY <2>1, <2>3, Zenon
  <2> QED  BY <2>2, <2>4
<1>6. PICK x \in V : TRUE
  BY <1>5
<1>7. Sum(v, V \ {x}) <= Sum(w, V \ {x}) /\ Sum(v, V \ {x}) \in Nat /\ Sum(w, V \ {x}) \in Nat
  BY <1>2, <1>4, <1>6
<1>8. Sum(v, V) = v[x] + Sum(v, V \ {x}) /\ Sum(w, V) = w[x] + Sum(w, V \ {x})
  BY <1>1, <1>6, SumAny
<1>9. v[x] \in Nat /\ w[x] \in Nat /\ v[x] <= w[x]
  BY <1>6
<1>10. ~(Sum(v, V) <= Sum(w, V))
  OBVIOUS
<1> HIDE DEF Bad
<1> QED  BY <1>7, <1>8, <1>9, <1>10

\* Two sums may be taken together.
LEMMA SumBoth ==
    ASSUME NEW u, NEW v, NEW w, NEW U, IsFiniteSet(U),
           \A c \in U : v[c] \in Nat /\ w[c] \in Nat /\ u[c] = v[c] + w[c]
    PROVE  Sum(u, U) = Sum(v, U) + Sum(w, U)
<1>1. \A V \in SUBSET U : IsFiniteSet(V)
  BY FS_Subset
<1>2. \A c \in U : u[c] \in Nat
  OBVIOUS
<1>3. \A V \in SUBSET U : Sum(u, V) \in Nat /\ Sum(v, V) \in Nat /\ Sum(w, V) \in Nat
  BY <1>1, <1>2, SumAny
<1> DEFINE Bad == {V \in SUBSET U : Sum(u, V) # Sum(v, V) + Sum(w, V)}
<1>4. SUFFICES ASSUME Bad # {} PROVE FALSE
  OBVIOUS
<1>5. PICK V \in Bad : \A x \in V : V \ {x} \notin Bad
  <2>1. Bad \in SUBSET (SUBSET U)
    OBVIOUS
  <2> HIDE DEF Bad
  <2> QED  BY <1>4, <2>1, Smallest
<1>6. V # {}
  <2>1. Sum(u, {}) = 0 /\ Sum(v, {}) = 0 /\ Sum(w, {}) = 0
    BY SumNone
  <2>2. Sum(u, V) # Sum(v, V) + Sum(w, V)
    OBVIOUS
  <2>3. SUFFICES ASSUME V = {} PROVE FALSE
    OBVIOUS
  <2> HIDE DEF Bad
  <2>4. Sum(u, V) = 0 /\ Sum(v, V) = 0 /\ Sum(w, V) = 0
    BY <2>1, <2>3, Zenon
  <2> QED  BY <2>2, <2>4
<1>7. PICK x \in V : TRUE
  BY <1>6
<1>8. /\ Sum(u, V \ {x}) = Sum(v, V \ {x}) + Sum(w, V \ {x})
      /\ Sum(v, V \ {x}) \in Nat /\ Sum(w, V \ {x}) \in Nat
  BY <1>3, <1>5, <1>7
<1>9. /\ Sum(u, V) = u[x] + Sum(u, V \ {x}) /\ Sum(v, V) = v[x] + Sum(v, V \ {x})
      /\ Sum(w, V) = w[x] + Sum(w, V \ {x})
  BY <1>1, <1>2, <1>7, SumAny
<1>10. v[x] \in Nat /\ w[x] \in Nat /\ u[x] = v[x] + w[x]
  BY <1>7
<1>11. Sum(u, V) # Sum(v, V) + Sum(w, V)
  OBVIOUS
<1> HIDE DEF Bad
<1> QED  BY <1>8, <1>9, <1>10, <1>11

\* Those that are zero need not be added.
LEMMA SumSome ==
    ASSUME NEW v, NEW w, NEW U, IsFiniteSet(U), NEW S \in SUBSET U,
           \A c \in U : w[c] \in Nat, \A c \in S : v[c] = w[c], \A c \in U \ S : w[c] = 0
    PROVE  Sum(v, S) = Sum(w, U)
<1>1. \A V \in SUBSET U : IsFiniteSet(V) /\ IsFiniteSet(V \cap S)
  BY FS_Subset
<1>2. \A V \in SUBSET U : Sum(w, V) \in Nat /\ Sum(v, V \cap S) \in Nat
  <2>1. \A c \in S : v[c] \in Nat
    OBVIOUS
  <2> QED  BY <1>1, <2>1, SumAny
<1> DEFINE Bad == {V \in SUBSET U : Sum(v, V \cap S) # Sum(w, V)}
<1>3. SUFFICES ASSUME Bad # {} PROVE FALSE
  <2>1. U \in SUBSET U /\ U \notin Bad /\ U \cap S = S
    BY <1>3
  <2>2. Sum(v, U \cap S) = Sum(w, U)
    BY <2>1
  <2>3. PICK T : T = U \cap S
    OBVIOUS
  <2> QED  BY <2>1, <2>2, <2>3
<1>4. PICK V \in Bad : \A x \in V : V \ {x} \notin Bad
  <2>1. Bad \in SUBSET (SUBSET U)
    OBVIOUS
  <2> HIDE DEF Bad
  <2> QED  BY <1>3, <2>1, Smallest
<1>5. V # {}
  <2>1. Sum(v, {}) = 0 /\ Sum(w, {}) = 0
    BY SumNone
  <2>2. {} \cap S = {}
    OBVIOUS
  <2> QED  BY <2>1, <2>2
<1>6. PICK x \in V : TRUE
  BY <1>5
<1>7. PICK T, R : T = V \cap S /\ R = (V \ {x}) \cap S
  OBVIOUS
<1>8. Sum(v, R) = Sum(w, V \ {x}) /\ Sum(v, R) \in Nat
  BY <1>2, <1>4, <1>6, <1>7
<1>9. Sum(w, V) = w[x] + Sum(w, V \ {x}) /\ w[x] \in Nat
  BY <1>1, <1>6, SumAny
<1>10. Sum(v, T) = w[x] + Sum(v, R)
  <2>1. CASE x \in S
    <3>1. x \in T /\ R = T \ {x} /\ IsFiniteSet(T) /\ v[x] = w[x] /\ \A c \in T : v[c] \in Nat
      BY <1>1, <1>6, <1>7, <2>1
    <3>2. Sum(v, T) = v[x] + Sum(v, T \ {x})
      BY <3>1, SumAny
    <3> QED  BY <3>1, <3>2
  <2>2. CASE x \notin S
    <3>1. R = T /\ w[x] = 0
      BY <1>6, <1>7, <2>2
    <3> QED  BY <1>8, <3>1
  <2> QED  BY <2>1, <2>2
<1>11. Sum(v, T) # Sum(w, V)
  BY <1>7
<1> HIDE DEF Bad
<1> QED  BY <1>8, <1>9, <1>10, <1>11

-----------------------------------------------------------------------------
(* What the broker has or may still get of a day's orders *)

OrderAttempts == EventsOfType("broker_order_attempt")

\* The orders that count towards the limit of the one attempted at i.
LiveUpTo(i) ==
    {ledger[j].id : j \in {k \in 1..i : /\ ledger[k].type = "broker_order_attempt"
                                        /\ ledger[k].date = ledger[i].date
                                        /\ Live(ledger[k].id)}}

\* An order counts on the date of its attempt, and so does its acceptance.
Dated ==
    /\ \A i \in OrderAttempts : ledger[i].date = Day(ledger[i].ts) /\ ledger[i].cfg \in Configs
    /\ \A i \in EventsOfType("broker_order_accepted") :
          \E a \in AttemptsOf(ledger[i].id) : ledger[a].date = ledger[i].date

\* An order about to be sent is the last attempted one, and the recheck's sum of
\* what was accepted on its date still holds.
Budgeted(o) ==
    /\ o.kind = "submit" =>
          /\ o.cfg \in Configs
          /\ o.step \in {"recheck", "transport"} =>
                \A i \in OrderAttempts : \A a \in AttemptsOf(o.id) : i <= a
          /\ o.step = "transport" => WithinDaily(o.id, o.cfg, Day(o.ready))
    /\ o.kind = "resolve" => \E a \in AttemptsOf(o.id) : ledger[a].ts = o.ready
BudgetsHold == \A p \in Procs : Budgeted(op[p])

\* The ledger and the order attempts in it.
LEMMA LedgerTyped ==
    ASSUME IInv
    PROVE  /\ ledger \in Seq(Events) /\ DOMAIN ledger = 1..Len(ledger) /\ Len(ledger) \in Nat
           /\ \A i \in DOMAIN ledger : i \in Nat /\ ledger[i] \in Events /\ 1..i \subseteq DOMAIN ledger
           /\ \A i \in OrderAttempts : i \in DOMAIN ledger /\ ledger[i].id \in OrderIds
  BY DEF IInv, TypeOK, LedgerSound, OrderAttempts, EventsOfType

\* An order's attempt is an order attempt.
LEMMA OrderAttemptThere ==
    ASSUME IInv, NEW c, c \notin CancelIds, NEW i \in AttemptsOf(c)
    PROVE  i \in OrderAttempts /\ ledger[i].id = c
  BY DEF AttemptsOf, EventsOf, AttemptEvents, OrderAttempts, EventsOfType, IInv, LedgerSound

\* What an appended event adds to the order attempts.
LEMMA OrderAttemptsGrow ==
    ASSUME IInv, NEW e \in Events, ledger' = Append(ledger, e), NEW type
    PROVE  EventsOfType(type)' = EventsOfType(type) \cup {i \in {NewAt} : e.type = type}
  BY LedgerGrows DEF EventsOfType

\* While the ledger stays, so does what it counts as accepted.
LEMMA AcceptedKept ==
    ASSUME UNCHANGED ledger, NEW date
    PROVE  AcceptedNotional(date)' = AcceptedNotional(date)
<1>1. AcceptedNotional(date) = Sum(Notional, AcceptedOn(ledger, date) \cap OrderIds)
  BY Zenon DEF AcceptedNotional, Sum
<1>2. AcceptedNotional(date)' = Sum(Notional, (AcceptedOn(ledger, date) \cap OrderIds)')
  BY Zenon DEF AcceptedNotional, Sum, MapThenSumSet, MapThenFoldSet, AcceptedOn
<1>3. (AcceptedOn(ledger, date) \cap OrderIds)' = AcceptedOn(ledger, date) \cap OrderIds
  BY DEF AcceptedOn
<1>. QED
  BY <1>1, <1>2, <1>3

\* What a process writes of an order is of the date of its attempt.
LEMMA DatedStep ==
    ASSUME IInv, Timely, Dated, BudgetsHold, [Next]_vars
    PROVE  Dated'
<1>1. ASSUME NEW e \in Events, ledger' = Append(ledger, e),
             e.type = "broker_order_attempt" => e.date = Day(e.ts) /\ e.cfg \in Configs,
             e.type = "broker_order_accepted" =>
                \E a \in AttemptsOf(e.id) : ledger[a].date = e.date
      PROVE  Dated'
  <2>1. /\ \A i \in DOMAIN ledger : ledger'[i] = ledger[i]
        /\ ledger'[NewAt] = e
        /\ \A c : AttemptsOf(c) \subseteq AttemptsOf(c)'
        /\ \A c : \A a \in AttemptsOf(c) : a \in DOMAIN ledger
    BY <1>1, LedgerGrows DEF AttemptsOf, EventsOf
  <2>2. \A type : \A i \in EventsOfType(type)' :
            \/ i \in EventsOfType(type) /\ i \in DOMAIN ledger
            \/ i = NewAt /\ e.type = type
    BY <1>1, OrderAttemptsGrow DEF EventsOfType
  <2>3. ASSUME NEW i \in OrderAttempts'
        PROVE  ledger'[i].date = Day(ledger'[i].ts) /\ ledger'[i].cfg \in Configs
    BY <1>1, <2>1, <2>2 DEF OrderAttempts, Dated
  <2>4. ASSUME NEW i \in EventsOfType("broker_order_accepted")'
        PROVE  \E a \in EventsOf(ledger', ledger'[i].id, AttemptEvents) :
                  ledger'[a].date = ledger'[i].date
    <3>1. PICK c : c = ledger'[i].id
      OBVIOUS
    <3>2. \E a \in AttemptsOf(c) : ledger[a].date = ledger'[i].date
      BY <1>1, <2>1, <2>2, <3>1 DEF Dated
    <3>3. \E a \in AttemptsOf(c)' : ledger'[a].date = ledger'[i].date
      BY <2>1, <3>2
    <3>. QED
      BY <3>1, <3>3 DEF AttemptsOf
  <2>. QED
    BY <2>3, <2>4 DEF Dated, Day, AttemptsOf, AttemptEvents
<1>2. ASSUME UNCHANGED ledger PROVE Dated'
  BY <1>2 DEF Dated, OrderAttempts, EventsOfType, AttemptsOf, Day
<1>3. ASSUME NEW p \in Procs, NEW e \in Events, Notes(p, e) \/ Doubts(p, e) PROVE Dated'
  <2>1. ledger' = Append(ledger, e)
    BY <1>3 DEF Notes, Doubts, Writes
  <2>2. e.type # "broker_order_attempt" /\ e.type # "broker_order_accepted"
    BY <1>3 DEF Notes, Doubts, OtherEvents, UnknownEvents
  <2>. QED
    BY <1>1, <2>1, <2>2
<1>4. ASSUME NEW p \in Procs, NEW e \in Events, Opens(p, e) PROVE Dated'
  <2>1. ledger' = Append(ledger, e) /\ e.type \in AttemptEvents
    BY <1>4, TypesListed DEF Opens, Writes
  <2>2. e.type = "broker_order_attempt" => e.date = Day(e.ts) /\ e.cfg \in Configs
    BY <1>4 DEF Opens, Attempted, BudgetsHold, Budgeted
  <2>. QED
    BY <1>1, <2>1, <2>2 DEF AttemptEvents
<1>5. ASSUME NEW p \in Procs, NEW e \in Events, NEW verdict \in Verdicts, Decides(p, e, verdict)
      PROVE  Dated'
  <2>1. /\ ledger' = Append(ledger, e) /\ e.id = op[p].id /\ e.date = Day(op[p].ready)
        /\ e.id \in Unresolved /\ e.type = Outcome(e.id, verdict) /\ Grounds(p, verdict)
    BY <1>5 DEF Decides, Writes
  <2>2. e.type # "broker_order_attempt"
    BY <2>1 DEF Outcome
  <2>3. ASSUME e.type = "broker_order_accepted"
        PROVE  \E a \in AttemptsOf(e.id) : ledger[a].date = e.date
    <3>1. e.id \notin CancelIds /\ verdict = "accepted"
      BY <2>1, <2>3 DEF Outcome
    <3>2. \A a \in AttemptsOf(e.id) : ledger[a].date = Day(ledger[a].ts)
      BY <3>1, OrderAttemptThere DEF Dated
    <3>3. \E a \in AttemptsOf(e.id) : ledger[a].ts = op[p].ready
      <4>1. CASE Mutating(op[p])
        <5>1. op[p].kind = "submit"
          BY <2>1, <3>1, <4>1 DEF Mutating, IInv, OperationsSound, OperationSound
        <5>2. AttemptsOf(e.id) # {}
          BY <2>1, AttemptThere
        <5>. QED
          BY <2>1, <4>1, <5>1, <5>2 DEF Timely, TimeSound
      <4>2. CASE op[p].kind = "resolve"
        BY <2>1, <4>2 DEF BudgetsHold, Budgeted
      <4>. QED
        BY <2>1, <3>1, <4>1, <4>2 DEF Grounds, Mutating
    <3>. QED
      BY <2>1, <3>2, <3>3
  <2>. QED
    BY <1>1, <2>1, <2>2, <2>3
<1>6. CASE Next
  BY <1>2, <1>3, <1>4, <1>5, <1>6, StepShape DEF Works, Sends, Transport, Quiet, Surroundings
<1>. QED
  BY <1>2, <1>6 DEF vars

\* What an order is sent on stays true until it is sent.
LEMMA BudgetsStep ==
    ASSUME IInv, IInv', BudgetsHold, [Next]_vars
    PROVE  BudgetsHold'
<1>1. ASSUME NEW p \in Procs, Works(p), Budgeted(op[p])' PROVE BudgetsHold'
  <2>1. \A q \in Procs \ {p} : op'[q].kind = "none"
    BY <1>1, OthersIdle DEF Idle
  <2>. QED
    BY <1>1, <2>1 DEF BudgetsHold, Budgeted
<1>2. ASSUME NEW p \in Procs, op'[p].kind \notin {"submit", "resolve"} PROVE Budgeted(op[p])'
  BY <1>2 DEF Budgeted
<1>3. ASSUME NEW p \in Procs, NEW e \in Events, Notes(p, e) PROVE Budgeted(op[p])'
  <2>1. op[p] \in Operations
    BY DEF IInv, TypeOK
  <2>2. CASE SubmitPreflight(p) /\ op'[p] = [op[p] EXCEPT !.step = "attempt", !.ready = clock]
    <3>1. op'[p].kind = "submit" /\ op'[p].step = "attempt" /\ op'[p].cfg = op[p].cfg
          /\ op[p].kind = "submit"
      <4>1. op[p].kind = "submit"
        BY <2>2 DEF SubmitPreflight, At
      <4>. QED
        BY <2>1, <2>2, <4>1 DEF Operations
    <3>. QED
      BY <3>1 DEF BudgetsHold, Budgeted
  <2>3. CASE op'[p] = Idle
    BY <1>2, <2>3 DEF Idle
  <2>4. CASE ReleaseRecord(p) /\ op'[p] = [op[p] EXCEPT !.step = "unlink"]
    BY <1>2, <2>1, <2>4 DEF Operations, ReleaseRecord, At
  <2>. QED
    BY <1>3, <2>2, <2>3, <2>4, WritesBecome
<1>4. ASSUME NEW p \in Procs, NEW e \in Events, Opens(p, e) PROVE Budgeted(op[p])'
  <2>1. op[p] \in Operations /\ e.id = op[p].id
    BY <1>4 DEF IInv, TypeOK, Opens
  <2>2. CASE op[p].kind = "cancel"
    BY <1>2, <1>4, <2>1, <2>2, WritesBecome DEF Operations
  <2>3. CASE op[p].kind = "submit"
    <3>1. /\ op'[p].kind = "submit" /\ op'[p].step = "recheck" /\ op'[p].cfg = op[p].cfg
          /\ op'[p].id = e.id
      BY <1>4, <2>1, <2>3 DEF Opens, Operations
    <3>2. AttemptsOf(e.id)' = {NewAt} /\ ledger' = Append(ledger, e)
      BY <1>4, OpensLeave DEF Opens, Writes
    <3>3. \A i \in OrderAttempts' : i <= NewAt
      BY <3>2, LedgerTyped, OrderAttemptsGrow DEF OrderAttempts, NewAt
    <3>4. \A i \in OrderAttempts' : \A a \in AttemptsOf(op[p].id)' : i <= a
      BY <3>1, <3>2, <3>3
    <3>. QED
      BY <2>3, <3>1, <3>4 DEF BudgetsHold, Budgeted
  <2>. QED
    BY <1>4, <2>2, <2>3 DEF Opens, Mutating
<1>5. ASSUME NEW p \in Procs, Sends(p) PROVE Budgeted(op[p])'
  <2>1. /\ op'[p].kind = op[p].kind /\ op'[p].cfg = op[p].cfg /\ op'[p].step = "await"
        /\ Mutating(op[p])
    BY <1>5, SendsBecomes DEF Operations
  <2>. QED
    BY <2>1 DEF BudgetsHold, Budgeted, Mutating
<1>6. ASSUME NEW p \in Procs, Quiet(p) PROVE Budgeted(op[p])'
  <2>1. UNCHANGED ledger
    BY <1>6 DEF Quiet
  <2>2. ASSUME NEW c \in OrderIds, NEW cfg \in Configs, SubmitBegun(p, c, cfg)
        PROVE  Budgeted(op[p])'
    BY <2>2, BegunFields DEF Budgeted
  <2>3. ASSUME SubmitRechecked(p) PROVE Budgeted(op[p])'
    <3>1. /\ op'[p].kind = "submit" /\ op[p].kind = "submit" /\ op[p].step = "recheck"
          /\ op'[p].step = "transport" /\ op'[p].id = op[p].id /\ op'[p].cfg = op[p].cfg
          /\ op'[p].ready = op[p].ready
      BY <2>3, GoneFields DEF Keeps
    <3>2. WithinDaily(op[p].id, op[p].cfg, Day(op[p].ready))
      BY <2>3 DEF SubmitRechecked, SubmitRecheck
    <3>3. WithinDaily(op[p].id, op[p].cfg, Day(op[p].ready))'
      <4>1. PICK date : date = Day(op[p].ready)
        OBVIOUS
      <4>2. AcceptedNotional(date)' = AcceptedNotional(date)
        BY <2>1, AcceptedKept
      <4>3. WithinDaily(op[p].id, op[p].cfg, date)
        BY <3>2, <4>1
      <4>. QED
        BY <3>1, <4>1, <4>2, <4>3 DEF WithinDaily
    <3>4. /\ op[p].cfg \in Configs
          /\ \A i \in OrderAttempts : \A a \in AttemptsOf(op[p].id) : i <= a
      BY <3>1 DEF BudgetsHold, Budgeted
    <3>5. \A i \in OrderAttempts' : \A a \in AttemptsOf(op[p].id)' : i <= a
      BY <2>1, <3>1, <3>4 DEF OrderAttempts, EventsOfType, AttemptsOf
    <3>. QED
      BY <3>1, <3>3, <3>4, <3>5 DEF Budgeted
  <2>4. ASSUME NEW c \in ClientIds, NEW verdict \in Verdicts, NEW b \in BrokerIds,
               ResolveBegun(p, c, verdict, b)
        PROVE  Budgeted(op[p])'
    <3>1. op'[p].kind = "resolve" /\ op'[p].id = c
      BY <2>4, BegunFields
    <3>2. op'[p].ready = ledger[AttemptOf(c)].ts
      BY <2>4 DEF ResolveBegun, Idle
    <3>3. AttemptOf(c) \in AttemptsOf(c)
      BY <2>4, AttemptThere DEF ResolveBegun, ResolveBegin
    <3>4. \E a \in AttemptsOf(op[p].id)' : ledger'[a].ts = op'[p].ready
      BY <2>1, <3>1, <3>2, <3>3 DEF AttemptsOf
    <3>. QED
      BY <3>1, <3>4 DEF Budgeted
  <2>5. ASSUME FreshlyRead(p) PROVE Budgeted(op[p])'
    <3>1. op[p] \in Operations
      BY DEF IInv, TypeOK
    <3>2. op'[p].kind = "resolve" /\ op[p].kind = "resolve" /\ op'[p].id = op[p].id
          /\ op'[p].ready = op[p].ready
      BY <2>5, <3>1, GoneFields DEF FreshlyRead, Keeps, Operations
    <3>3. \E a \in AttemptsOf(op[p].id) : ledger[a].ts = op[p].ready
      BY <3>2 DEF BudgetsHold, Budgeted
    <3>4. \E a \in AttemptsOf(op[p].id)' : ledger'[a].ts = op'[p].ready
      BY <2>1, <3>2, <3>3 DEF AttemptsOf
    <3>. QED
      BY <3>2, <3>4 DEF Budgeted
  <2>6. CASE \/ \E c \in CancelIds, b \in BrokerIds, cfg \in Configs : CancelBegun(p, c, b, cfg)
             \/ CandidateFound(p)
             \/ \E cfg \in Configs, readable \in BOOLEAN : OrdersRead(p, cfg, readable)
             \/ EngageBegun(p) \/ EngageWritten(p)
             \/ \E nonce \in 1..markers : ReleaseBegun(p, nonce)
             \/ Ended(p)
    BY <1>2, <2>6, BegunFields, GoneFields
  <2>. QED
    BY <1>6, <2>2, <2>3, <2>4, <2>5, <2>6, QuietBecomes
<1>7. ASSUME NEW p \in Procs, NEW e \in Events,
             Doubts(p, e) \/ \E verdict \in Verdicts : Decides(p, e, verdict)
      PROVE  Budgeted(op[p])'
  BY <1>2, <1>7 DEF Doubts, Decides, Idle
<1>8. ASSUME UNCHANGED <<op, ledger>> PROVE BudgetsHold'
  BY <1>8, AcceptedKept
  DEF BudgetsHold, Budgeted, OrderAttempts, EventsOfType, AttemptsOf, WithinDaily, Day
<1>9. ASSUME NEW p \in Procs, Works(p) PROVE BudgetsHold'
  BY <1>1, <1>3, <1>4, <1>5, <1>6, <1>7, <1>9 DEF Works
<1>10. CASE Next
  BY <1>8, <1>9, <1>10, StepShape DEF Surroundings
<1>. QED
  BY <1>8, <1>10 DEF vars

\* Finitely many events have finitely many ids.
LEMMA IdsFinite ==
    ASSUME NEW J, IsFiniteSet(J)
    PROVE  IsFiniteSet({ledger[j].id : j \in J})
<1>1. PICK T : T = {ledger[j].id : j \in J}
  OBVIOUS
<1>2. [j \in J |-> ledger[j].id] \in Surjection(J, T)
  BY <1>1 DEF Surjection
<1>. QED
  BY <1>1, <1>2, FS_Surjection

\* The orders that count for i are finitely many.
LEMMA LiveThere ==
    ASSUME IInv, NEW i \in OrderAttempts
    PROVE  LiveUpTo(i) \in SUBSET OrderIds /\ IsFiniteSet(LiveUpTo(i)) /\ i \in Nat
<1>1. i \in Nat /\ 1..i \subseteq DOMAIN ledger
  BY LedgerTyped
<1> DEFINE Counted == {k \in 1..i : /\ ledger[k].type = "broker_order_attempt"
                                    /\ ledger[k].date = ledger[i].date
                                    /\ Live(ledger[k].id)}
<1>2. \A k \in Counted : k \in OrderAttempts
  BY <1>1 DEF OrderAttempts, EventsOfType
<1>3. LiveUpTo(i) \in SUBSET OrderIds
  BY <1>2, LedgerTyped DEF LiveUpTo
<1>4. IsFiniteSet(Counted)
  <2>1. IsFiniteSet(1..i)
    BY <1>1, FS_Interval
  <2>. QED
    BY <2>1, FS_Subset
<1>5. LiveUpTo(i) = {ledger[j].id : j \in Counted}
  BY DEF LiveUpTo
<1>. HIDE DEF Counted
<1>6. IsFiniteSet(LiveUpTo(i))
  BY <1>4, <1>5, IdsFinite, Zenon
<1>. QED
  BY <1>1, <1>3, <1>6

\* The exposure in terms of these orders.
Exposed(i) == Live(ledger[i].id) => Sum(Notional, LiveUpTo(i)) <= MaxDaily[ledger[i].cfg]

LEMMA ExposureIs == DailyExposureWithinLimit <=> \A i \in OrderAttempts : Exposed(i)
  BY Zenon DEF DailyExposureWithinLimit, OrderAttempts, EventsOfType, Exposed, LiveUpTo, Sum

\* And after a step.
LEMMA ExposureWillBe ==
    DailyExposureWithinLimit' <=>
        \A i \in OrderAttempts' : Live(ledger[i].id)' => Sum(Notional, LiveUpTo(i)') <= MaxDaily[ledger'[i].cfg]
  BY Zenon DEF DailyExposureWithinLimit, OrderAttempts, EventsOfType, LiveUpTo, Sum, Live,
     MapThenSumSet, MapThenFoldSet

\* An order that is not undecided, but live, was accepted.
LEMMA LiveIsAccepted ==
    ASSUME IInv, DecidedOnce, RejectionIsTrue, NEW k \in OrderAttempts, Live(ledger[k].id),
           ledger[k].id \notin Unresolved, Dated
    PROVE  ledger[k].id \in AcceptedOn(ledger, ledger[k].date)
<1>1. PICK c \in OrderIds : c = ledger[k].id
  BY LedgerTyped
<1>2. c \in ClientIds /\ c \notin CancelIds /\ k \in AttemptsOf(c)
  BY <1>1, NamesAssumption
  DEF ClientIds, AttemptsOf, EventsOf, AttemptEvents, OrderAttempts, EventsOfType
<1>3. OutcomesOf(c) # {}
  <2>1. ASSUME OutcomesOf(c) = {} PROVE FALSE
    <3>1. IsUnresolved(ledger, c)
      BY <1>2, <2>1, TypesListed DEF IsUnresolved, OutcomesOf, AttemptsOf, EventsOf
    <3>. QED
      BY <1>1, <1>2, <3>1 DEF Unresolved
  <2>. QED
    BY <2>1
<1>4. PICK i \in OutcomesOf(c) : TRUE
  BY <1>3
<1>5. ledger[i].type \in {Outcome(c, "accepted"), Outcome(c, "rejected")} /\ i \in DOMAIN ledger
      /\ ledger[i].id = c
  BY <1>2, <1>4 DEF DecidedOnce, OutcomesOf, EventsOf
<1>6. ~HasOutcome(c, "rejected")
  BY <1>1, <1>2 DEF RejectionIsTrue
<1>7. ledger[i].type = "broker_order_accepted"
  BY <1>2, <1>5, <1>6 DEF HasOutcome, EventsOf, Outcome
<1>8. PICK a \in AttemptsOf(c) : ledger[a].date = ledger[i].date
  BY <1>5, <1>7 DEF Dated, EventsOfType
<1>9. a = k
  BY <1>2, <1>8 DEF IInv, LedgerSound, AttemptsOf
<1>. QED
  BY <1>1, <1>5, <1>7, <1>8, <1>9 DEF AcceptedOn

\* An undecided order is not accepted.
LEMMA UndecidedNotAccepted ==
    ASSUME IInv, DecidedOnce, NEW c \in Unresolved, NEW date
    PROVE  c \notin AcceptedOn(ledger, date)
<1>1. ASSUME c \in AcceptedOn(ledger, date) PROVE FALSE
  <2>1. PICK i \in DOMAIN ledger : ledger[i].type = "broker_order_accepted" /\ ledger[i].id = c
    BY <1>1 DEF AcceptedOn
  <2>2. i \in OutcomesOf(c) /\ c \in ClientIds
    BY <2>1 DEF OutcomesOf, EventsOf, ResolvedEvents, Unresolved
  <2>. QED
    BY <2>2 DEF DecidedOnce
<1>. QED
  BY <1>1

\* What is accepted on a date is finite.
LEMMA AcceptedFinite ==
    ASSUME IInv, NEW date
    PROVE  IsFiniteSet(AcceptedOn(ledger, date) \cap OrderIds)
<1> DEFINE Answers == {j \in DOMAIN ledger : /\ ledger[j].type = "broker_order_accepted"
                                             /\ ledger[j].date = date}
<1>1. IsFiniteSet(Answers)
  <2>1. IsFiniteSet(1..Len(ledger))
    BY LedgerTyped, FS_Interval
  <2>. QED
    BY <2>1, LedgerTyped, FS_Subset
<1>2. AcceptedOn(ledger, date) = {ledger[j].id : j \in Answers}
  BY DEF AcceptedOn
<1>. HIDE DEF Answers
<1>3. IsFiniteSet(AcceptedOn(ledger, date))
  BY <1>1, <1>2, IdsFinite, Zenon
<1>. QED
  BY <1>3, FS_Subset

\* The order that is being sent, together with all that count before it, is
\* within what the recheck allowed.
LEMMA SentWithinLimit ==
    ASSUME IInv, DecidedOnce, Timely, RejectionIsTrue, Dated, BudgetsHold,
           NEW p \in Procs, op[p].kind = "submit", op[p].step = "transport",
           op[p].id \in Unresolved, NEW a \in AttemptsOf(op[p].id),
           NEW S \in SUBSET (LiveUpTo(a) \cup {op[p].id})
    PROVE  Sum(Notional, S) <= MaxDaily[ledger[a].cfg]
<1>1. op[p].id \in OrderIds /\ op[p].id \notin CancelIds /\ op[p].id \in ClientIds
  BY NamesAssumption DEF IInv, OperationsSound, OperationSound, ClientIds
<1>2. a \in OrderAttempts /\ ledger[a].id = op[p].id
  BY <1>1, OrderAttemptThere
<1>3. PICK c, date, cfg : c = op[p].id /\ date = ledger[a].date /\ cfg = ledger[a].cfg
  OBVIOUS
<1>4. cfg = op[p].cfg /\ cfg \in Configs /\ date = Day(op[p].ready)
  BY <1>2, <1>3 DEF Timely, TimeSound, Mutating, Dated
<1>5. WithinDaily(c, cfg, date)
  BY <1>3, <1>4 DEF BudgetsHold, Budgeted
<1>6. PICK A : A = AcceptedOn(ledger, date) \cap OrderIds
  OBVIOUS
<1>7. AcceptedNotional(date) = Sum(Notional, A)
  BY <1>6, Zenon DEF AcceptedNotional, Sum
<1>8. Sum(Notional, A) + Notional[c] <= MaxDaily[cfg]
  BY <1>5, <1>7 DEF WithinDaily
<1>9. A \in SUBSET OrderIds /\ IsFiniteSet(A) /\ c \notin A
  BY <1>3, <1>6, AcceptedFinite, UndecidedNotAccepted
<1>10. PICK U : U = A \cup {c}
  OBVIOUS
<1>11. U \in SUBSET OrderIds /\ IsFiniteSet(U) /\ c \in U /\ U \ {c} = A
  <2>1. IsFiniteSet(A \cup {c})
    BY <1>9, FS_AddElement
  <2>. QED
    BY <1>1, <1>3, <1>9, <1>10, <2>1
<1>12. ASSUME NEW d \in LiveUpTo(a) PROVE d \in U
  <2>1. PICK k \in 1..a : /\ ledger[k].type = "broker_order_attempt" /\ ledger[k].date = date
                          /\ Live(ledger[k].id) /\ d = ledger[k].id
    BY <1>3, <1>12 DEF LiveUpTo
  <2>2. k \in OrderAttempts /\ d \in OrderIds
    <3>1. 1..a \subseteq DOMAIN ledger
      BY <1>2, LedgerTyped
    <3>2. k \in OrderAttempts
      BY <2>1, <3>1 DEF OrderAttempts, EventsOfType
    <3>. QED
      BY <2>1, <3>2, LedgerTyped
  <2>3. CASE d \in Unresolved
    <3>1. d = c
      BY <1>1, <1>3, <2>2, <2>3 DEF IInv, OneOrderOutstanding
    <3>. QED
      BY <1>10, <3>1
  <2>4. CASE d \notin Unresolved
    <3>1. d \in AcceptedOn(ledger, date)
      BY <2>1, <2>2, <2>4, LiveIsAccepted
    <3>. QED
      BY <1>6, <1>10, <2>2, <3>1
  <2>. QED
    BY <2>3, <2>4
<1>13. S \in SUBSET U
  BY <1>3, <1>10, <1>12
<1>14. Sum(Notional, S) <= Sum(Notional, U) /\ Sum(Notional, S) \in Nat /\ Sum(Notional, U) \in Nat /\ Sum(Notional, A) \in Nat
  <2>1. S \in SUBSET OrderIds /\ IsFiniteSet(S)
    BY <1>11, <1>13, FS_Subset
  <2>2. \A d \in U : Notional[d] \in Nat
    BY <1>11, LimitsAssumption
  <2>. QED
    BY <1>9, <1>11, <1>13, <2>1, <2>2, SumGrows, SumAny
<1>15. Sum(Notional, U) = Notional[c] + Sum(Notional, A)
  <2>1. \A d \in U : Notional[d] \in Nat
    BY <1>11, LimitsAssumption
  <2>. QED
    BY <1>11, <2>1, SumAny
<1>16. Notional[c] \in Nat /\ MaxDaily[cfg] \in Nat
  BY <1>1, <1>3, <1>4, LimitsAssumption
<1>17. Sum(Notional, S) <= MaxDaily[cfg]
  BY <1>8, <1>14, <1>15, <1>16
<1>. QED
  BY <1>3, <1>17

\* Where every live order was live already, no order counts that did not.
LEMMA ExposureShrinks ==
    ASSUME IInv, DailyExposureWithinLimit, Dated,
           \A i \in DOMAIN ledger : i \in DOMAIN ledger' /\ ledger'[i] = ledger[i],
           \A i \in OrderAttempts' : i \in OrderAttempts \/ ~Live(ledger[i].id)',
           \A c \in OrderIds : Live(c)' => Live(c)
    PROVE  DailyExposureWithinLimit'
<1>. SUFFICES ASSUME NEW i \in OrderAttempts', Live(ledger[i].id)'
              PROVE  Sum(Notional, LiveUpTo(i)') <= MaxDaily[ledger'[i].cfg]
  BY ExposureWillBe
<1>1. i \in OrderAttempts /\ i \in DOMAIN ledger /\ ledger'[i] = ledger[i]
      /\ 1..i \subseteq DOMAIN ledger /\ ledger[i].id \in OrderIds
  BY LedgerTyped
<1>2. Live(ledger[i].id)
  <2>1. PICK c : c = ledger[i].id
    OBVIOUS
  <2>2. Live(c)'
    BY <1>1, <2>1 DEF Live
  <2>. QED
    BY <1>1, <2>1, <2>2
<1>3. Sum(Notional, LiveUpTo(i)) <= MaxDaily[ledger[i].cfg]
  BY <1>1, <1>2, ExposureIs DEF Exposed
<1>4. LiveUpTo(i)' \subseteq LiveUpTo(i)
  <2>1. ASSUME NEW k \in 1..i, ledger'[k].type = "broker_order_attempt",
               ledger'[k].date = ledger'[i].date, Live(ledger[k].id)'
        PROVE  ledger'[k].id \in LiveUpTo(i)
    <3>1. ledger'[k] = ledger[k] /\ k \in DOMAIN ledger
      BY <1>1
    <3>2. PICK c : c = ledger[k].id
      OBVIOUS
    <3>3. c \in OrderIds
      BY <2>1, <3>1, <3>2, LedgerTyped DEF OrderAttempts, EventsOfType
    <3>4. Live(c)'
      BY <2>1, <3>1, <3>2 DEF Live
    <3>5. Live(c)
      BY <3>3, <3>4
    <3>. QED
      BY <1>1, <2>1, <3>1, <3>2, <3>5 DEF LiveUpTo
  <2>. QED
    BY <2>1 DEF LiveUpTo, Live
<1>5. PICK S, U : S = LiveUpTo(i)' /\ U = LiveUpTo(i)
  OBVIOUS
<1>6. U \in SUBSET OrderIds /\ IsFiniteSet(U) /\ S \in SUBSET U
  BY <1>1, <1>4, <1>5, LiveThere
<1>7. Sum(Notional, S) <= Sum(Notional, U) /\ Sum(Notional, U) \in Nat /\ Sum(Notional, S) \in Nat
  <2>1. S \in SUBSET OrderIds /\ IsFiniteSet(S)
    BY <1>6, FS_Subset
  <2>2. \A d \in U : Notional[d] \in Nat
    BY <1>6, LimitsAssumption
  <2>. QED
    BY <1>6, <2>1, <2>2, SumGrows, SumAny
<1>8. MaxDaily[ledger[i].cfg] \in Nat
  BY <1>1, LimitsAssumption DEF Dated
<1>9. Sum(Notional, S) <= MaxDaily[ledger[i].cfg]
  BY <1>3, <1>5, <1>7, <1>8
<1>. QED
  BY <1>1, <1>5, <1>9

\* An order that is sent counts from then on.
LEMMA ExposureSent ==
    ASSUME IInv, DecidedOnce, Timely, RejectionIsTrue, Dated, BudgetsHold,
           DailyExposureWithinLimit, NEW p \in Procs, Sends(p), op[p].kind = "submit"
    PROVE  DailyExposureWithinLimit'
<1>. SUFFICES ASSUME NEW i \in OrderAttempts', Live(ledger[i].id)'
              PROVE  Sum(Notional, LiveUpTo(i)') <= MaxDaily[ledger'[i].cfg]
  BY ExposureWillBe
<1>1. PICK c : c = op[p].id
  OBVIOUS
<1>2. /\ ledger' = ledger /\ op[p].step = "transport" /\ c \in Unresolved /\ c \in ClientIds
      /\ \A d \in ClientIds \ {c} : request'[d] = request[d]
  BY <1>1, SendsBecomes
<1>3. c \in OrderIds
  BY <1>1 DEF IInv, OperationsSound, OperationSound
<1>4. i \in OrderAttempts /\ 1..i \subseteq DOMAIN ledger /\ ledger[i].id \in OrderIds /\ i \in Nat
  <2>1. i \in OrderAttempts
    BY <1>2 DEF OrderAttempts, EventsOfType
  <2>. QED
    BY <2>1, LedgerTyped
<1>5. PICK a \in AttemptsOf(c) : AttemptsOf(c) = {a}
  BY <1>2, AttemptThere
<1>6. \A d \in ClientIds : d # c => (Live(d)' <=> Live(d))
  BY <1>2 DEF Live
<1>7. LiveUpTo(i)' \subseteq LiveUpTo(i) \cup {c}
  <2>1. ASSUME NEW k \in 1..i, ledger[k].type = "broker_order_attempt",
               ledger[k].date = ledger[i].date, Live(ledger[k].id)', ledger[k].id # c
        PROVE  ledger[k].id \in LiveUpTo(i)
    <3>1. PICK d : d = ledger[k].id
      OBVIOUS
    <3>2. d \in ClientIds
      BY <1>4, <2>1, <3>1, LedgerTyped DEF OrderAttempts, EventsOfType, ClientIds
    <3>3. Live(d)'
      BY <1>2, <2>1, <3>1 DEF Live
    <3>4. Live(d)
      BY <1>6, <2>1, <3>1, <3>2, <3>3
    <3>. QED
      BY <2>1, <3>1, <3>4 DEF LiveUpTo
  <2>. QED
    BY <1>2, <2>1 DEF LiveUpTo, Live
<1>8. CASE c \in LiveUpTo(i)'
  <2>1. PICK k \in 1..i : ledger[k].type = "broker_order_attempt" /\ ledger[k].id = c
    BY <1>2, <1>8 DEF LiveUpTo
  <2>2. k = a
    BY <1>4, <1>5, <2>1 DEF AttemptsOf, EventsOf, AttemptEvents
  <2>3. i <= a
    BY <1>1, <1>2, <1>4 DEF BudgetsHold, Budgeted
  <2>4. i = a
    BY <1>4, <2>2, <2>3
  <2>5. PICK S : S = LiveUpTo(i)'
    OBVIOUS
  <2>6. S \in SUBSET (LiveUpTo(a) \cup {op[p].id})
    BY <1>1, <1>7, <2>4, <2>5
  <2>7. Sum(Notional, S) <= MaxDaily[ledger[a].cfg]
    BY <1>1, <1>2, <2>6, SentWithinLimit
  <2>. QED
    BY <1>2, <2>4, <2>5, <2>7
<1>9. CASE c \notin LiveUpTo(i)'
  <2>1. PICK d : d = ledger[i].id
    OBVIOUS
  <2>2. Live(d)' /\ d \in ClientIds
    BY <1>2, <1>4, <2>1 DEF Live, ClientIds
  <2>3. d # c
    <3>1. d \in LiveUpTo(i)'
      <4>1. i \in 1..i /\ ledger[i].type = "broker_order_attempt"
        <5>1. i \in 1..Len(ledger) /\ Len(ledger) \in Nat
          BY <1>4, LedgerTyped
        <5>. QED
          BY <1>4, <5>1 DEF OrderAttempts, EventsOfType
      <4>2. Live(ledger[i].id)'
        BY <1>2
      <4>. QED
        BY <1>2, <2>1, <4>1, <4>2 DEF LiveUpTo, Live
    <3>. QED
      BY <1>9, <3>1
  <2>4. Live(d)
    BY <1>6, <2>2, <2>3
  <2>5. Sum(Notional, LiveUpTo(i)) <= MaxDaily[ledger[i].cfg]
    BY <1>4, <2>1, <2>4, ExposureIs DEF Exposed
  <2>6. PICK S, U : S = LiveUpTo(i)' /\ U = LiveUpTo(i)
    OBVIOUS
  <2>7. U \in SUBSET OrderIds /\ IsFiniteSet(U) /\ S \in SUBSET U
    BY <1>4, <1>7, <1>9, <2>6, LiveThere
  <2>8. Sum(Notional, S) <= Sum(Notional, U) /\ Sum(Notional, U) \in Nat /\ Sum(Notional, S) \in Nat
    <3>1. S \in SUBSET OrderIds /\ IsFiniteSet(S)
      BY <2>7, FS_Subset
    <3>2. \A x \in U : Notional[x] \in Nat
      BY <2>7, LimitsAssumption
    <3>. QED
      BY <2>7, <3>1, <3>2, SumGrows, SumAny
  <2>9. MaxDaily[ledger[i].cfg] \in Nat
    BY <1>4, LimitsAssumption DEF Dated
  <2>10. Sum(Notional, S) <= MaxDaily[ledger[i].cfg]
    BY <2>5, <2>6, <2>8, <2>9
  <2>. QED
    BY <1>2, <2>6, <2>10
<1>. QED
  BY <1>8, <1>9

\* Every step keeps a day's orders within the limit.
LEMMA ExposureStep ==
    ASSUME IInv, IInv', DecidedOnce, Timely, RequestsSound, RejectionIsTrue, Dated, BudgetsHold,
           DailyExposureWithinLimit, [Next]_vars
    PROVE  DailyExposureWithinLimit'
<1>1. ASSUME NEW e \in Events, ledger' = Append(ledger, e), UNCHANGED request,
             e.type = "broker_order_attempt" => ~Live(e.id)
      PROVE  DailyExposureWithinLimit'
  <2>1. /\ \A i \in DOMAIN ledger : i \in DOMAIN ledger' /\ ledger'[i] = ledger[i]
        /\ ledger'[NewAt] = e
    BY <1>1, LedgerGrows
  <2>2. \A i \in OrderAttempts' : i \in OrderAttempts \/ (i = NewAt /\ e.type = "broker_order_attempt")
    BY <1>1, OrderAttemptsGrow DEF OrderAttempts
  <2>3. \A i \in OrderAttempts' : i \in OrderAttempts \/ ~Live(ledger[i].id)'
    BY <1>1, <2>1, <2>2 DEF Live
  <2>4. \A c \in OrderIds : Live(c)' => Live(c)
    BY <1>1 DEF Live
  <2>. QED
    BY <2>1, <2>3, <2>4, ExposureShrinks
<1>2. ASSUME UNCHANGED ledger, \A c \in OrderIds : Live(c)' => Live(c)
      PROVE  DailyExposureWithinLimit'
  <2>1. \A i \in OrderAttempts' : i \in OrderAttempts
    BY <1>2 DEF OrderAttempts, EventsOfType
  <2>. QED
    BY <1>2, <2>1, ExposureShrinks
<1>3. ASSUME NEW p \in Procs, NEW e \in Events,
             \/ Notes(p, e) \/ Doubts(p, e)
             \/ \E verdict \in Verdicts : Decides(p, e, verdict)
      PROVE  DailyExposureWithinLimit'
  <2>1. ledger' = Append(ledger, e) /\ UNCHANGED request
    BY <1>3 DEF Notes, Doubts, Decides, Writes
  <2>2. e.type # "broker_order_attempt"
    BY <1>3 DEF Notes, OtherEvents, Doubts, UnknownEvents, Decides, Outcome
  <2>. QED
    BY <1>1, <2>1, <2>2
<1>4. ASSUME NEW p \in Procs, NEW e \in Events, Opens(p, e) PROVE DailyExposureWithinLimit'
  <2>1. ledger' = Append(ledger, e) /\ UNCHANGED request /\ e.id = op[p].id /\ Starting(op[p])
    BY <1>4 DEF Opens, Writes
  <2>2. e.id \in ClientIds /\ transports[e.id] = 0
    BY <1>4, <2>1, OpensLeave DEF Starting
  <2>3. ~Live(e.id)
    BY <2>2 DEF RequestsSound, RequestSound, Live
  <2>. QED
    BY <1>1, <2>1, <2>3
<1>5. ASSUME NEW p \in Procs, Sends(p) PROVE DailyExposureWithinLimit'
  <2>1. CASE op[p].kind = "submit"
    BY <1>5, <2>1, ExposureSent
  <2>2. CASE op[p].kind = "cancel"
    <3>1. op[p].id \in CancelIds
      BY <2>2 DEF IInv, OperationsSound, OperationSound
    <3>2. UNCHANGED ledger /\ \A c \in OrderIds : request'[c] = request[c]
      BY <1>5, <3>1, SendsBecomes, NamesAssumption DEF ClientIds
    <3>. QED
      BY <1>2, <3>2 DEF Live
  <2>. QED
    BY <1>5, <2>1, <2>2, SendsBecomes DEF Mutating
<1>6. ASSUME NEW p \in Procs, Quiet(p) PROVE DailyExposureWithinLimit'
  BY <1>2, <1>6 DEF Quiet, Live
<1>7. ASSUME Surroundings PROVE DailyExposureWithinLimit'
  <2>1. \A c \in OrderIds : Live(c)' => Live(c)
    BY <1>7, AnsweredOnce DEF Live, ClientIds
  <2>. QED
    BY <1>2, <1>7, <2>1 DEF Surroundings
<1>8. CASE UNCHANGED vars
  BY <1>2, <1>8 DEF vars, Live
<1>9. CASE Next
  BY <1>3, <1>4, <1>5, <1>6, <1>7, <1>9, StepShape DEF Works
<1>. QED
  BY <1>8, <1>9

\* What the daily limit rests on.
DInv == RInv /\ Dated /\ BudgetsHold /\ DailyExposureWithinLimit

\* What the broker has or may still get of a day's orders stays within the daily
\* limit that submit_order checked before it sent the last of them: whatever other
\* processes, restarts, unknown outcomes and resolutions came before.
THEOREM DailyLimitHolds ==
    ASSUME ClocksAgree
    PROVE  Spec => []DailyExposureWithinLimit
<1>1. Init => DInv
  <2>. SUFFICES ASSUME Init PROVE DInv
    OBVIOUS
  <2>1. RInv
    BY AInvInit DEF AInv
  <2>2. ledger = <<>> /\ \A p \in Procs : op[p] = Idle
    BY DEF Init
  <2>. QED
    BY <2>1, <2>2 DEF DInv, Dated, OrderAttempts, EventsOfType, BudgetsHold, Budgeted, Idle,
       DailyExposureWithinLimit
<1>2. ASSUME DInv, [Next]_vars PROVE DInv'
  <2>1. RInv'
    BY <1>2, RInvStep DEF DInv
  <2>2. /\ IInv /\ DecidedOnce /\ Timely /\ RequestsSound /\ RejectionIsTrue /\ IInv'
        /\ Dated /\ BudgetsHold /\ DailyExposureWithinLimit
    BY <1>2, <2>1 DEF DInv, RInv, TInv, LInv
  <2>3. Dated' /\ BudgetsHold'
    BY <1>2, <2>2, DatedStep, BudgetsStep
  <2>4. DailyExposureWithinLimit'
    BY <1>2, <2>2, ExposureStep
  <2>. QED
    BY <2>1, <2>3, <2>4 DEF DInv
<1>3. DInv => DailyExposureWithinLimit
  BY DEF DInv
<1>. QED
  BY <1>1, <1>2, <1>3, PTL DEF Spec

-----------------------------------------------------------------------------
(* What an order is sent on: the account as its preflight read it           *)

\* What is counted of a submission's orders: those that it read and the adapter's.
Known(p) == read[p].placed \cup OrderIds
\* What an order has added, or may still add, to the position; and the latter alone.
Weight == [b \in BrokerIds |-> IF Open(b) THEN Quantity[b] ELSE filled[b]]
LeftOver == [b \in BrokerIds |-> IF Open(b) THEN Quantity[b] - filled[b] ELSE 0]

FillsSound ==
    /\ filled \in [BrokerIds -> Nat]
    /\ \A b \in BrokerIds : filled[b] <= Quantity[b]

\* Until the order is sent, no more of the known orders is open than was read; what
\* is open adds no more than was read, until the limit is checked, and from then on
\* all of them and the order itself stay within the limit.
NotSent(o) == o.kind = "submit" /\ o.step \in {"preflight", "attempt", "recheck", "transport"}
ReadSound(p) ==
    /\ op[p].kind # "submit" => read[p] = NoRead
    /\ read[p].placed \in SUBSET BrokerIds /\ read[p].pending \in Nat /\ read[p].open \in Nat
    /\ \A b \in read[p].placed : book[b].state # "none"
    /\ NotSent(op[p]) /\ read[p].done =>
          \A S : S = {b \in Known(p) : Open(b)} => Cardinality(S) <= read[p].open
    /\ NotSent(op[p]) /\ read[p].done /\ op[p].step = "preflight" =>
          \A w, S : w = LeftOver /\ S = Known(p) => Sum(w, S) <= read[p].pending
    /\ NotSent(op[p]) /\ op[p].step # "preflight" =>
          /\ read[p].done /\ read[p].open < MaxOpen[op[p].cfg]
          /\ \A w, S : w = Weight /\ S = Known(p) =>
                Holding + Sum(w, S) + Quantity[op[p].id] <= MaxPosition[op[p].cfg]
ReadsSound == DOMAIN read = Procs /\ \A p \in Procs : ReadSound(p)

\* The broker's book goes on: what was placed stays, what is done stays, and only a
\* request on its way or an order of someone else comes new.
LEMMA BookGoesOn ==
    ASSUME IInv, RequestsSound, [Next]_vars, NEW b \in BrokerIds
    PROVE  \/ book'[b].state = book[b].state
           \/ book[b].state \in {"working", "cancelling"} /\ book'[b].state # "none"
           \/ /\ book[b].state = "none" /\ book'[b].state = "working"
              /\ b \in ForeignIds \/ (b \in OrderIds /\ request[b].state = "sent")
<1> DEFINE Goes == \/ book'[b].state = book[b].state
                   \/ book[b].state \in {"working", "cancelling"} /\ book'[b].state # "none"
                   \/ /\ book[b].state = "none" /\ book'[b].state = "working"
                      /\ b \in ForeignIds \/ (b \in OrderIds /\ request[b].state = "sent")
<1>1. book \in [BrokerIds -> Orders]
  BY DEF IInv, TypeOK
<1>2. ASSUME UNCHANGED book PROVE Goes
  BY <1>2
<1>3. ASSUME NEW c \in OrderIds, BrokerTakesOrder(c) PROVE Goes
  <2>1. c \in ClientIds /\ request[c].state = "sent"
    BY <1>3 DEF BrokerTakesOrder, ClientIds
  <2>2. book[c].state = "none"
    BY <2>1 DEF RequestsSound, RequestSound, TakenOrder
  <2>. QED
    BY <1>1, <1>3, <2>1, <2>2 DEF BrokerTakesOrder, Orders
<1>4. ASSUME NEW c \in CancelIds, BrokerTakesCancel(c) PROVE Goes
  BY <1>1, <1>4 DEF BrokerTakesCancel, Orders
<1>5. ASSUME NEW d \in BrokerIds, BrokerCancels(d) PROVE Goes
  <2>1. PICK t : book' = [book EXCEPT ![d].state = "done", ![d].cancelled = {t}]
    BY <1>5 DEF BrokerCancels
  <2>. QED
    BY <1>1, <1>5, <2>1 DEF BrokerCancels, Orders
<1>6. ASSUME NEW d \in BrokerIds, BrokerKeeps(d) \/ BrokerFills(d) PROVE Goes
  BY <1>1, <1>6 DEF BrokerKeeps, BrokerFills, Orders
<1>7. ASSUME NEW d \in ForeignIds, ForeignOrder(d) PROVE Goes
  BY <1>1, <1>7 DEF ForeignOrder, Orders
<1>8. CASE BrokerSteps
  BY <1>2, <1>3, <1>4, <1>5, <1>6, <1>7, <1>8 DEF BrokerSteps, BrokerRefuses
<1>9. CASE Tick \/ Regress
  BY <1>2, <1>9 DEF Tick, Regress, brokerVars
<1>10. ASSUME NEW p \in Procs, Works(p) PROVE Goes
  BY <1>2, <1>10 DEF Works, Notes, Opens, Doubts, Decides, Writes, Sends, Transport, Quiet
<1>11. CASE Next
  BY <1>8, <1>9, <1>10, <1>11, StepShape DEF Surroundings
<1>. QED
  BY <1>2, <1>11 DEF vars

\* How a submission goes on until it is sent.
LEMMA SubmitGoesOn ==
    ASSUME IInv, NEW p \in Procs, [Next]_vars, op'[p].kind = "submit"
    PROVE  \/ op[p].kind # "submit" /\ op'[p].step = "preflight"
           \/ op[p].kind = "submit" /\ op'[p] = op[p]
           \/ /\ op[p].kind = "submit" /\ op'[p].id = op[p].id /\ op'[p].cfg = op[p].cfg
              /\ <<op[p].step, op'[p].step>> \in {<<"preflight", "attempt">>, <<"attempt", "recheck">>,
                                                 <<"recheck", "transport">>, <<"transport", "await">>}
<1> DEFINE Goes == \/ op[p].kind # "submit" /\ op'[p].step = "preflight"
                   \/ op[p].kind = "submit" /\ op'[p] = op[p]
                   \/ /\ op[p].kind = "submit" /\ op'[p].id = op[p].id /\ op'[p].cfg = op[p].cfg
                      /\ <<op[p].step, op'[p].step>> \in
                            {<<"preflight", "attempt">>, <<"attempt", "recheck">>,
                             <<"recheck", "transport">>, <<"transport", "await">>}
<1>1. op[p] \in Operations
  BY DEF IInv, TypeOK
<1>2. op'[p] # Idle
  BY DEF Idle
<1>3. ASSUME NEW e, Notes(p, e) PROVE Goes
  <2>1. ReleaseRecord(p) => op[p].kind = "release"
    BY DEF ReleaseRecord, At
  <2>2. SubmitPreflight(p) => op[p].kind = "submit" /\ op[p].step = "preflight"
    BY DEF SubmitPreflight, At
  <2>3. \/ SubmitPreflight(p) /\ op'[p] = [op[p] EXCEPT !.step = "attempt", !.ready = clock]
        \/ ReleaseRecord(p) /\ op'[p] = [op[p] EXCEPT !.step = "unlink"]
    BY <1>2, <1>3, WritesBecome
  <2>. QED
    BY <1>1, <2>1, <2>2, <2>3 DEF Operations
<1>4. ASSUME NEW e, Opens(p, e) PROVE Goes
  BY <1>1, <1>4 DEF Opens, Operations
<1>5. ASSUME NEW e, Doubts(p, e) \/ \E verdict : Decides(p, e, verdict) PROVE FALSE
  BY <1>2, <1>5 DEF Doubts, Decides
<1>6. ASSUME Sends(p) PROVE Goes
  BY <1>1, <1>6, SendsBecomes DEF Operations
<1>7. ASSUME Quiet(p) PROVE Goes
  <2>1. \A c, cfg : SubmitBegun(p, c, cfg) => op'[p].step = "preflight" /\ op[p].kind # "submit"
    <3>1. \A c, cfg : SubmitBegun(p, c, cfg) => lock = NoName
      BY DEF SubmitBegun, SubmitBegin, Begin
    <3>2. lock = NoName => op[p].kind # "submit"
      BY NamesAssumption DEF IInv, LockHeld, Idle
    <3>. QED
      BY <3>1, <3>2, BegunFields
  <2>2. SubmitRechecked(p) => Goes
    BY GoneFields DEF Keeps
  <2>3. \/ \E c \in OrderIds, cfg \in Configs : SubmitBegun(p, c, cfg)
        \/ SubmitRechecked(p)
    BY <1>7, QuietBecomes, BegunFields, GoneFields
  <2>. QED
    BY <2>1, <2>2, <2>3
<1>8. ASSUME Works(p) PROVE Goes
  BY <1>3, <1>4, <1>5, <1>6, <1>7, <1>8 DEF Works
<1>9. ASSUME NEW q \in Procs, q # p, Works(q) PROVE Goes
  BY <1>2, <1>9, OthersIdle
<1>10. ASSUME UNCHANGED op PROVE Goes
  BY <1>10
<1>11. CASE Next
  BY <1>8, <1>9, <1>10, <1>11, StepShape DEF Surroundings
<1>. QED
  BY <1>10, <1>11 DEF vars

\* While a submission has not sent its order, no order is on its way.
LEMMA NoneFlying ==
    ASSUME AInv, NEW p \in Procs, NotSent(op[p]), NEW d \in OrderIds
    PROVE  request[d].state # "sent"
<1>1. SUFFICES ASSUME request[d].state = "sent" PROVE FALSE
  OBVIOUS
<1>2. IInv /\ DecidedOnce /\ RequestsSound /\ RejectionIsTrue /\ AcceptanceIsTrue
  BY DEF AInv, RInv, TInv, LInv
<1>3. d \in ClientIds /\ d \in Unresolved
  BY <1>1, <1>2, SentUndecided DEF ClientIds
<1>4. OperationSound(op[p]) /\ op[p].kind = "submit" /\ op[p].id \in OrderIds
  BY <1>2 DEF IInv, OperationsSound, OperationSound, NotSent
<1>5. Underway(op[p]) /\ op[p].step \in {"recheck", "transport"}
  BY <1>3, <1>4 DEF OperationSound, Starting, NotSent, Unresolved
<1>6. op[p].id \in Unresolved /\ transports[op[p].id] = 0
  BY <1>4, <1>5 DEF Underway, Unresolved, ClientIds
<1>7. op[p].id = d
  BY <1>2, <1>3, <1>4, <1>6 DEF IInv, OneOrderOutstanding
<1>. QED
  BY <1>1, <1>2, <1>3, <1>6, <1>7 DEF RequestsSound, RequestSound

\* What a step of the executor or of the broker does to the fills.
LEMMA FillsStep ==
    ASSUME FillsSound, AccountStep
    PROVE  /\ FillsSound'
           /\ \A b \in BrokerIds : Ends(b) \/ filled'[b] = filled[b]
<1>1. PICK f \in [BrokerIds -> UNION {0..Quantity[b] : b \in BrokerIds}] :
         /\ filled' = f
         /\ \A b \in BrokerIds : IF Ends(b) THEN f[b] \in filled[b]..Quantity[b]
                                 ELSE f[b] = filled[b]
  BY DEF AccountStep
<1>2. \A b \in BrokerIds : Quantity[b] \in Nat /\ filled[b] \in Nat /\ filled[b] <= Quantity[b]
  BY AccountAssumption DEF FillsSound
<1>3. \A b \in BrokerIds : f[b] \in Nat /\ f[b] <= Quantity[b]
  BY <1>1, <1>2
<1>. QED
  BY <1>1, <1>3 DEF FillsSound

\* What orders weigh are numbers.
LEMMA WeightTyped ==
    ASSUME FillsSound, NEW b \in BrokerIds
    PROVE  /\ Weight[b] \in Nat /\ LeftOver[b] \in Nat /\ filled[b] \in Nat
           /\ Weight[b] = filled[b] + LeftOver[b] /\ filled[b] <= Quantity[b]
           /\ Quantity[b] \in Nat
<1>1. filled[b] \in Nat /\ Quantity[b] \in Nat /\ filled[b] <= Quantity[b]
  BY AccountAssumption DEF FillsSound
<1>. QED
  BY <1>1 DEF Weight, LeftOver

\* The invariant of the account.
QInv == AInv /\ BudgetsHold /\ FillsSound /\ ReadsSound

\* What a step of the account does to the orders that are known to a submission.
OrderShrinks(b) ==
    /\ Open(b)' => Open(b)
    /\ book[b].state # "none" => book'[b].state # "none"
    /\ Weight'[b] <= Weight[b] /\ LeftOver'[b] <= LeftOver[b]

LEMMA KnownShrink ==
    ASSUME QInv, FillsSound', [Next]_vars, NEW p \in Procs, NotSent(op[p]), NEW b \in Known(p),
           \A d \in BrokerIds : Ends(d) \/ filled'[d] = filled[d]
    PROVE  OrderShrinks(b)
<1>1. b \in BrokerIds /\ (b \in OrderIds \/ book[b].state # "none")
  BY DEF Known, QInv, ReadsSound, ReadSound, BrokerIds
<1>2. AInv /\ IInv /\ RequestsSound /\ FillsSound
  BY DEF QInv, AInv, RInv, TInv, LInv
<1>3. /\ book[b].state = "none" => book'[b].state = "none"
      /\ book[b].state \in {"working", "cancelling"} => book'[b].state # "none"
      /\ book[b].state = "done" => book'[b].state = "done"
      /\ book[b].state \in {"none", "working", "cancelling", "done"}
  <2>1. book[b].state \in {"none", "working", "cancelling", "done"}
    BY <1>1, <1>2 DEF IInv, TypeOK, Orders
  <2>2. CASE book[b].state = "none"
    <3>1. b \in OrderIds /\ b \notin ForeignIds
      BY <1>1, <2>2, NamesAssumption
    <3>2. request[b].state # "sent"
      BY <1>2, <3>1, NoneFlying
    <3>. QED
      BY <1>1, <1>2, <2>2, <3>1, <3>2, BookGoesOn
  <2>. QED
    BY <1>1, <1>2, <2>1, <2>2, BookGoesOn
<1>4. Open(b)' => Open(b)
  BY <1>3 DEF Open
<1>5. /\ Weight'[b] = IF Open(b)' THEN Quantity[b] ELSE filled'[b]
      /\ LeftOver'[b] = IF Open(b)' THEN Quantity[b] - filled'[b] ELSE 0
      /\ Weight[b] = IF Open(b) THEN Quantity[b] ELSE filled[b]
      /\ LeftOver[b] = IF Open(b) THEN Quantity[b] - filled[b] ELSE 0
  BY <1>1 DEF Weight, LeftOver, Open
<1>6. /\ filled'[b] \in Nat /\ filled'[b] <= Quantity[b]
      /\ filled[b] \in Nat /\ filled[b] <= Quantity[b] /\ Quantity[b] \in Nat
  BY <1>1, <1>2, AccountAssumption DEF FillsSound
<1>7. CASE filled'[b] = filled[b]
  BY <1>3, <1>4, <1>5, <1>6, <1>7 DEF OrderShrinks
<1>8. CASE Ends(b)
  <2>1. Open(b) /\ ~Open(b)'
    BY <1>3, <1>8 DEF Ends, Open
  <2>. QED
    BY <1>3, <1>4, <1>5, <1>6, <2>1 DEF OrderShrinks
<1>. QED
  BY <1>1, <1>7, <1>8

\* So do their sums, and so does the number of those that are open.
LEMMA KnownKept ==
    ASSUME IsFiniteSet(BrokerIds), FillsSound, FillsSound', NEW p, Known(p) \in SUBSET BrokerIds,
           \A b \in Known(p) : OrderShrinks(b), read'[p] = read[p]
    PROVE  /\ Known(p)' = Known(p)
           /\ Sum(Weight', Known(p)) <= Sum(Weight, Known(p))
           /\ Sum(LeftOver', Known(p)) <= Sum(LeftOver, Known(p))
           /\ Sum(Weight', Known(p)) \in Nat /\ Sum(Weight, Known(p)) \in Nat
           /\ Sum(LeftOver', Known(p)) \in Nat /\ Sum(LeftOver, Known(p)) \in Nat
           /\ \A S, T : S = {b \in Known(p) : Open(b)} /\ T = {b \in Known(p) : Open(b)'} =>
                 /\ Cardinality(T) <= Cardinality(S)
                 /\ Cardinality(T) \in Nat /\ Cardinality(S) \in Nat
<1>1. PICK K : K = Known(p)
  OBVIOUS
<1>2. IsFiniteSet(K) /\ K \in SUBSET BrokerIds
  BY <1>1, FS_Subset
<1>3. \A b \in K : /\ Weight[b] \in Nat /\ LeftOver[b] \in Nat
                   /\ Weight'[b] \in Nat /\ LeftOver'[b] \in Nat
                   /\ Weight'[b] <= Weight[b] /\ LeftOver'[b] <= LeftOver[b]
  <2>1. ASSUME NEW b \in K
        PROVE  /\ Weight[b] \in Nat /\ LeftOver[b] \in Nat
               /\ Weight'[b] \in Nat /\ LeftOver'[b] \in Nat
    <3>1. b \in BrokerIds
      BY <1>2
    <3>2. Weight[b] \in Nat /\ LeftOver[b] \in Nat
      BY <3>1, WeightTyped
    <3>3. /\ Weight'[b] = IF Open(b)' THEN Quantity[b] ELSE filled'[b]
          /\ LeftOver'[b] = IF Open(b)' THEN Quantity[b] - filled'[b] ELSE 0
          /\ filled'[b] \in Nat /\ filled'[b] <= Quantity[b] /\ Quantity[b] \in Nat
      BY <3>1, AccountAssumption DEF Weight, LeftOver, Open, FillsSound
    <3>. QED
      BY <3>2, <3>3
  <2>. QED
    BY <1>1, <2>1 DEF OrderShrinks
<1>4. PICK v, w, x, y : v = Weight' /\ w = Weight /\ x = LeftOver' /\ y = LeftOver
  OBVIOUS
<1>5. \A b \in K : /\ v[b] \in Nat /\ w[b] \in Nat /\ x[b] \in Nat /\ y[b] \in Nat
                   /\ v[b] <= w[b] /\ x[b] <= y[b]
  BY <1>3, <1>4
<1>6. /\ Sum(v, K) <= Sum(w, K) /\ Sum(x, K) <= Sum(y, K)
      /\ Sum(v, K) \in Nat /\ Sum(w, K) \in Nat /\ Sum(x, K) \in Nat /\ Sum(y, K) \in Nat
  BY <1>2, <1>5, SumLess, SumAny
<1>7. ASSUME NEW S, NEW T, S = {b \in K : Open(b)}, T = {b \in K : Open(b)'}
      PROVE  /\ Cardinality(T) <= Cardinality(S)
             /\ Cardinality(T) \in Nat /\ Cardinality(S) \in Nat
  <2>1. IsFiniteSet(S)
    BY <1>2, <1>7, FS_Subset
  <2>2. T \in SUBSET S
    BY <1>1, <1>7 DEF OrderShrinks
  <2>3. IsFiniteSet(T) /\ Cardinality(T) <= Cardinality(S)
    BY <2>1, <2>2, FS_Subset
  <2>. QED
    BY <2>1, <2>3, FS_CardinalityType
<1>8. Known(p)' = Known(p)
  BY DEF Known
<1>. QED
  BY <1>1, <1>4, <1>6, <1>7, <1>8

\* The leaves of some orders, as one of the sums above.
Leaves == [b \in BrokerIds |-> Quantity[b] - filled[b]]

LEMMA LeavesSum ==
    ASSUME NEW U, IsFiniteSet(U), U \in SUBSET BrokerIds
    PROVE  MapThenSumSet(LAMBDA b : Quantity[b] - filled[b], U) = Sum(Leaves, U)
<1> DEFINE AddsLeaves(iter) ==
              iter = [s \in SUBSET U |->
                         IF s = {} THEN 0
                         ELSE LET y == CHOOSE z \in s : TRUE
                              IN  (Quantity[y] - filled[y]) + iter[s \ {y}]]
           Found == CHOOSE iter : AddsLeaves(iter)
<1>1. MapThenSumSet(LAMBDA b : Quantity[b] - filled[b], U) = Found[U]
  BY Zenon DEF MapThenSumSet, MapThenFoldSet
<1>2. \A s \in SUBSET U : s # {} => (CHOOSE z \in s : TRUE) \in BrokerIds
  OBVIOUS
<1>3. \A y \in BrokerIds : Leaves[y] = Quantity[y] - filled[y]
  BY DEF Leaves
<1>4. ASSUME NEW iter PROVE AddsLeaves(iter) <=> AddsUp(Leaves, iter, SUBSET U)
  <2>1. ASSUME NEW s \in SUBSET U
        PROVE  (IF s = {} THEN 0
                ELSE LET y == CHOOSE z \in s : TRUE IN (Quantity[y] - filled[y]) + iter[s \ {y}])
             = (IF s = {} THEN 0
                ELSE LET y == CHOOSE z \in s : TRUE IN Leaves[y] + iter[s \ {y}])
    <3>1. PICK x : x = CHOOSE z \in s : TRUE
      OBVIOUS
    <3>2. s # {} => x \in BrokerIds
      BY <3>1
    <3>3. s # {} => Leaves[x] = Quantity[x] - filled[x]
      BY <1>3, <3>2
    <3>. QED
      BY <3>1, <3>3
  <2>2. [s \in SUBSET U |->
            IF s = {} THEN 0
            ELSE LET y == CHOOSE z \in s : TRUE IN (Quantity[y] - filled[y]) + iter[s \ {y}]]
      = [s \in SUBSET U |->
            IF s = {} THEN 0
            ELSE LET y == CHOOSE z \in s : TRUE IN Leaves[y] + iter[s \ {y}]]
    BY <2>1, Zenon
  <2>. QED
    BY <2>2, Zenon DEF AddsUp
<1>5. AddsUp(Leaves, Iter(Leaves, U), SUBSET U)
  BY IterSteps
<1>6. AddsUp(Leaves, Found, SUBSET U)
  <2>1. \E iter : AddsLeaves(iter)
    <3>1. PICK g : g = Iter(Leaves, U)
      OBVIOUS
    <3>2. AddsUp(Leaves, g, SUBSET U)
      BY <1>5, <3>1
    <3>3. AddsLeaves(g)
      BY <1>4, <3>2
    <3> HIDE DEF AddsLeaves
    <3>. QED
      BY <3>3
  <2>2. AddsLeaves(Found)
    <3> HIDE DEF AddsLeaves
    <3>. QED
      BY <2>1, Zenon
  <2>. QED
    BY <1>4, <2>2
<1>7. Found[U] = Iter(Leaves, U)[U]
  <2>1. PICK g, h : g = Found /\ h = Iter(Leaves, U)
    OBVIOUS
  <2>2. g[U] = h[U]
    <3>1. AddsUp(Leaves, g, SUBSET U) /\ AddsUp(Leaves, h, SUBSET U)
      BY <1>5, <1>6, <2>1
    <3>. QED
      BY <3>1, StepsAgree
  <2>. QED
    BY <2>1, <2>2
<1>. HIDE DEF Found
<1>. QED
  BY <1>1, <1>7, SumIs

\* The position of some orders and what is open of them is what they weigh.
LEMMA AccountSums ==
    ASSUME IsFiniteSet(BrokerIds), FillsSound, NEW U \in SUBSET BrokerIds
    PROVE  /\ Position(U) = Holding + Sum(filled, U)
           /\ Pending(U) = Sum(LeftOver, U)
           /\ Sum(Weight, U) = Sum(filled, U) + Sum(LeftOver, U)
           /\ Sum(filled, U) \in Nat /\ Sum(LeftOver, U) \in Nat /\ Sum(Weight, U) \in Nat
<1>1. IsFiniteSet(U)
  BY FS_Subset
<1>2. \A b \in U : /\ Weight[b] \in Nat /\ LeftOver[b] \in Nat /\ filled[b] \in Nat
                   /\ Weight[b] = filled[b] + LeftOver[b]
  BY WeightTyped
<1>3. PICK u, v, w : u = Weight /\ v = filled /\ w = LeftOver
  OBVIOUS
<1>4. \A b \in U : u[b] \in Nat /\ v[b] \in Nat /\ w[b] \in Nat /\ u[b] = v[b] + w[b]
  BY <1>2, <1>3
<1>5. /\ Sum(u, U) = Sum(v, U) + Sum(w, U)
      /\ Sum(u, U) \in Nat /\ Sum(v, U) \in Nat /\ Sum(w, U) \in Nat
  BY <1>1, <1>4, SumBoth, SumAny
<1>6. Position(U) = Holding + Sum(filled, U)
  BY Zenon DEF Position, Sum
<1>7. Pending(U) = Sum(LeftOver, U)
  <2>1. PICK S : S = {b \in U : Open(b)}
    OBVIOUS
  <2>2. S \in SUBSET U /\ IsFiniteSet(S)
    BY <1>1, <2>1, FS_Subset
  <2>3. Pending(U) = MapThenSumSet(LAMBDA b : Quantity[b] - filled[b], S)
    BY <2>1, Zenon DEF Pending
  <2>4. MapThenSumSet(LAMBDA b : Quantity[b] - filled[b], S) = Sum(Leaves, S)
    BY <2>2, LeavesSum
  <2>5. PICK x : x = Leaves
    OBVIOUS
  <2>6. (\A b \in S : x[b] = w[b]) /\ (\A b \in U \ S : w[b] = 0)
    BY <1>3, <2>1, <2>5 DEF Leaves, LeftOver
  <2>7. Sum(x, S) = Sum(w, U)
    BY <1>1, <1>4, <2>2, <2>6, SumSome
  <2>. QED
    BY <1>3, <2>3, <2>4, <2>5, <2>7
<1>. QED
  BY <1>3, <1>5, <1>6, <1>7

\* A submission whose reading stays as it was rests on it as before.
LEMMA ReadKept ==
    ASSUME IsFiniteSet(BrokerIds), QInv, FillsSound', NEW p \in Procs, [Next]_vars,
           read'[p] = read[p], op'[p].kind = "submit",
           \A d \in BrokerIds : Ends(d) \/ filled'[d] = filled[d],
           At(p, {"submit"}, "preflight") /\ op'[p].step = "attempt" => Admits(p)
    PROVE  ReadSound(p)'
<1>1. AInv /\ IInv /\ RequestsSound /\ FillsSound /\ BudgetsHold /\ ReadSound(p)
  BY DEF QInv, AInv, RInv, TInv, LInv, ReadsSound
<1>2. \/ op[p].kind # "submit" /\ op'[p].step = "preflight"
      \/ op[p].kind = "submit" /\ op'[p] = op[p]
      \/ /\ op[p].kind = "submit" /\ op'[p].id = op[p].id /\ op'[p].cfg = op[p].cfg
         /\ <<op[p].step, op'[p].step>> \in {<<"preflight", "attempt">>, <<"attempt", "recheck">>,
                                            <<"recheck", "transport">>, <<"transport", "await">>}
  BY <1>1, SubmitGoesOn
<1>3. /\ read'[p].placed \in SUBSET BrokerIds /\ read'[p].pending \in Nat /\ read'[p].open \in Nat
      /\ \A b \in read'[p].placed : book'[b].state # "none"
  <2>1. \A b \in read[p].placed : b \in BrokerIds /\ book[b].state # "none"
    BY <1>1 DEF ReadSound
  <2>2. \A b \in read[p].placed : book'[b].state # "none"
    BY <1>1, <2>1, BookGoesOn
  <2>. QED
    BY <1>1, <2>2 DEF ReadSound
<1>4. CASE op[p].kind # "submit"
  <2>1. ~read'[p].done
    BY <1>1, <1>4 DEF ReadSound, NoRead
  <2>2. op'[p].step = "preflight"
    BY <1>2, <1>4
  <2>. QED
    BY <1>3, <2>1, <2>2 DEF ReadSound, NotSent
<1>5. CASE op[p].kind = "submit" /\ ~NotSent(op'[p])
  BY <1>3, <1>5 DEF ReadSound, NotSent
<1>6. CASE op[p].kind = "submit" /\ NotSent(op'[p])
  <2>1. NotSent(op[p]) /\ op'[p].id = op[p].id /\ op'[p].cfg = op[p].cfg
    BY <1>2, <1>6 DEF NotSent
  <2>2. op[p].cfg \in Configs /\ op[p].id \in BrokerIds
    BY <1>1, <2>1 DEF BudgetsHold, Budgeted, IInv, OperationsSound, OperationSound, NotSent, BrokerIds
  <2>3. Holding \in Nat /\ MaxPosition[op[p].cfg] \in Nat /\ Quantity[op[p].id] \in Nat
    BY <2>2, AccountAssumption
  <2>4. Known(p) \in SUBSET BrokerIds
    BY <1>1 DEF Known, ReadSound, BrokerIds
  <2>5. \A b \in Known(p) : OrderShrinks(b)
    BY <1>1, <2>1, KnownShrink
  <2>6. PICK K, v, w, x, y : /\ K = Known(p) /\ v = Weight' /\ w = Weight
                            /\ x = LeftOver' /\ y = LeftOver
    OBVIOUS
  <2>7. /\ Known(p)' = K
        /\ Sum(v, K) <= Sum(w, K) /\ Sum(x, K) <= Sum(y, K)
        /\ Sum(v, K) \in Nat /\ Sum(w, K) \in Nat /\ Sum(x, K) \in Nat /\ Sum(y, K) \in Nat
    BY <1>1, <2>4, <2>5, <2>6, KnownKept
  <2>8. ASSUME read'[p].done, NEW T, T = {b \in Known(p)' : Open(b)'}
        PROVE  Cardinality(T) <= read'[p].open
    <3>1. PICK S : S = {b \in K : Open(b)}
      OBVIOUS
    <3>2. T = {b \in K : Open(b)'}
      BY <2>7, <2>8
    <3>3. Cardinality(T) <= Cardinality(S) /\ Cardinality(T) \in Nat /\ Cardinality(S) \in Nat
      BY <1>1, <2>4, <2>5, <2>6, <3>1, <3>2, KnownKept
    <3>4. Cardinality(S) <= read[p].open
      BY <1>1, <2>1, <2>6, <2>8, <3>1 DEF ReadSound
    <3>. QED
      BY <1>3, <3>3, <3>4
  <2>9. ASSUME read'[p].done, op'[p].step = "preflight"
        PROVE  Sum(x, K) <= read'[p].pending
    <3>1. op[p].step = "preflight"
      BY <1>2, <1>6, <2>9
    <3>2. Sum(y, K) <= read[p].pending
      BY <1>1, <2>1, <2>6, <2>9, <3>1 DEF ReadSound
    <3>. QED
      BY <1>3, <2>7, <3>2
  <2>10. ASSUME op'[p].step # "preflight"
         PROVE  /\ read'[p].done /\ read'[p].open < MaxOpen[op[p].cfg]
                /\ Holding + Sum(v, K) + Quantity[op[p].id] <= MaxPosition[op[p].cfg]
    <3>1. /\ read[p].done /\ read[p].open < MaxOpen[op[p].cfg]
          /\ Holding + Sum(w, K) + Quantity[op[p].id] <= MaxPosition[op[p].cfg]
      <4>1. CASE op[p].step # "preflight"
        BY <1>1, <2>1, <2>6, <4>1 DEF ReadSound
      <4>2. CASE op[p].step = "preflight"
        <5>1. Admits(p)
          BY <1>2, <1>6, <2>10, <4>2 DEF At
        <5>2. /\ read[p].done /\ read[p].open < MaxOpen[op[p].cfg]
              /\ Position(BrokerIds) + read[p].pending + Quantity[op[p].id] <= MaxPosition[op[p].cfg]
          BY <5>1 DEF Admits
        <5>3. PICK f : f = filled
          OBVIOUS
        <5>4. /\ Position(BrokerIds) = Holding + Sum(f, BrokerIds)
              /\ Sum(w, K) = Sum(f, K) + Sum(y, K)
              /\ Sum(f, BrokerIds) \in Nat /\ Sum(f, K) \in Nat
          BY <1>1, <2>4, <2>6, <5>3, AccountSums
        <5>5. Sum(f, K) <= Sum(f, BrokerIds)
          <6>1. \A b \in BrokerIds : f[b] \in Nat
            BY <1>1, <5>3 DEF FillsSound
          <6>. QED
            BY <2>4, <2>6, <6>1, SumGrows
        <5>6. Sum(y, K) <= read[p].pending /\ read[p].pending \in Nat
          BY <1>1, <2>1, <2>6, <4>2, <5>2 DEF ReadSound
        <5>. QED
          BY <2>3, <2>7, <5>2, <5>4, <5>5, <5>6
      <4>. QED
        BY <4>1, <4>2
    <3>. QED
      BY <2>3, <2>7, <3>1
  <2>. QED
    BY <1>3, <1>6, <2>1, <2>6, <2>7, <2>8, <2>9, <2>10 DEF ReadSound
<1>. QED
  BY <1>4, <1>5, <1>6

\* The step that reads the orders.
LEMMA ReadNow ==
    ASSUME IsFiniteSet(BrokerIds), QInv, NEW p \in Procs, ReadOrders(p)
    PROVE  ReadsSound' /\ FillsSound'
<1>1. IInv /\ FillsSound /\ DOMAIN read = Procs /\ \A q \in Procs : ReadSound(q)
  BY DEF QInv, AInv, RInv, TInv, LInv, ReadsSound
<1>2. /\ UNCHANGED <<vars, filled>> /\ UNCHANGED <<op, book>>
      /\ op[p].kind = "submit" /\ op[p].step = "preflight"
  BY DEF ReadOrders, At, vars
<1>3. DOMAIN read' = Procs /\ \A q \in Procs : q # p => read'[q] = read[q]
  BY <1>1 DEF ReadOrders
<1>4. FillsSound'
  BY <1>1, <1>2 DEF FillsSound
<1>5. Weight' = Weight /\ LeftOver' = LeftOver /\ \A b : Open(b)' <=> Open(b)
  BY <1>2 DEF Weight, LeftOver, Open
<1>6. ASSUME NEW q \in Procs, q # p PROVE ReadSound(q)'
  <2>1. read'[q] = read[q] /\ Known(q)' = Known(q) /\ op'[q] = op[q] /\ ReadSound(q)
    BY <1>1, <1>2, <1>3, <1>6 DEF Known
  <2>. QED
    BY <1>2, <1>5, <2>1 DEF ReadSound, NotSent
<1>7. ReadSound(p)'
  <2>1. /\ read'[p].placed = {b \in BrokerIds : book[b].state # "none"}
        /\ read'[p].pending = Pending(BrokerIds)
        /\ read'[p].open = Cardinality({b \in BrokerIds : Open(b)})
    BY <1>1 DEF ReadOrders
  <2>2. PICK K, y : K = Known(p)' /\ y = LeftOver
    OBVIOUS
  <2>3. K \in SUBSET BrokerIds
    BY <2>1, <2>2 DEF Known, BrokerIds
  <2>4. Pending(BrokerIds) = Sum(y, BrokerIds) /\ Sum(y, BrokerIds) \in Nat
    BY <1>1, <2>2, AccountSums
  <2>5. \A b \in BrokerIds : y[b] \in Nat
    BY <1>1, <2>2, WeightTyped
  <2>6. Sum(y, K) <= Sum(y, BrokerIds)
    BY <2>3, <2>5, SumGrows
  <2>7. PICK S : S = {b \in BrokerIds : Open(b)}
    OBVIOUS
  <2>8. IsFiniteSet(S) /\ Cardinality(S) \in Nat
    BY <2>7, FS_Subset, FS_CardinalityType
  <2>9. ASSUME NEW T, T = {b \in Known(p)' : Open(b)'} PROVE Cardinality(T) <= read'[p].open
    <3>1. T \in SUBSET S
      BY <1>5, <2>2, <2>3, <2>7, <2>9
    <3>2. Cardinality(T) <= Cardinality(S)
      BY <2>8, <3>1, FS_Subset
    <3>. QED
      BY <2>1, <2>7, <3>2
  <2>10. \A w, T : w = LeftOver' /\ T = Known(p)' => Sum(w, T) <= read'[p].pending
    BY <1>5, <2>1, <2>2, <2>4, <2>6
  <2>11. /\ read'[p].placed \in SUBSET BrokerIds /\ read'[p].pending \in Nat /\ read'[p].open \in Nat
         /\ \A b \in read'[p].placed : book'[b].state # "none"
    BY <1>2, <2>1, <2>4, <2>7, <2>8
  <2>. QED
    BY <1>2, <2>9, <2>10, <2>11 DEF ReadSound, NotSent
<1>. QED
  BY <1>3, <1>4, <1>6, <1>7 DEF ReadsSound

\* The step that fills an order in part.
LEMMA FilledInPart ==
    ASSUME IsFiniteSet(BrokerIds), QInv, NEW d \in BrokerIds, FillsInPart(d)
    PROVE  ReadsSound' /\ FillsSound'
<1>1. IInv /\ FillsSound /\ DOMAIN read = Procs /\ \A q \in Procs : ReadSound(q)
  BY DEF QInv, AInv, RInv, TInv, LInv, ReadsSound
<1>2. UNCHANGED <<op, book, read>>
  BY DEF FillsInPart, vars
<1>3. /\ \A b \in BrokerIds : b # d => filled'[b] = filled[b]
      /\ filled'[d] = filled[d] + 1 /\ filled[d] + 1 < Quantity[d] /\ Open(d)
      /\ filled' \in [BrokerIds -> Nat] /\ filled \in [BrokerIds -> Nat]
      /\ Quantity \in [BrokerIds -> Nat]
  BY <1>1, AccountAssumption DEF FillsInPart, FillsSound
<1>4. FillsSound'
  BY <1>1, <1>3 DEF FillsSound
<1>5. \A b : Open(b)' <=> Open(b)
  BY <1>2 DEF Open
<1>6. Weight' = Weight
  BY <1>3, <1>5 DEF Weight
<1>7. \A b \in BrokerIds : LeftOver'[b] <= LeftOver[b] /\ LeftOver'[b] \in Nat /\ LeftOver[b] \in Nat
  <2>1. ASSUME NEW b \in BrokerIds
        PROVE  LeftOver'[b] <= LeftOver[b] /\ LeftOver'[b] \in Nat /\ LeftOver[b] \in Nat
    <3>1. /\ LeftOver'[b] = IF Open(b) THEN Quantity[b] - filled'[b] ELSE 0
          /\ LeftOver[b] = IF Open(b) THEN Quantity[b] - filled[b] ELSE 0
      BY <1>5 DEF LeftOver
    <3>2. /\ filled'[b] \in Nat /\ filled[b] \in Nat /\ Quantity[b] \in Nat
          /\ filled'[b] <= Quantity[b] /\ filled[b] <= filled'[b]
      BY <1>1, <1>3, <1>4 DEF FillsSound
    <3>. QED
      BY <3>1, <3>2
  <2>. QED
    BY <2>1
<1>8. ASSUME NEW q \in Procs PROVE ReadSound(q)'
  <2>1. read'[q] = read[q] /\ Known(q)' = Known(q) /\ op'[q] = op[q] /\ ReadSound(q)
    BY <1>1, <1>2 DEF Known
  <2>2. PICK K, x, y : K = Known(q) /\ x = LeftOver' /\ y = LeftOver
    OBVIOUS
  <2>3. K \in SUBSET BrokerIds /\ IsFiniteSet(K)
    BY <2>1, <2>2, FS_Subset DEF Known, ReadSound, BrokerIds
  <2>4. \A b \in K : x[b] \in Nat /\ y[b] \in Nat /\ x[b] <= y[b]
    BY <1>7, <2>2, <2>3
  <2>5. Sum(x, K) <= Sum(y, K) /\ Sum(x, K) \in Nat /\ Sum(y, K) \in Nat
    BY <2>3, <2>4, SumLess, SumAny
  <2>6. ASSUME NotSent(op[q]), read[q].done, op[q].step = "preflight"
        PROVE  Sum(x, K) <= read[q].pending
    <3>1. Sum(y, K) <= read[q].pending /\ read[q].pending \in Nat
      BY <2>1, <2>2, <2>6 DEF ReadSound
    <3>. QED
      BY <2>5, <3>1
  <2>. QED
    BY <1>2, <1>5, <1>6, <2>1, <2>2, <2>6 DEF ReadSound, NotSent
<1>. QED
  BY <1>2, <1>4, <1>8, <1>1 DEF ReadsSound

\* Every step of the account keeps its invariant.
LEMMA QInvStep ==
    ASSUME ClocksAgree, FieldsIdentify, IsFiniteSet(BrokerIds)
    PROVE  QInv /\ [AccountNext]_accountVars => QInv'
<1>. SUFFICES ASSUME QInv, [AccountNext]_accountVars PROVE QInv'
  OBVIOUS
<1>1. [Next]_vars
  BY DEF AccountNext, ReadOrders, FillsInPart, accountVars
<1>2. AInv /\ IInv /\ BudgetsHold /\ FillsSound /\ DOMAIN read = Procs /\ \A p \in Procs : ReadSound(p)
  BY DEF QInv, AInv, RInv, TInv, LInv, ReadsSound
<1>3. AInv' /\ IInv'
  <2>1. AInv'
    BY <1>1, <1>2, AInvStep
  <2>. QED
    BY <2>1 DEF AInv, RInv, TInv, LInv
<1>4. BudgetsHold'
  BY <1>1, <1>2, <1>3, BudgetsStep
<1>5. CASE \E p \in Procs : ReadOrders(p)
  BY <1>3, <1>4, <1>5, ReadNow DEF QInv
<1>6. CASE \E b \in BrokerIds : FillsInPart(b)
  BY <1>3, <1>4, <1>6, FilledInPart DEF QInv
<1>7. CASE Next /\ AccountStep
  <2>1. FillsSound' /\ \A b \in BrokerIds : Ends(b) \/ filled'[b] = filled[b]
    BY <1>2, <1>7, FillsStep
  <2>2. read' = [p \in Procs |-> IF op'[p].kind = "submit" THEN read[p] ELSE NoRead]
    BY <1>7 DEF AccountStep
  <2>3. ASSUME NEW p \in Procs PROVE ReadSound(p)'
    <3>1. CASE op'[p].kind = "submit"
      <4>1. read'[p] = read[p]
        BY <2>2, <3>1
      <4>2. At(p, {"submit"}, "preflight") /\ op'[p].step = "attempt" => Admits(p)
        BY <1>7 DEF AccountStep
      <4>. QED
        BY <1>1, <2>1, <3>1, <4>1, <4>2, ReadKept
    <3>2. CASE op'[p].kind # "submit"
      <4>1. read'[p] = NoRead
        BY <2>2, <3>2
      <4>. QED
        BY <3>2, <4>1 DEF ReadSound, NotSent, NoRead
    <3>. QED
      BY <3>1, <3>2
  <2>4. DOMAIN read' = Procs
    BY <2>2
  <2>. QED
    BY <1>3, <1>4, <2>1, <2>3, <2>4 DEF QInv, ReadsSound
<1>8. CASE UNCHANGED accountVars
  <2>1. UNCHANGED <<op, book, filled, read>>
    BY <1>8 DEF accountVars, vars
  <2>2. Weight' = Weight /\ LeftOver' = LeftOver /\ \A b : Open(b)' <=> Open(b)
    BY <2>1 DEF Weight, LeftOver, Open
  <2>3. ASSUME NEW p \in Procs PROVE ReadSound(p)'
    <3>1. ReadSound(p) /\ Known(p)' = Known(p)
      BY <1>2, <2>1 DEF Known
    <3>. QED
      BY <2>1, <2>2, <3>1 DEF ReadSound, NotSent
  <2>. QED
    BY <1>2, <1>3, <1>4, <2>1, <2>3 DEF QInv, ReadsSound, FillsSound
<1>. QED
  BY <1>5, <1>6, <1>7, <1>8 DEF AccountNext

LEMMA QInvInit == AccountInit => QInv
<1>. SUFFICES ASSUME AccountInit PROVE QInv
  OBVIOUS
<1>1. AInv
  BY AInvInit DEF AccountInit
<1>2. \A p \in Procs : op[p].kind = "none"
  BY DEF AccountInit, Init, Idle
<1>3. BudgetsHold
  BY <1>2 DEF BudgetsHold, Budgeted
<1>4. FillsSound
  BY AccountAssumption DEF AccountInit, FillsSound
<1>5. read = [p \in Procs |-> NoRead]
  BY DEF AccountInit
<1>6. ReadsSound
  BY <1>2, <1>5 DEF ReadsSound, ReadSound, NotSent, NoRead
<1>. QED
  BY <1>1, <1>3, <1>4, <1>6 DEF QInv

\* When submit_order sends an order, the position, all that is open of the orders
\* that _account_state read and of the adapter's own, and the order itself are within
\* the position limit, and no more orders are open than the other limit allows:
\* whatever was filled, cancelled, placed or decided since they were read, by any
\* number of processes, for finitely many broker orders and under the hypotheses of
\* the verdicts.
THEOREM AccountLimitsHold ==
    ASSUME ClocksAgree, FieldsIdentify, IsFiniteSet(BrokerIds)
    PROVE  AccountSpec => OrdersFitTheAccount
<1> DEFINE Fits(p) ==
          LET c == op[p].id
              known == read[p].placed \cup OrderIds
              flying == {d \in OrderIds : request[d].state = "sent"}
          IN  /\ Position(known) + Pending(known) + MapThenSumSet(LAMBDA d : Quantity[d], flying)
                    + Quantity[c] <= MaxPosition[op[p].cfg]
              /\ Cardinality({b \in known : Open(b)} \cup flying) < MaxOpen[op[p].cfg]
<1>1. ASSUME QInv, NEW p \in Procs, At(p, {"submit"}, "transport") PROVE Fits(p)
  <2>1. AInv /\ BudgetsHold /\ FillsSound /\ ReadSound(p) /\ IInv
    BY <1>1 DEF QInv, ReadsSound, AInv, RInv, TInv, LInv
  <2>2. NotSent(op[p]) /\ op[p].step = "transport" /\ op[p].kind = "submit"
    BY <1>1 DEF At, NotSent
  <2>3. op[p].cfg \in Configs /\ op[p].id \in BrokerIds
    BY <2>1, <2>2 DEF BudgetsHold, Budgeted, IInv, OperationsSound, OperationSound, BrokerIds
  <2>4. /\ Holding \in Nat /\ MaxPosition[op[p].cfg] \in Nat /\ Quantity[op[p].id] \in Nat
        /\ MaxOpen[op[p].cfg] \in Nat
    BY <2>3, AccountAssumption
  <2>5. PICK K, w, f, y : K = Known(p) /\ w = Weight /\ f = filled /\ y = LeftOver
    OBVIOUS
  <2>6. K \in SUBSET BrokerIds /\ IsFiniteSet(K) /\ K = read[p].placed \cup OrderIds
    BY <2>1, <2>5, FS_Subset DEF Known, ReadSound, BrokerIds
  <2>7. /\ read[p].done /\ read[p].open < MaxOpen[op[p].cfg] /\ read[p].open \in Nat
        /\ Holding + Sum(w, K) + Quantity[op[p].id] <= MaxPosition[op[p].cfg]
    BY <2>1, <2>2, <2>5 DEF ReadSound
  <2>8. /\ Position(K) = Holding + Sum(f, K) /\ Pending(K) = Sum(y, K)
        /\ Sum(w, K) = Sum(f, K) + Sum(y, K)
        /\ Sum(w, K) \in Nat /\ Sum(f, K) \in Nat /\ Sum(y, K) \in Nat
    BY <2>1, <2>5, <2>6, AccountSums
  <2>9. PICK F : F = {d \in OrderIds : request[d].state = "sent"}
    OBVIOUS
  <2>10. F = {}
    BY <2>1, <2>2, <2>9, NoneFlying
  <2>11. MapThenSumSet(LAMBDA d : Quantity[d], F) = 0
    <3>1. Sum(Quantity, {}) = 0
      BY SumNone
    <3>2. MapThenSumSet(LAMBDA d : Quantity[d], F) = Sum(Quantity, F)
      BY Zenon DEF Sum
    <3>. QED
      BY <2>10, <3>1, <3>2
  <2>12. PICK S : S = {b \in K : Open(b)}
    OBVIOUS
  <2>13. Cardinality(S) < MaxOpen[op[p].cfg]
    <3>1. Cardinality(S) <= read[p].open
      BY <2>1, <2>2, <2>5, <2>7, <2>12 DEF ReadSound
    <3>2. Cardinality(S) \in Nat
      BY <2>6, <2>12, FS_Subset, FS_CardinalityType
    <3>. QED
      BY <2>4, <2>7, <3>1, <3>2
  <2>14. Position(K) + Pending(K) + MapThenSumSet(LAMBDA d : Quantity[d], F) + Quantity[op[p].id]
            <= MaxPosition[op[p].cfg]
    BY <2>4, <2>7, <2>8, <2>11
  <2>15. S \cup F = S
    BY <2>10
  <2>. QED
    BY <2>6, <2>9, <2>12, <2>13, <2>14, <2>15
<1>2. ASSUME QInv, [AccountNext]_accountVars
      PROVE  \A p \in Procs : At(p, {"submit"}, "transport") /\ op'[p].step = "await" => Fits(p)
  BY <1>1, <1>2
<1>. QED
  BY <1>2, QInvInit, QInvStep, PTL DEF AccountSpec, OrdersFitTheAccount
===============================================================================
