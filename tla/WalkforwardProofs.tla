-------------------------- MODULE WalkforwardProofs --------------------------
(***************************************************************************)
(* What holds of Walkforward for any market, scope, horizon and embargo:   *)
(* nothing is known, learnt, judged or traded before its time, the holdout *)
(* stays apart, and its replay goes on in the phase of development.        *)
(***************************************************************************)
EXTENDS Walkforward, FiniteSetTheorems, SequenceTheorems, WellFoundedInduction, TLAPS

-----------------------------------------------------------------------------
(* The invariant *)

Stages == {"ingested", "decided", "featured", "labelled", "training", "trained", "evaluated",
           "tested", "revealed", "raised"}
Fitted == {"training", "trained", "evaluated", "tested"}

Market ==
    /\ first \in [Assets -> {1, 2}] /\ \E a \in Assets : first[a] = 1
    /\ last \in [Assets -> {Slowest - 2, Slowest}] /\ \E a \in Assets : last[a] = Slowest
    /\ delay \in [Rows -> Delays] /\ textAt \in Nat

Scope ==
    /\ conf \in [horizon : Nat \ {0}, embargo : Nat, periods : Nat \ {0}, start : Nat, end : Nat,
                 mode : {"standard", "development_only", "holdout_evaluation"},
                 cutoff : Nat, outcomes : Nat]
    /\ conf.mode = "development_only" => conf.end < conf.cutoff /\ conf.cutoff < Never

\* t is when the last bar of the session is there.
IsDecision(s, t) ==
    /\ \A a \in Assets : HasBar(a, s) => Available(a, s) <= t
    /\ \E a \in Assets : HasBar(a, s) /\ t = Available(a, s)

\* Every session that is read is decided, in the order of the calendar.
Timely ==
    /\ decided \in [Fetched -> 0..(Never - 1)]
    /\ \A s \in Fetched : IsDecision(s, decided[s])
    /\ \A s, t \in Fetched : s < t => decided[s] < decided[t]

\* The rows of a session are kept or left out together; development keeps what is
\* known before its cutoff.
Labelled ==
    /\ labels = features
    /\ \A r \in features : \A a \in Assets : HasBar(a, r[2]) => <<a, r[2]>> \in features
    /\ conf.mode = "development_only" => \A r \in features : KnownBefore(r, conf.cutoff)

InOrder(q, S) ==
    /\ q \in Seq(S)
    /\ \A i, j \in DOMAIN q : i < j => q[i] < q[j]
    /\ \A s \in S : \E i \in DOMAIN q : q[i] = s

ObservedRows == {r \in features : Observed(r)}

SplitSound ==
    /\ InOrder(split.order, SessionsOf(features))
    /\ InOrder(split.observed, SessionsOf(ObservedRows))
    /\ split.pre \in Nat /\ split.pre + HoldoutPeriods = Len(split.observed)
    /\ IF HoldoutPeriods = 0 THEN split.start = Never /\ split.index = 0
       ELSE /\ split.pre > 0 /\ split.index \in DOMAIN split.order
            /\ split.order[split.index] = split.observed[split.pre + 1]
            /\ split.start = decided[split.order[split.index]]
    /\ \A r \in ObservedRows : decided[r[2]] < KnownAt(r)

Learnt(t) == {r \in features : Learns(r, t)}

\* A snapshot has learnt what is known at the cutoff of its decision, and the fit
\* what its last snapshot has.
SnapshotsSound ==
    /\ snapshots \in Seq([session : Sessions, rows : SUBSET Rows, frozen : BOOLEAN])
    /\ Len(snapshots) <= Len(split.order)
    /\ \A i \in DOMAIN snapshots :
          snapshots[i].session = split.order[i] /\ snapshots[i].rows = Learnt(Cutoff(i))
    /\ trained = IF snapshots = <<>> THEN {} ELSE Learnt(Cutoff(Len(snapshots)))
    /\ stage # "training" => Len(snapshots) = Len(split.order)

\* Development is the first n of the observed sessions, and the rest until the
\* holdout is purged.
Judged(n) ==
    /\ evaluation.development = SubSeq(split.observed, 1, n)
    /\ evaluation.purged = SubSeq(split.observed, n + 1, split.pre)
    /\ evaluation.holdout = Holdout
    /\ \A i \in 1..n : \A r \in features :
          r[2] = split.observed[i] => Observed(r) /\ KnownAt(r) < split.start

Traded ==
    windows = [development |-> Every(evaluation.development, 0),
               holdout |-> IF HoldoutPeriods = 0 THEN <<>>
                           ELSE Every(evaluation.holdout, Offset)]

\* What development has left, with the decisions d it knew: they are those of the
\* reveal too, and its outcomes end before the reserved decisions.
ExitBy(d, s) == EntrySession(d[s]) + conf.horizon - 1
FrozenBy(d) ==
    /\ \A s \in DOMAIN d : IsDecision(s, d[s])
    /\ snapshots \in Seq([session : Sessions, rows : SUBSET Rows, frozen : BOOLEAN])
    /\ \A i \in DOMAIN snapshots : \A q \in snapshots[i].rows :
          /\ q \in Rows /\ q[2] \in DOMAIN d /\ ExitBy(d, q[2]) \in DOMAIN d
          /\ d[q[2]] < d[ExitBy(d, q[2])] /\ d[ExitBy(d, q[2])] < conf.start
    /\ "development" \in DOMAIN windows
    /\ \A i \in DOMAIN windows.development :
          /\ windows.development[i] \in DOMAIN d
          /\ Close(ExitBy(d, windows.development[i])) < conf.start
Frozen == \E D \in SUBSET Fetched : \E d \in [D -> Nat] : FrozenBy(d)

Before == {"ingested", "decided", "featured", "labelled"}

IInv ==
    /\ Market /\ Scope /\ stage \in Stages
    /\ stage = "ingested" => features = {}
    /\ stage = "raised" /\ features # {} => Timely /\ features \subseteq Candidates
    /\ stage \notin {"ingested", "raised"} => Timely /\ features \subseteq Candidates
    /\ stage = "featured" => features = Candidates
    /\ stage \in {"labelled"} \cup Fitted => Labelled
    /\ stage \in Fitted => conf.mode # "holdout_evaluation" /\ SplitSound /\ SnapshotsSound
    /\ stage \in {"evaluated", "tested"} => \E n \in 0..split.pre : Judged(n)
    /\ stage = "tested" => Traded
    /\ stage \in Before /\ conf.mode # "holdout_evaluation" => snapshots = <<>> /\ trained = {}
    /\ stage \in Before \cup {"revealed"} /\ conf.mode = "holdout_evaluation" => Frozen
    /\ stage = "revealed" =>
          /\ conf.mode = "holdout_evaluation"
          /\ \A r \in features : Close(ExitSession(r[2])) <= conf.outcomes
-----------------------------------------------------------------------------
(* Sets of numbers *)

\* A nonempty set of naturals has a first one.
LEMMA FirstOf ==
    ASSUME NEW S \in SUBSET Nat, S # {}
    PROVE  \E i \in S : \A j \in S : i <= j
<1>1. PICK i \in S : \A j \in S : <<j, i>> \notin OpToRel(<, Nat)
  BY NatLessThanWellFounded, WFMin, ZenonT(30)
<1>2. ASSUME NEW j \in S, j < i PROVE FALSE
  <2>1. <<j, i>> \in Nat \X Nat
    OBVIOUS
  <2>2. <<j, i>>[1] < <<j, i>>[2]
    BY <1>2
  <2>3. <<j, i>> \in OpToRel(<, Nat)
    BY <2>1, <2>2, Zenon DEF OpToRel
  <2> QED  BY <1>1, <2>3
<1> QED  BY <1>2

\* One that is bounded has a last one.
LEMMA LastOf ==
    ASSUME NEW S \in SUBSET Nat, S # {}, NEW n \in Nat, \A s \in S : s <= n
    PROVE  \E i \in S : \A j \in S : j <= i
<1> DEFINE R == {n - s : s \in S}
<1>1. R \in SUBSET Nat /\ R # {}
  <2>1. \A s \in S : s \in Nat /\ s <= n
    OBVIOUS
  <2>2. \A s \in S : n - s \in Nat
    BY <2>1
  <2>3. R # {}
    OBVIOUS
  <2> QED  BY <2>2, <2>3
<1>2. PICK i \in R : \A j \in R : i <= j
  BY <1>1, FirstOf
<1>3. PICK s \in S : i = n - s
  OBVIOUS
<1>4. \A j \in S : n - j \in R
  OBVIOUS
<1>5. \A j \in S : j \in Nat
  OBVIOUS
<1>6. ASSUME NEW j \in S PROVE j <= s
  <2>1. n - s <= n - j
    BY <1>2, <1>3, <1>4
  <2>2. j \in Nat /\ s \in Nat
    BY <1>3, <1>5
  <2> QED  BY <2>1, <2>2
<1> QED  BY <1>6

\* A function into the naturals is greatest somewhere on a finite set.
LEMMA GreatestAt ==
    ASSUME NEW B, IsFiniteSet(B), B # {}, NEW f \in [B -> Nat]
    PROVE  \E b \in B : \A c \in B : f[c] <= f[b]
<1> DEFINE Without == {T \in SUBSET B : T # {} /\ ~ \E b \in T : \A c \in T : f[c] <= f[b]}
           Sizes == {Cardinality(T) : T \in Without}
<1>1. SUFFICES ASSUME Without # {} PROVE FALSE
  OBVIOUS
<1>2. Sizes \in SUBSET Nat /\ Sizes # {}
  BY <1>1, FS_Subset, FS_CardinalityType
<1>3. PICK k \in Sizes : \A j \in Sizes : k <= j
  BY <1>2, FirstOf
<1>4. PICK T \in Without : Cardinality(T) = k
  OBVIOUS
<1>5. PICK x \in T : TRUE
  OBVIOUS
<1>6. IsFiniteSet(T) /\ Cardinality(T) \in Nat
  BY FS_Subset, FS_CardinalityType
<1>7. Cardinality(T \ {x}) < k
  <2>1. Cardinality(T \ {x}) = Cardinality(T) - 1
    BY <1>6, FS_RemoveElement
  <2> HIDE DEF Without, Sizes
  <2> QED  BY <1>4, <1>6, <2>1
<1>8. T \ {x} \notin Without
  <2>1. SUFFICES ASSUME T \ {x} \in Without PROVE FALSE
    OBVIOUS
  <2>2. Cardinality(T \ {x}) \in Sizes
    BY <2>1
  <2> HIDE DEF Sizes
  <2>3. k \in Nat /\ Cardinality(T \ {x}) \in Nat /\ k <= Cardinality(T \ {x})
    BY <1>2, <1>3, <2>2
  <2> QED  BY <1>7, <2>3
<1>9. CASE T \ {x} = {}
  <2>1. \A c \in T : c = x
    BY <1>9
  <2>2. f[x] <= f[x]
    OBVIOUS
  <2> QED  BY <2>1, <2>2
<1>10. CASE T \ {x} # {}
  <2>1. PICK m \in T \ {x} : \A c \in T \ {x} : f[c] <= f[m]
    BY <1>8, <1>10
  <2>2. f[x] \in Nat /\ f[m] \in Nat /\ \A c \in T : f[c] \in Nat
    OBVIOUS
  <2>3. CASE f[x] <= f[m]
    BY <2>1, <2>3
  <2>4. CASE f[m] <= f[x]
    <3>1. \A c \in T : f[c] <= f[x]
      BY <2>1, <2>2, <2>4
    <3> QED  BY <3>1
  <2> QED  BY <2>2, <2>3, <2>4
<1> QED  BY <1>9, <1>10

\* A set of sessions is finite, and Ordered puts it in the order of the calendar.
LEMMA OrderedSound ==
    ASSUME NEW S \in SUBSET Sessions
    PROVE  InOrder(Ordered(S), S) /\ Len(Ordered(S)) = Cardinality(S)
<1> DEFINE n == Cardinality(S)
           UpTo(s) == {t \in S : t <= s}
           rank == [s \in S |-> Cardinality(UpTo(s))]
<1>1. Slowest \in Nat /\ Sessions = 1..Slowest
  BY MarketAssumption DEF Sessions
<1>2. IsFiniteSet(S) /\ n \in Nat
  <2>1. IsFiniteSet(Sessions)
    BY <1>1, FS_Interval
  <2>2. IsFiniteSet(S)
    BY <2>1, FS_Subset
  <2> QED  BY <2>2, FS_CardinalityType
<1>0. \A s \in S : s \in Nat
  BY <1>1
<1>3. \A s \in S : UpTo(s) \subseteq S /\ IsFiniteSet(UpTo(s)) /\ rank[s] \in 1..n
  <2>1. TAKE s \in S
  <2>2. UpTo(s) \in SUBSET S
    OBVIOUS
  <2>3. IsFiniteSet(UpTo(s)) /\ Cardinality(UpTo(s)) <= n
    BY <1>2, <2>2, FS_Subset
  <2>4. s \in UpTo(s)
    BY <1>1
  <2>5. Cardinality(UpTo(s)) \in Nat /\ Cardinality(UpTo(s)) # 0
    BY <2>3, <2>4, FS_CardinalityType, FS_EmptySet
  <2>6. Cardinality(UpTo(s)) \in 1..n
    BY <1>2, <2>3, <2>5
  <2> QED  BY <2>2, <2>3, <2>6
<1>4. \A s, t \in S : s < t => rank[s] < rank[t]
  <2>1. SUFFICES ASSUME NEW s \in S, NEW t \in S, s < t PROVE rank[s] < rank[t]
    OBVIOUS
  <2>2. UpTo(s) \in SUBSET UpTo(t) /\ t \in UpTo(t) /\ t \notin UpTo(s)
    <3>1. \A x \in S : x <= s => x <= t
      BY <1>0, <2>1
    <3>2. t <= t /\ ~(t <= s)
      BY <1>0, <2>1
    <3> QED  BY <3>1, <3>2
  <2>3. Cardinality(UpTo(s)) <= Cardinality(UpTo(t)) /\ Cardinality(UpTo(s)) # Cardinality(UpTo(t))
    BY <1>3, <2>2, FS_Subset
  <2>4. Cardinality(UpTo(s)) \in Nat /\ Cardinality(UpTo(t)) \in Nat
    BY <1>3
  <2> QED  BY <2>3, <2>4
<1>5. \A i \in 1..n : \E s \in S : rank[s] = i
  <2> DEFINE Gaps == {j \in 0..n : n - j >= 1 /\ ~ \E s \in S : rank[s] = n - j}
  <2>1. SUFFICES ASSUME Gaps # {} PROVE FALSE
    <3>1. SUFFICES ASSUME NEW i \in 1..n, ~ \E s \in S : rank[s] = i PROVE Gaps # {}
      OBVIOUS
    <3>2. n - i \in 0..n /\ n - (n - i) = i
      BY <1>2
    <3>3. n - i \in Gaps
      BY <3>1, <3>2
    <3> QED  BY <3>3
  <2>2. Gaps \in SUBSET Nat
    BY <1>2
  <2>3. PICK j \in Gaps : \A k \in Gaps : j <= k
    BY <2>1, <2>2, FirstOf
  <2>4. S # {}
    BY <1>2, <2>3, FS_EmptySet
  <2>5. j # 0
    <3>0. S \in SUBSET Nat /\ \A t \in S : t <= Slowest
      BY <1>1
    <3>1. PICK m \in S : \A t \in S : t <= m
      BY <1>1, <2>4, <3>0, LastOf
    <3>2. UpTo(m) = S
      BY <3>1
    <3> QED  BY <1>2, <3>2
  <2>6. j - 1 \in 0..n /\ n - (j - 1) >= 1 /\ j - 1 < j
    BY <1>2, <2>3, <2>5
  <2>7. j - 1 \notin Gaps
    BY <2>2, <2>3, <2>6
  <2>8. PICK s \in S : rank[s] = n - (j - 1)
    BY <2>6, <2>7
  <2> DEFINE L == UpTo(s) \ {s}
  <2>9. Cardinality(UpTo(s)) = n - j + 1 /\ s \in UpTo(s)
    BY <1>1, <1>2, <2>3, <2>8
  <2>10. IsFiniteSet(L) /\ Cardinality(L) = n - j
    <3>1. IsFiniteSet(UpTo(s))
      BY <1>3
    <3>2. IsFiniteSet(L) /\ Cardinality(L) = Cardinality(UpTo(s)) - 1
      BY <2>9, <3>1, FS_RemoveElement
    <3>3. j \in Nat
      BY <2>2, <2>3
    <3> HIDE DEF L, UpTo, Gaps, n
    <3> QED  BY <1>2, <2>9, <3>2, <3>3
  <2>11. L # {} /\ L \in SUBSET Nat /\ \A t \in L : t <= Slowest
    <3>1. n - j # 0
      BY <1>2, <2>3
    <3>2. L # {}
      BY <2>10, <3>1, FS_EmptySet
    <3>3. \A t \in L : t \in Nat /\ t <= Slowest
      BY <1>1
    <3> QED  BY <3>2, <3>3
  <2>12. PICK m \in L : \A t \in L : t <= m
    <3> HIDE DEF L
    <3> QED  BY <1>1, <2>11, LastOf
  <2>13. m \in S /\ UpTo(m) = L
    <3>1. m \in S /\ m <= s /\ m # s
      OBVIOUS
    <3>2. \A t \in S : t \in Nat /\ (t <= m <=> t <= s /\ t # s)
      BY <1>0, <2>12, <3>1
    <3> QED  BY <3>1, <3>2
  <2>14. rank[m] = n - j
    BY <2>10, <2>13
  <2> QED  BY <2>3, <2>13, <2>14
<1> DEFINE pick(i) == CHOOSE s \in S : Cardinality({t \in S : t <= s}) = i
<1>6. Ordered(S) = [i \in 1..n |-> pick(i)]
  BY Zenon DEF Ordered
<1>7. \A i \in 1..n : pick(i) \in S /\ rank[pick(i)] = i
  <2>1. TAKE i \in 1..n
  <2>2. PICK s \in S : rank[s] = i
    BY <1>5
  <2>3. Cardinality({t \in S : t <= s}) = i
    BY <2>2
  <2>4. pick(i) \in S /\ Cardinality({t \in S : t <= pick(i)}) = i
    BY <2>3, Zenon
  <2> QED  BY <2>4
<1> HIDE DEF pick, rank, UpTo, n
<1>8. Ordered(S) \in Seq(S) /\ Len(Ordered(S)) = n /\ DOMAIN Ordered(S) = 1..n
  <2>1. Ordered(S) \in [1..n -> S]
    BY <1>6, <1>7
  <2> QED  BY <1>2, <2>1
<1>9. ASSUME NEW i \in 1..n, NEW j \in 1..n, i < j PROVE pick(i) < pick(j)
  <2>1. pick(i) \in Nat /\ pick(j) \in Nat /\ rank[pick(i)] < rank[pick(j)]
    BY <1>0, <1>7, <1>9
  <2>2. ~(pick(j) < pick(i)) /\ pick(i) # pick(j)
    BY <1>2, <1>3, <1>4, <1>7, <1>9
  <2> QED  BY <2>1, <2>2
<1>10. ASSUME NEW s \in S PROVE \E i \in 1..n : pick(i) = s
  <2>1. rank[s] \in 1..n
    BY <1>3
  <2>2. pick(rank[s]) \in S /\ rank[pick(rank[s])] = rank[s]
    BY <1>7, <2>1
  <2>3. pick(rank[s]) = s
    <3>1. pick(rank[s]) \in Nat /\ s \in Nat /\ rank[s] \in Nat
      BY <1>0, <1>2, <2>1, <2>2
    <3>2. ~(pick(rank[s]) < s) /\ ~(s < pick(rank[s]))
      BY <1>4, <2>2, <3>1
    <3> QED  BY <3>1, <3>2
  <2> QED  BY <2>1, <2>3
<1>11. InOrder(Ordered(S), S)
  BY <1>6, <1>8, <1>9, <1>10 DEF InOrder
<1> QED  BY <1>8, <1>11 DEF n

-----------------------------------------------------------------------------
(* The calendar and the bars *)

\* Sessions and delays are numbers, and the last bar is there before Never.
LEMMA Times ==
    /\ Slowest \in Nat /\ Slowest > 0 /\ Never \in Nat
    /\ \A s \in Sessions : s \in Nat /\ 1 <= s /\ s <= Slowest
    /\ \A s \in Int : Open(s) = 4 * s /\ Close(s) = 4 * s + 2
    /\ \A d \in Delays : d \in Nat /\ Close(Slowest) + d < Never
BY MarketAssumption DEF Sessions, Never, Open, Close

\* The entry of a decision is the first session that opens after it.
LEMMA EntryIsNext ==
    ASSUME NEW t \in Nat
    PROVE  /\ EntrySession(t) \in Nat /\ EntrySession(t) >= 1
           /\ t < Open(EntrySession(t)) /\ Open(EntrySession(t)) <= t + 4
<1>1. NextOpen(t) \in Nat /\ 4 * NextOpen(t) >= t /\ 4 * NextOpen(t) <= t + 3
  BY DEF NextOpen
<1> QED  BY <1>1 DEF EntrySession, Open

\* A later decision enters no earlier.
LEMMA EntryAdvances ==
    ASSUME NEW t \in Nat, NEW u \in Nat, t <= u
    PROVE  EntrySession(t) <= EntrySession(u)
<1>1. /\ t < 4 * EntrySession(t) /\ 4 * EntrySession(t) <= t + 4
      /\ u < 4 * EntrySession(u) /\ 4 * EntrySession(u) <= u + 4
      /\ EntrySession(t) \in Nat /\ EntrySession(u) \in Nat
  BY EntryIsNext DEF Open
<1> QED  BY <1>1

\* A bar is available at its close or later, and before Never.
LEMMA BarTimes ==
    ASSUME Market, NEW a \in Assets, NEW s \in Sessions
    PROVE  Available(a, s) \in 0..(Never - 1) /\ Close(s) <= Available(a, s)
<1>1. delay[<<a, s>>] \in Delays
  BY DEF Market, Rows
<1>2. delay[<<a, s>>] \in Nat /\ Close(Slowest) + delay[<<a, s>>] < Never
  BY <1>1, Times
<1>3. s \in Nat /\ s <= Slowest /\ Slowest \in Nat /\ Close(s) = 4 * s + 2
      /\ Close(Slowest) = 4 * Slowest + 2 /\ Never \in Nat
  BY Times
<1> QED  BY <1>2, <1>3 DEF Available

\* Only sessions of the calendar are read.
LEMMA FetchedAre == Fetched \subseteq Sessions
BY DEF Fetched

\* A session is read where some asset has a bar of it.
LEMMA FetchedIsSet == \A s \in Sessions : s \in Fetched <=> \E a \in Assets : HasBar(a, s)
BY DEF Fetched

\* The sessions that are read have no gap.
LEMMA FetchedHasNoGap ==
    ASSUME Market, Scope, NEW s \in Fetched, NEW t \in Fetched, NEW u \in Sessions, s <= u, u <= t
    PROVE  u \in Fetched
<1>1. PICK b \in Assets : HasBar(b, s)
  BY DEF Fetched
<1>2. PICK c \in Assets : HasBar(c, t)
  BY DEF Fetched
<1>3. s \in Nat /\ t \in Nat /\ u \in Nat /\ u <= Slowest /\ 1 <= s /\ Slowest \in Nat
  BY Times, FetchedAre
<1>4. IsFetched(u)
  <2>1. conf.horizon \in Nat
    BY DEF Scope
  <2>2. CASE conf.end = Never
    BY <2>2 DEF IsFetched
  <2>3. ASSUME NEW x \in Sessions, Close(x) <= conf.end, t <= x + conf.horizon + 1 PROVE IsFetched(u)
    <3>1. u <= x + conf.horizon + 1
      BY <1>3, <2>1, <2>3, Times
    <3> QED  BY <2>3, <3>1 DEF IsFetched
  <2> QED  BY <1>2, <2>2, <2>3 DEF HasBar, IsFetched
<1>5. PICK a \in Assets : first[a] = 1
  BY DEF Market
<1>6. PICK z \in Assets : last[z] = Slowest
  BY DEF Market
<1>7. last[a] \in {Slowest - 2, Slowest} /\ first[z] \in {1, 2}
  BY DEF Market
<1>8. CASE u <= last[a]
  <2>1. HasBar(a, u)
    BY <1>3, <1>4, <1>5, <1>7, <1>8 DEF HasBar
  <2> QED  BY <2>1, FetchedIsSet
<1>9. CASE u >= 2
  <2>1. HasBar(z, u)
    BY <1>3, <1>4, <1>6, <1>7, <1>9 DEF HasBar
  <2> QED  BY <2>1, FetchedIsSet
<1>10. CASE u = 1
  BY <1>3, <1>10
<1> QED  BY <1>3, <1>7, <1>8, <1>9, <1>10

\* A session that is read is decided when its last bar is there.
LEMMA DecisionIs ==
    ASSUME Market, NEW s \in Fetched
    PROVE  IsDecision(s, Decision(s)) /\ Decision(s) \in 0..(Never - 1)
<1> DEFINE B == {b \in Assets : HasBar(b, s)}
           f == [b \in B |-> Available(b, s)]
           times == {Available(a, s) : a \in B}
<1>1. s \in Sessions /\ B # {} /\ IsFiniteSet(B)
  <2>1. B \in SUBSET Assets /\ IsFiniteSet(Assets)
    BY MarketAssumption
  <2> QED  BY <2>1, FS_Subset DEF Fetched
<1>2. f \in [B -> Nat]
  BY <1>1, BarTimes
<1>3. PICK b \in B : \A c \in B : f[c] <= f[b]
  BY <1>1, <1>2, GreatestAt
<1>4. Available(b, s) \in times /\ \A u \in times : u <= Available(b, s)
  BY <1>3
<1>5. Decision(s) \in times /\ \A u \in times : u <= Decision(s)
  BY <1>4, Zenon DEF Decision
<1>6. IsDecision(s, Decision(s))
  BY <1>5 DEF IsDecision
<1>7. \A u \in times : u \in 0..(Never - 1)
  BY <1>1, BarTimes
<1> QED  BY <1>5, <1>6, <1>7

\* There is one such time.
LEMMA DecisionIsOne ==
    ASSUME Market, NEW s \in Sessions, NEW t, NEW u, IsDecision(s, t), IsDecision(s, u)
    PROVE  t = u
<1>1. PICK a \in Assets : HasBar(a, s) /\ t = Available(a, s)
  BY DEF IsDecision
<1>2. PICK b \in Assets : HasBar(b, s) /\ u = Available(b, s)
  BY DEF IsDecision
<1>3. t <= u /\ u <= t /\ t \in Int /\ u \in Int
  BY <1>1, <1>2, BarTimes, Times DEF IsDecision
<1> QED  BY <1>3

\* Decisions that advance from each session to the next advance throughout.
LEMMA DecisionsAdvance ==
    ASSUME Market, Scope, NEW d \in [Fetched -> Nat],
           \A s \in Fetched : s + 1 \in Fetched => d[s] < d[s + 1],
           NEW s \in Fetched, NEW t \in Fetched, s < t
    PROVE  d[s] < d[t]
<1> DEFINE Bad == {u \in Fetched : s < u /\ ~(d[s] < d[u])}
<1>0. Fetched \in SUBSET Nat /\ \A u \in Fetched : u \in Sessions /\ u \in Nat /\ d[u] \in Nat
  BY FetchedAre, Times
<1>1. SUFFICES ASSUME Bad # {} PROVE FALSE
  BY <1>0
<1>2. PICK u \in Bad : \A v \in Bad : u <= v
  BY <1>0, <1>1, FirstOf
<1>3. u \in Nat /\ s \in Nat /\ u \in Sessions /\ u \in Fetched /\ s < u /\ ~(d[s] < d[u])
  BY <1>0, <1>2
<1> HIDE DEF Bad
<1>4. u - 1 \in Fetched
  <2>1. u - 1 \in Sessions
    BY <1>0, <1>3, Times DEF Sessions
  <2> QED  BY <1>3, <2>1, FetchedHasNoGap
<1>5. d[u - 1] < d[u]
  <2>1. (u - 1) + 1 = u
    BY <1>3
  <2> QED  BY <1>3, <1>4, <2>1
<1>6. CASE u - 1 = s
  BY <1>3, <1>5, <1>6
<1>7. CASE s < u - 1
  <2>1. u - 1 \notin Bad
    BY <1>2, <1>3
  <2>2. d[s] < d[u - 1]
    BY <1>4, <1>7, <2>1 DEF Bad
  <2> QED  BY <1>0, <1>3, <1>4, <1>5, <2>2
<1> QED  BY <1>3, <1>6, <1>7

\* The rows of a decided session.
LEMMA RowFacts ==
    ASSUME Market, Scope, Timely, NEW r \in Candidates
    PROVE  /\ r \in Rows /\ r[1] \in Assets /\ r[2] \in Sessions /\ r[2] \in Fetched
           /\ r = <<r[1], r[2]>> /\ HasBar(r[1], r[2])
           /\ decided[r[2]] \in Nat /\ decided[r[2]] < Never /\ Close(r[2]) <= decided[r[2]]
           /\ conf.start <= decided[r[2]] /\ decided[r[2]] <= conf.end
<1>1. r \in Rows /\ r[1] \in Assets /\ r[2] \in Sessions /\ r = <<r[1], r[2]>> /\ HasBar(r[1], r[2])
      /\ InScope(r[2])
  BY DEF Candidates, Rows
<1>2. r[2] \in Fetched
  BY <1>1, FetchedIsSet
<1>3. decided[r[2]] \in 0..(Never - 1) /\ IsDecision(r[2], decided[r[2]])
  BY <1>2 DEF Timely
<1>4. Available(r[1], r[2]) <= decided[r[2]]
  BY <1>1, <1>3 DEF IsDecision
<1>5. Available(r[1], r[2]) \in Int /\ Close(r[2]) <= Available(r[1], r[2]) /\ Close(r[2]) \in Int
      /\ Never \in Nat
  BY <1>1, BarTimes, Times
<1>6. decided[r[2]] \in Nat /\ decided[r[2]] < Never
  BY <1>3, <1>5
<1> QED  BY <1>1, <1>2, <1>4, <1>5, <1>6 DEF InScope

\* A session that is decided is closed.
LEMMA DecidedIsClosed ==
    ASSUME Market, Timely, NEW s \in Fetched
    PROVE  /\ s \in Sessions /\ s \in Nat /\ decided[s] \in Nat /\ decided[s] < Never
           /\ Close(s) <= decided[s] /\ s < EntrySession(decided[s])
<1>1. s \in Sessions /\ decided[s] \in 0..(Never - 1) /\ IsDecision(s, decided[s])
  BY FetchedAre DEF Timely
<1>2. PICK a \in Assets : HasBar(a, s) /\ decided[s] = Available(a, s)
  BY <1>1 DEF IsDecision
<1>3. Close(s) <= decided[s]
  BY <1>1, <1>2, BarTimes
<1>4. s \in Nat /\ Never \in Nat /\ Close(s) = 4 * s + 2
  BY <1>1, Times
<1>5. decided[s] \in Nat /\ decided[s] < Never
  BY <1>1, <1>4
<1>6. /\ EntrySession(decided[s]) \in Nat /\ decided[s] < 4 * EntrySession(decided[s])
  BY <1>5, EntryIsNext DEF Open
<1> QED  BY <1>1, <1>3, <1>4, <1>5, <1>6

\* The outcome of a complete row is of a later session that is decided.
LEMMA OutcomeFacts ==
    ASSUME Market, Scope, Timely, NEW r \in Candidates, Complete(r)
    PROVE  /\ ExitSession(r[2]) \in Fetched /\ r[2] < ExitSession(r[2])
           /\ KnownAt(r) \in Nat /\ KnownAt(r) < Never /\ Close(ExitSession(r[2])) <= KnownAt(r)
           /\ decided[r[2]] < KnownAt(r)
<1>1. r[2] \in Fetched /\ r[1] \in Assets /\ conf.horizon \in Nat \ {0}
  BY RowFacts DEF Scope
<1> DEFINE e == EntrySession(decided[r[2]])
           x == ExitSession(r[2])
<1>2. r[2] \in Nat /\ decided[r[2]] \in Nat /\ r[2] < e
  BY <1>1, DecidedIsClosed
<1>3. e \in Nat
  BY <1>2, EntryIsNext
<1>4. x \in Nat /\ e <= x
  BY <1>1, <1>3 DEF ExitSession
<1>5. HasBar(r[1], x)
  <2>1. x \in e..ExitSession(r[2])
    BY <1>3, <1>4
  <2> QED  BY <2>1 DEF Complete
<1>6. x \in Sessions
  <2>1. first[r[1]] \in {1, 2} /\ last[r[1]] \in {Slowest - 2, Slowest}
    BY <1>1 DEF Market
  <2>2. x \in first[r[1]]..last[r[1]]
    BY <1>5 DEF HasBar
  <2> QED  BY <1>4, <2>1, <2>2, Times DEF Sessions
<1>7. x \in Fetched
  BY <1>1, <1>5, <1>6, FetchedIsSet
<1>8. r[2] < x
  BY <1>2, <1>3, <1>4
<1>9. decided[r[2]] < decided[x]
  BY <1>1, <1>7, <1>8 DEF Timely
<1>10. decided[x] \in Nat /\ decided[x] < Never /\ Close(x) <= decided[x]
  BY <1>7, DecidedIsClosed
<1> QED  BY <1>7, <1>8, <1>9, <1>10 DEF KnownAt

-----------------------------------------------------------------------------
(* What a step leaves as it is *)

\* The market and the scope are never assigned after Init.
LEMMA MarketStays == ASSUME UNCHANGED data, Market, Scope PROVE Market' /\ Scope'
BY DEF data, Market, Scope

\* While the data stands, so do its bars and what a decision time is.
LEMMA BarsStay ==
    ASSUME UNCHANGED data
    PROVE  /\ \A a, s : HasBar(a, s)' = HasBar(a, s)
           /\ Fetched' = Fetched
           /\ \A s, t : IsDecision(s, t)' = IsDecision(s, t)
<1>1. /\ first' = first /\ last' = last /\ delay' = delay /\ conf' = conf
  BY DEF data
<1>2. \A a, s : HasBar(a, s)' = HasBar(a, s)
  BY <1>1 DEF HasBar, IsFetched
<1>3. Fetched' = Fetched
  BY <1>2 DEF Fetched
<1>4. \A s, t : IsDecision(s, t)' = IsDecision(s, t)
  BY <1>1, <1>2 DEF IsDecision, Available
<1> QED  BY <1>2, <1>3, <1>4

\* While the data and the decisions stand, so does all that is said of a row alone.
LEMMA DecisionsStay ==
    ASSUME UNCHANGED <<data, decided>>
    PROVE  /\ Timely => Timely'
           /\ Candidates' = Candidates /\ HoldoutPeriods' = HoldoutPeriods
           /\ \A r : KnownAt(r)' = KnownAt(r)
           /\ \A r : Complete(r)' = Complete(r)
           /\ \A r, t : KnownBefore(r, t)' = KnownBefore(r, t)
           /\ \A s : ExitSession(s)' = ExitSession(s)
           /\ \A a, s : HasBar(a, s)' = HasBar(a, s)
<1>1. /\ first' = first /\ last' = last /\ delay' = delay /\ conf' = conf /\ decided' = decided
  BY DEF data
<1>2. \A a, s : HasBar(a, s)' = HasBar(a, s)
  BY BarsStay
<1>4. Timely => Timely'
  BY <1>1, BarsStay DEF Timely
<1>5. \A s : ExitSession(s)' = ExitSession(s)
  BY <1>1 DEF ExitSession, EntrySession, NextOpen, Open
<1>6. \A r : KnownAt(r)' = KnownAt(r)
  BY <1>1, <1>5 DEF KnownAt
<1>7. \A r : Complete(r)' = Complete(r)
  BY <1>1, <1>2, <1>5 DEF Complete, EntrySession, NextOpen, Open
<1>8. Candidates' = Candidates
  BY <1>1, <1>2 DEF Candidates, InScope
<1>9. \A r, t : KnownBefore(r, t)' = KnownBefore(r, t)
  BY <1>5, <1>6, <1>7 DEF KnownBefore
<1>10. HoldoutPeriods' = HoldoutPeriods
  BY <1>1 DEF HoldoutPeriods
<1> QED  BY <1>2, <1>4, <1>5, <1>6, <1>7, <1>8, <1>9, <1>10

\* While the rows stand too, so do the observed ones.
LEMMA RowsStay ==
    ASSUME UNCHANGED <<data, decided, features, labels>>
    PROVE  /\ Labelled => Labelled'
           /\ \A r : Observed(r)' = Observed(r)
           /\ ObservedRows' = ObservedRows
<1>1. features' = features /\ labels' = labels /\ conf' = conf /\ UNCHANGED <<data, decided>>
  BY DEF data
<1>2. Labelled => Labelled'
  BY <1>1, DecisionsStay DEF Labelled
<1>3. \A r : Observed(r)' = Observed(r)
  BY <1>1, DecisionsStay DEF Observed
<1>4. ObservedRows' = ObservedRows
  BY <1>1, <1>3 DEF ObservedRows
<1> QED  BY <1>2, <1>3, <1>4

\* While the split stands too, so do its cutoffs and what is judged by it.
LEMMA SplitStays ==
    ASSUME UNCHANGED <<data, decided, features, labels, split>>
    PROVE  /\ SplitSound => SplitSound'
           /\ \A t : Learnt(t)' = Learnt(t)
           /\ \A i : Cutoff(i)' = Cutoff(i)
           /\ \A i : IsHoldout(i)' = IsHoldout(i)
           /\ Holdout' = Holdout /\ PreHoldout' = PreHoldout
           /\ \A n : evaluation' = evaluation /\ Judged(n) => Judged(n)'
<1>1. /\ features' = features /\ labels' = labels /\ conf' = conf /\ split' = split
      /\ decided' = decided
      /\ UNCHANGED <<data, decided>> /\ UNCHANGED <<data, decided, features, labels>>
  BY DEF data
<1>2. SplitSound => SplitSound'
  BY <1>1, DecisionsStay, RowsStay DEF SplitSound
<1>3. \A r, t : Learns(r, t)' = Learns(r, t)
  BY <1>1, DecisionsStay, RowsStay DEF Learns
<1>4. \A t : Learnt(t)' = Learnt(t)
  BY <1>1, <1>3 DEF Learnt
<1>5. \A i : IsHoldout(i)' = IsHoldout(i)
  BY <1>1 DEF IsHoldout
<1>6. \A i : Cutoff(i)' = Cutoff(i)
  BY <1>1, <1>5 DEF Cutoff
<1>7. Holdout' = Holdout /\ PreHoldout' = PreHoldout
  BY <1>1 DEF Holdout, PreHoldout
<1>8. \A n : evaluation' = evaluation /\ Judged(n) => Judged(n)'
  BY <1>1, <1>7, DecisionsStay, RowsStay DEF Judged
<1> QED  BY <1>2, <1>4, <1>5, <1>6, <1>7, <1>8

\* While the snapshots stand too, they stay what their cutoffs say.
LEMMA SnapshotsStay ==
    ASSUME UNCHANGED <<data, decided, features, labels, split, trained, snapshots>>,
           stage' # "training" => stage # "training", SnapshotsSound
    PROVE  SnapshotsSound'
<1>1. /\ features' = features /\ split' = split /\ trained' = trained /\ snapshots' = snapshots
      /\ UNCHANGED <<data, decided, features, labels, split>>
  OBVIOUS
<1> QED  BY <1>1, SplitStays DEF SnapshotsSound

\* What development left is not touched by a step that opens holdout windows only.
LEMMA FrozenStays ==
    ASSUME UNCHANGED <<data, snapshots>>, Frozen,
           windows' = windows \/ \E w : windows' = [windows EXCEPT !.holdout = w]
    PROVE  Frozen'
<1>1. /\ first' = first /\ last' = last /\ delay' = delay /\ conf' = conf
      /\ snapshots' = snapshots
  BY DEF data
<1>3. Fetched' = Fetched
  BY BarsStay
<1>4. PICK D \in SUBSET Fetched : \E d \in [D -> Nat] : FrozenBy(d)
  BY DEF Frozen
<1>5. PICK d \in [D -> Nat] : FrozenBy(d)
  BY <1>4
<1>6. \A s \in D : IsDecision(s, d[s])'
  BY <1>5, BarsStay DEF FrozenBy
<1>7. windows'.development = windows.development /\ "development" \in DOMAIN windows'
  BY <1>5 DEF FrozenBy
<1>8. FrozenBy(d)'
  BY <1>1, <1>5, <1>6, <1>7 DEF FrozenBy, ExitBy
<1> QED  BY <1>3, <1>4, <1>8 DEF Frozen

-----------------------------------------------------------------------------
(* The data, features and labels *)

\* The invariant holds at first, of development and of a reveal.
LEMMA InitSound == Init => IInv
<1> SUFFICES ASSUME Init PROVE IInv
  OBVIOUS
<1>1. Market
  <2>1. PICK L \in SUBSET Rows :
            \E d \in [L -> Delays \ {0}] : delay = [r \in Rows |-> IF r \in L THEN d[r] ELSE 0]
    BY DEF Init
  <2>2. PICK d \in [L -> Delays \ {0}] : delay = [r \in Rows |-> IF r \in L THEN d[r] ELSE 0]
    BY <2>1
  <2>3. delay \in [Rows -> Delays]
    BY <2>2, MarketAssumption
  <2> QED  BY <2>3, MarketAssumption DEF Init, Market
<1>2. conf \in Confs
  BY DEF Init
<1>3. Scope /\ conf.mode # "holdout_evaluation"
  <2>1. \A s \in ScopeEnds : Close(s) \in Nat
    BY MarketAssumption, Times
  <2>2. \A c \in Cutoffs : c \in Nat /\ c < Never
    BY MarketAssumption, Times
  <2>3. conf.cutoff \in Nat /\ conf.end \in Nat /\ (conf.cutoff # Never => conf.cutoff < Never)
    BY <1>2, <2>1, <2>2, Times DEF Confs
  <2> QED  BY <1>2, <2>3, Times, MarketAssumption DEF Confs, Scope
<1> QED  BY <1>1, <1>3 DEF Init, IInv, Stages, Fitted, Before

\* Decide times every session that is read, or raises.
LEMMA DecideSound == ASSUME IInv, Decide PROVE IInv'
<1> DEFINE d == [s \in Fetched |-> Decision(s)]
<1>1. /\ stage = "ingested" /\ UNCHANGED data /\ Market /\ Scope /\ features = {}
      /\ UNCHANGED <<features, labels, split, trained, snapshots, evaluation, windows>>
      /\ \/ stage' = "raised"
         \/ /\ ~ \E s \in Fetched : s + 1 \in Fetched /\ d[s + 1] <= d[s]
            /\ decided' = d /\ stage' = "decided"
  BY DEF IInv, Decide, Raise
<1>2. Market' /\ Scope' /\ conf' = conf
  BY <1>1, MarketStays DEF data
<1>3. CASE stage' = "raised"
  BY <1>1, <1>2, <1>3 DEF IInv, Stages, Fitted, Before
<1>4. CASE stage' = "decided"
  <2>1. d \in [Fetched -> 0..(Never - 1)] /\ d \in [Fetched -> Nat]
    BY <1>1, DecisionIs, Times
  <2>2. \A s \in Fetched : IsDecision(s, d[s])
    BY <1>1, DecisionIs
  <2>3. \A s \in Fetched : s + 1 \in Fetched => d[s] < d[s + 1]
    <3>1. \A s \in Fetched : d[s] \in Nat
      BY <2>1
    <3> HIDE DEF d
    <3> QED  BY <1>1, <1>4, <3>1
  <2>4. decided' = d
    BY <1>1, <1>4
  <2> HIDE DEF d
  <2>5. \A s, t \in Fetched : s < t => d[s] < d[t]
    BY <1>1, <2>1, <2>3, DecisionsAdvance
  <2>6. Timely'
    BY <1>1, <2>1, <2>2, <2>4, <2>5, BarsStay DEF Timely
  <2>7. Frozen => Frozen'
    BY <1>1, FrozenStays
  <2> QED  BY <1>1, <1>2, <1>4, <2>6, <2>7 DEF IInv, Stages, Fitted, Before
<1> QED  BY <1>1, <1>3, <1>4

\* Every candidate row becomes a feature.
LEMMA BuildFeaturesSound == ASSUME IInv, BuildFeatures PROVE IInv'
<1>1. /\ stage = "decided" /\ stage' = "featured" /\ UNCHANGED data /\ Market /\ Scope
      /\ features' = Candidates /\ Timely
      /\ UNCHANGED <<data, decided, labels, split, trained, snapshots, evaluation, windows>>
  BY DEF IInv, BuildFeatures
<1>2. Market' /\ Scope' /\ conf' = conf
  BY <1>1, MarketStays DEF data
<1>3. Timely' /\ Candidates' = Candidates
  BY <1>1, DecisionsStay
<1>4. Frozen => Frozen'
  BY <1>1, FrozenStays
<1> QED  BY <1>1, <1>2, <1>3, <1>4 DEF IInv, Stages, Fitted, Before

\* Development keeps a session with every asset that was traded in it.
LEMMA BuildLabelsSound == ASSUME IInv, BuildLabels PROVE IInv'
<1>1. /\ stage = "featured" /\ UNCHANGED data /\ Market /\ Scope /\ features = Candidates /\ Timely
      /\ UNCHANGED <<data, decided, split, trained, snapshots, evaluation, windows>>
  BY DEF IInv, BuildLabels, Raise
<1>2. Market' /\ Scope' /\ conf' = conf
  BY <1>1, MarketStays DEF data
<1>3. Timely' /\ Candidates' = Candidates
  BY <1>1, DecisionsStay
<1>4. Frozen => Frozen'
  BY <1>1, FrozenStays
<1>5. CASE stage' = "raised"
  <2>1. features' = features
    BY <1>1, <1>5 DEF BuildLabels, Raise
  <2> QED  BY <1>1, <1>2, <1>3, <1>5, <2>1 DEF IInv, Stages, Fitted, Before
<1>6. \A r \in Candidates : \A a \in Assets : HasBar(a, r[2]) => <<a, r[2]>> \in Candidates
  BY DEF Candidates, Rows
<1>7. CASE conf.mode = "development_only" /\ stage' = "labelled"
  <2>1. ~SomeSessionInPart /\ features' = Retained /\ labels' = Retained
    BY <1>7 DEF BuildLabels, Raise
  <2>2. Retained \subseteq Candidates /\ \A r \in Retained : KnownBefore(r, conf.cutoff)
    BY <1>1 DEF Retained
  <2>3. ASSUME NEW r \in Retained, NEW a \in Assets, HasBar(a, r[2])
        PROVE  <<a, r[2]>> \in Retained
    <3>1. r[2] \in SessionsOf(features) /\ r \in InSession(Retained, r[2])
      BY <1>1, <2>2 DEF SessionsOf, InSession
    <3>2. InSession(Retained, r[2]) = InSession(features, r[2])
      BY <2>1, <3>1 DEF SomeSessionInPart
    <3>3. <<a, r[2]>> \in InSession(features, r[2])
      BY <1>1, <1>6, <2>2, <2>3 DEF InSession
    <3> QED  BY <3>2, <3>3 DEF InSession
  <2>4. Labelled'
    BY <1>1, <1>2, <2>1, <2>2, <2>3, DecisionsStay DEF Labelled
  <2> QED  BY <1>1, <1>2, <1>3, <1>7, <2>1, <2>2, <2>4 DEF IInv, Stages, Fitted, Before
<1>8. CASE conf.mode # "development_only" /\ stage' = "labelled"
  <2>1. features' = Candidates /\ labels' = Candidates
    BY <1>1, <1>8 DEF BuildLabels
  <2>2. Labelled'
    BY <1>1, <1>2, <1>6, <1>8, <2>1, DecisionsStay DEF Labelled
  <2> QED  BY <1>1, <1>2, <1>3, <1>4, <1>8, <2>1, <2>2 DEF IInv, Stages, Fitted, Before
<1> QED  BY <1>5, <1>7, <1>8 DEF BuildLabels, Raise

-----------------------------------------------------------------------------
(* Training *)

\* The numbers of a configuration are numbers.
LEMMA ConfFacts ==
    ASSUME Scope
    PROVE  /\ conf.horizon \in Nat /\ conf.horizon > 0 /\ conf.embargo \in Nat
           /\ conf.periods \in Nat /\ conf.periods > 0 /\ conf.start \in Nat /\ conf.end \in Nat
           /\ conf.cutoff \in Nat /\ conf.outcomes \in Nat /\ HoldoutPeriods \in Nat
           /\ (HoldoutPeriods = 0 <=> conf.mode = "development_only")
           /\ (conf.mode # "development_only" => HoldoutPeriods = conf.periods)
<1>1. /\ conf.horizon \in Nat \ {0} /\ conf.embargo \in Nat
      /\ conf.periods \in Nat \ {0} /\ conf.start \in Nat /\ conf.end \in Nat
      /\ conf.cutoff \in Nat /\ conf.outcomes \in Nat
  BY DEF Scope
<1> QED  BY <1>1 DEF HoldoutPeriods

\* The entries of a sequence in order are its places.
LEMMA OrderFacts ==
    ASSUME NEW S \in SUBSET Sessions, NEW q, InOrder(q, S)
    PROVE  /\ Len(q) \in Nat /\ DOMAIN q = 1..Len(q) /\ q \in Seq(S)
           /\ \A i \in 1..Len(q) : q[i] \in S /\ q[i] \in Nat
           /\ \A i, j \in 1..Len(q) : i < j => q[i] < q[j]
           /\ \A i, j \in 1..Len(q) : q[i] = q[j] => i = j
           /\ \A s \in S : \E i \in 1..Len(q) : q[i] = s
<1>1. q \in Seq(S)
  BY DEF InOrder
<1>2. Len(q) \in Nat /\ DOMAIN q = 1..Len(q) /\ \A i \in 1..Len(q) : q[i] \in S
  BY <1>1
<1>3. \A i \in 1..Len(q) : q[i] \in Nat
  BY <1>2, Times
<1>4. \A i, j \in 1..Len(q) : i < j => q[i] < q[j]
  BY <1>2 DEF InOrder
<1>5. ASSUME NEW i \in 1..Len(q), NEW j \in 1..Len(q), q[i] = q[j] PROVE i = j
  <2>1. ~(q[i] < q[j]) /\ ~(q[j] < q[i])
    BY <1>3, <1>5
  <2>2. i \in Nat /\ j \in Nat
    BY <1>2
  <2> QED  BY <1>4, <2>1, <2>2
<1>6. \A s \in S : \E i \in 1..Len(q) : q[i] = s
  BY <1>2 DEF InOrder
<1> QED  BY <1>1, <1>2, <1>3, <1>4, <1>5, <1>6

\* The sessions of the features are sessions that were read.
LEMMA SessionSets ==
    ASSUME Market, Scope, Timely, features \subseteq Candidates
    PROVE  /\ SessionsOf(features) \in SUBSET Sessions
           /\ SessionsOf(ObservedRows) \in SUBSET Sessions
           /\ SessionsOf(ObservedRows) \subseteq SessionsOf(features)
           /\ SessionsOf(features) \subseteq Fetched
<1>1. \A r \in features : r[2] \in Sessions /\ r[2] \in Fetched
  BY RowFacts
<1> QED  BY <1>1 DEF SessionsOf, ObservedRows

\* An observed row has an outcome that is known after its decision.
LEMMA ObservedFacts ==
    ASSUME Market, Scope, Timely, features \subseteq Candidates, NEW r \in features, Observed(r)
    PROVE  /\ Complete(r) /\ ExitSession(r[2]) \in Fetched /\ r[2] < ExitSession(r[2])
           /\ KnownAt(r) \in Nat /\ KnownAt(r) < Never /\ Close(ExitSession(r[2])) <= KnownAt(r)
           /\ decided[r[2]] < KnownAt(r)
<1>1. Complete(r) /\ r \in Candidates
  BY DEF Observed
<1> QED  BY <1>1, OutcomeFacts

\* Training starts from a split that reserves the last observed sessions.
LEMMA BeginTrainingSound == ASSUME IInv, BeginTraining PROVE IInv'
<1>1. /\ stage = "labelled" /\ conf.mode # "holdout_evaluation" /\ Market /\ Scope /\ Timely
      /\ features \subseteq Candidates /\ Labelled /\ snapshots = <<>> /\ trained = {}
      /\ UNCHANGED <<data, decided, features, labels, trained, snapshots, evaluation, windows>>
      /\ UNCHANGED <<data, decided>> /\ UNCHANGED <<data, decided, features, labels>>
  BY DEF IInv, BeginTraining, Raise, Before
<1>2. Market' /\ Scope' /\ conf' = conf /\ Timely' /\ Candidates' = Candidates
  BY <1>1, MarketStays, DecisionsStay DEF data
<1>3. CASE stage' = "raised"
  BY <1>1, <1>2, <1>3 DEF IInv, Stages, Fitted, Before
<1>4. CASE stage' = "training"
  <2>1. /\ split' = Split
        /\ ~(HoldoutPeriods > 0 /\ HoldoutPeriods >= Len(ObservedSessions))
    BY <1>4 DEF BeginTraining, Raise
  <2> DEFINE order == Ordered(SessionsOf(features))
             observed == ObservedSessions
             pre == Len(observed) - HoldoutPeriods
  <2>2. observed = Ordered(SessionsOf(ObservedRows))
    BY DEF ObservedSessions, ObservedRows
  <2>3. InOrder(order, SessionsOf(features)) /\ InOrder(observed, SessionsOf(ObservedRows))
    BY <1>1, <2>2, SessionSets, OrderedSound
  <2>4. /\ split'.order = order /\ split'.observed = observed /\ split'.pre = pre
        /\ split'.start = IF HoldoutPeriods = 0 THEN Never ELSE decided[observed[pre + 1]]
        /\ split'.index = IF HoldoutPeriods = 0 THEN 0
                          ELSE CHOOSE i \in DOMAIN order : order[i] = observed[pre + 1]
    BY <2>1, Zenon DEF Split
  <2> HIDE DEF order, observed
  <2>5. Len(observed) \in Nat /\ HoldoutPeriods \in Nat
    BY <1>1, <2>3, SessionSets, OrderFacts, ConfFacts
  <2>6. pre \in Nat /\ pre + HoldoutPeriods = Len(observed) /\ (HoldoutPeriods # 0 => pre > 0)
    <3>1. ~(HoldoutPeriods > 0 /\ HoldoutPeriods >= Len(observed))
      BY <2>1 DEF observed
    <3> QED  BY <2>5, <3>1
  <2>7. HoldoutPeriods # 0 => /\ split'.index \in DOMAIN order
                              /\ order[split'.index] = observed[pre + 1]
    <3> SUFFICES ASSUME HoldoutPeriods # 0
                 PROVE  /\ split'.index \in DOMAIN order
                        /\ order[split'.index] = observed[pre + 1]
      OBVIOUS
    <3>1. pre + 1 \in 1..Len(observed)
      BY <2>5, <2>6
    <3>2. observed[pre + 1] \in SessionsOf(features)
      BY <1>1, <2>3, <3>1, SessionSets, OrderFacts
    <3>3. \E i \in DOMAIN order : order[i] = observed[pre + 1]
      BY <2>3, <3>2 DEF InOrder
    <3> HIDE DEF pre
    <3> QED  BY <2>4, <3>3, Zenon
  <2>8. \A r \in ObservedRows : decided[r[2]] < KnownAt(r)
    BY <1>1, ObservedFacts DEF ObservedRows
  <2>9. features' = features /\ decided' = decided /\ ObservedRows' = ObservedRows
        /\ HoldoutPeriods' = HoldoutPeriods /\ \A r : KnownAt(r)' = KnownAt(r)
    BY <1>1, DecisionsStay, RowsStay
  <2>10. SplitSound'
    <3>1. InOrder(split.order, SessionsOf(features))'
      BY <2>3, <2>4, <2>9
    <3>2. InOrder(split.observed, SessionsOf(ObservedRows))'
      BY <2>3, <2>4, <2>9
    <3>3. split'.pre \in Nat /\ split'.pre + HoldoutPeriods' = Len(split'.observed)
      BY <2>4, <2>6, <2>9
    <3>4. (IF HoldoutPeriods = 0 THEN split.start = Never /\ split.index = 0
           ELSE /\ split.pre > 0 /\ split.index \in DOMAIN split.order
                /\ split.order[split.index] = split.observed[split.pre + 1]
                /\ split.start = decided[split.order[split.index]])'
      <4> HIDE DEF pre
      <4>1. CASE HoldoutPeriods = 0
        BY <2>4, <2>9, <4>1
      <4>2. CASE HoldoutPeriods # 0
        BY <2>4, <2>6, <2>7, <2>9, <4>2
      <4> QED  BY <4>1, <4>2
    <3>5. (\A r \in ObservedRows : decided[r[2]] < KnownAt(r))'
      BY <2>8, <2>9
    <3> QED  BY <3>1, <3>2, <3>3, <3>4, <3>5 DEF SplitSound
  <2>11. SnapshotsSound'
    <3>1. snapshots' = <<>> /\ trained' = {} /\ Len(snapshots') = 0 /\ DOMAIN snapshots' = {}
      BY <1>1
    <3>2. Len(split'.order) \in Nat
      BY <1>1, <2>3, <2>4, SessionSets, OrderFacts
    <3> QED  BY <1>4, <3>1, <3>2 DEF SnapshotsSound
  <2> QED  BY <1>1, <1>2, <1>4, <2>10, <2>11, RowsStay DEF IInv, Stages, Fitted, Before
<1> QED  BY <1>3, <1>4 DEF BeginTraining, Raise

\* Where the cutoff of the i-th decision lies.
FromOf(i) == (IF IsHoldout(i) THEN split.index ELSE i) - conf.embargo
PlaceOf(i) == IF FromOf(i) < 1 THEN 1 ELSE FromOf(i)

\* The sessions in order are decided in order.
LEMMA OrderIsDecided ==
    ASSUME Market, Scope, Timely, features \subseteq Candidates, SplitSound
    PROVE  /\ Len(split.order) \in Nat /\ DOMAIN split.order = 1..Len(split.order)
           /\ \A i \in 1..Len(split.order) :
                 /\ split.order[i] \in SessionsOf(features) /\ split.order[i] \in Fetched
                 /\ split.order[i] \in Sessions
                 /\ decided[split.order[i]] \in Nat /\ decided[split.order[i]] < Never
           /\ \A i, j \in 1..Len(split.order) :
                 i < j => decided[split.order[i]] < decided[split.order[j]]
           /\ \A i, j \in 1..Len(split.order) :
                 i <= j => decided[split.order[i]] <= decided[split.order[j]]
<1>1. InOrder(split.order, SessionsOf(features))
  BY DEF SplitSound
<1> DEFINE q == split.order
<1>2. /\ Len(q) \in Nat /\ DOMAIN q = 1..Len(q)
      /\ \A i \in 1..Len(q) : q[i] \in SessionsOf(features) /\ q[i] \in Fetched /\ q[i] \in Sessions
      /\ \A i, j \in 1..Len(q) : i < j => q[i] < q[j]
  BY <1>1, OrderFacts, SessionSets
<1> HIDE DEF q
<1>3. \A i \in 1..Len(q) : decided[q[i]] \in Nat /\ decided[q[i]] < Never
  BY <1>2, DecidedIsClosed
<1>4. \A i, j \in 1..Len(q) : i < j => decided[q[i]] < decided[q[j]]
  BY <1>2 DEF Timely
<1>5. \A i, j \in 1..Len(q) : i <= j => decided[q[i]] <= decided[q[j]]
  <2>1. SUFFICES ASSUME NEW i \in 1..Len(q), NEW j \in 1..Len(q), i <= j
                 PROVE  decided[q[i]] <= decided[q[j]]
    OBVIOUS
  <2>2. i = j \/ i < j
    BY <1>2, <2>1
  <2> QED  BY <1>3, <1>4, <2>2
<1> QED  BY <1>2, <1>3, <1>4, <1>5 DEF q

\* The holdout is the decisions from its first one on; the cutoffs advance.
LEMMA CutoffFacts ==
    ASSUME Market, Scope, Timely, features \subseteq Candidates, SplitSound,
           NEW i \in 1..Len(split.order)
    PROVE  /\ IsHoldout(i) <=> HoldoutPeriods # 0 /\ split.index <= i
           /\ IsHoldout(i) => split.index \in 1..Len(split.order)
                              /\ split.start = decided[split.order[split.index]]
           /\ PlaceOf(i) \in 1..Len(split.order) /\ PlaceOf(i) <= i
           /\ IsHoldout(i) => PlaceOf(i) <= split.index
           /\ Cutoff(i) = decided[split.order[PlaceOf(i)]]
           /\ Cutoff(i) \in Nat /\ Cutoff(i) <= decided[split.order[i]]
<1> DEFINE q == split.order
<1>1. /\ Len(q) \in Nat /\ DOMAIN q = 1..Len(q)
      /\ \A j \in 1..Len(q) : decided[q[j]] \in Nat /\ decided[q[j]] < Never
      /\ \A j, k \in 1..Len(q) : j < k => decided[q[j]] < decided[q[k]]
      /\ \A j, k \in 1..Len(q) : j <= k => decided[q[j]] <= decided[q[k]]
  BY OrderIsDecided
<1>2. IF HoldoutPeriods = 0 THEN split.start = Never
      ELSE split.index \in 1..Len(q) /\ split.start = decided[q[split.index]]
  BY <1>1 DEF SplitSound
<1>3. IsHoldout(i) <=> decided[q[i]] >= split.start
  BY DEF IsHoldout
<1> HIDE DEF q
<1>4. IsHoldout(i) <=> HoldoutPeriods # 0 /\ split.index <= i
  <2>1. CASE HoldoutPeriods = 0
    <3>1. i \in 1..Len(q)
      BY DEF q
    <3>2. decided[q[i]] \in Nat /\ decided[q[i]] < Never /\ Never \in Nat
      BY <1>1, <3>1, Times
    <3> QED  BY <1>2, <1>3, <2>1, <3>2
  <2>2. CASE HoldoutPeriods # 0
    <3>1. i \in Nat /\ split.index \in Nat /\ i \in 1..Len(q)
      BY <1>1, <1>2, <2>2 DEF q
    <3>2. CASE split.index <= i
      BY <1>1, <1>2, <1>3, <2>2, <3>1, <3>2
    <3>3. CASE i < split.index
      <4>1. decided[q[i]] < split.start /\ decided[q[i]] \in Nat /\ split.start \in Nat
        BY <1>1, <1>2, <2>2, <3>1, <3>3
      <4> QED  BY <1>3, <3>1, <3>3, <4>1
    <3> QED  BY <3>1, <3>2, <3>3
  <2> QED  BY <2>1, <2>2
<1>5. conf.embargo \in Nat
  BY ConfFacts
<1>6. /\ PlaceOf(i) \in 1..Len(q) /\ PlaceOf(i) <= i
      /\ IsHoldout(i) => PlaceOf(i) <= split.index /\ split.index \in 1..Len(q)
  <2>1. i \in 1..Len(q) /\ i \in Nat
    BY <1>1 DEF q
  <2>2. CASE IsHoldout(i)
    <3>1. split.index \in 1..Len(q) /\ split.index <= i /\ FromOf(i) = split.index - conf.embargo
      BY <1>2, <1>4, <2>2 DEF FromOf
    <3> QED  BY <1>1, <1>5, <2>1, <3>1 DEF PlaceOf
  <2>3. CASE ~IsHoldout(i)
    <3>1. FromOf(i) = i - conf.embargo
      BY <2>3 DEF FromOf
    <3> QED  BY <1>1, <1>5, <2>1, <2>3, <3>1 DEF PlaceOf
  <2> QED  BY <2>2, <2>3
<1>7. Cutoff(i) = decided[q[PlaceOf(i)]]
  BY DEF Cutoff, PlaceOf, FromOf, q
<1>8. i \in 1..Len(q)
  BY DEF q
<1>9. Cutoff(i) \in Nat /\ Cutoff(i) <= decided[q[i]]
  BY <1>1, <1>6, <1>7, <1>8
<1> QED  BY <1>2, <1>4, <1>6, <1>7, <1>9 DEF q

\* A later decision has no earlier cutoff.
LEMMA CutoffsAdvance ==
    ASSUME Market, Scope, Timely, features \subseteq Candidates, SplitSound,
           NEW i \in 1..Len(split.order), NEW j \in 1..Len(split.order), i <= j
    PROVE  Cutoff(i) <= Cutoff(j)
<1>1. /\ PlaceOf(i) \in 1..Len(split.order) /\ PlaceOf(j) \in 1..Len(split.order)
      /\ Cutoff(i) = decided[split.order[PlaceOf(i)]] /\ Cutoff(j) = decided[split.order[PlaceOf(j)]]
      /\ (IsHoldout(i) <=> HoldoutPeriods # 0 /\ split.index <= i)
      /\ (IsHoldout(j) <=> HoldoutPeriods # 0 /\ split.index <= j)
      /\ (IsHoldout(i) => split.index \in 1..Len(split.order))
      /\ (IsHoldout(j) => split.index \in 1..Len(split.order))
  BY CutoffFacts
<1>2. i \in Nat /\ j \in Nat /\ Len(split.order) \in Nat /\ conf.embargo \in Nat
  BY OrderIsDecided, ConfFacts
<1>3. (IF IsHoldout(i) THEN split.index ELSE i) <= (IF IsHoldout(j) THEN split.index ELSE j)
  <2>1. HoldoutPeriods # 0 => split.index \in Nat
    BY <1>2, OrderIsDecided DEF SplitSound
  <2> QED  BY <1>1, <1>2, <2>1
<1>4. PlaceOf(i) <= PlaceOf(j)
  <2>1. (IF IsHoldout(i) THEN split.index ELSE i) \in Int /\ (IF IsHoldout(j) THEN split.index ELSE j) \in Int
    BY <1>1, <1>2
  <2> QED  BY <1>2, <1>3, <2>1 DEF PlaceOf, FromOf
<1> QED  BY <1>1, <1>4, OrderIsDecided

\* What is known at a time is known at a later one.
LEMMA LearntGrows ==
    ASSUME Market, Scope, Timely, features \subseteq Candidates,
           NEW t \in Nat, NEW u \in Nat, t <= u
    PROVE  Learnt(t) \subseteq Learnt(u)
<1> SUFFICES ASSUME NEW r \in Learnt(t) PROVE r \in Learnt(u)
  OBVIOUS
<1>1. r \in features /\ Observed(r) /\ decided[r[2]] < split.start /\ KnownAt(r) < t
  BY DEF Learnt, Learns
<1>2. KnownAt(r) < u
  <2>1. KnownAt(r) \in Nat
    BY <1>1, ObservedFacts
  <2> QED  BY <1>1, <2>1
<1> QED  BY <1>1, <1>2 DEF Learnt, Learns

\* Because cutoffs advance, the fit with what it adds is what is known at its cutoff.
LEMMA TrainDecisionSound == ASSUME IInv, TrainDecision PROVE IInv'
<1> DEFINE i == Len(snapshots) + 1
           new == [session |-> split.order[i], rows |-> trained', frozen |-> IsHoldout(i)]
<1>1. /\ stage = "training" /\ conf.mode # "holdout_evaluation" /\ Market /\ Scope /\ Timely
      /\ features \subseteq Candidates /\ Labelled /\ SplitSound /\ SnapshotsSound
      /\ Len(snapshots) < Len(split.order)
      /\ UNCHANGED <<data, stage, decided, features, labels, split, evaluation, windows>>
      /\ UNCHANGED <<data, decided>> /\ UNCHANGED <<data, decided, features, labels>>
      /\ UNCHANGED <<data, decided, features, labels, split>> /\ split' = split
      /\ trained' = trained \cup {r \in features : Learns(r, Cutoff(i))}
      /\ snapshots' = Append(snapshots, new)
  BY DEF IInv, TrainDecision, Fitted
<1>2. /\ snapshots \in Seq([session : Sessions, rows : SUBSET Rows, frozen : BOOLEAN])
      /\ Len(snapshots) \in Nat /\ Len(split.order) \in Nat /\ i \in 1..Len(split.order)
      /\ DOMAIN snapshots = 1..Len(snapshots)
  <2>1. snapshots \in Seq([session : Sessions, rows : SUBSET Rows, frozen : BOOLEAN])
    BY <1>1 DEF SnapshotsSound
  <2> QED  BY <1>1, <2>1, OrderIsDecided
<1>3. trained' = Learnt(Cutoff(i))
  <2>1. CASE snapshots = <<>>
    BY <1>1, <2>1 DEF SnapshotsSound, Learnt
  <2>2. CASE snapshots # <<>>
    <3>1. Len(snapshots) \in 1..Len(split.order) /\ Len(snapshots) <= i
      BY <1>2, <2>2
    <3>2. trained = Learnt(Cutoff(Len(snapshots)))
      BY <1>1, <2>2 DEF SnapshotsSound
    <3> HIDE DEF i
    <3>3. Cutoff(Len(snapshots)) <= Cutoff(i) /\ Cutoff(i) \in Nat /\ Cutoff(Len(snapshots)) \in Nat
      BY <1>1, <1>2, <3>1, CutoffsAdvance, CutoffFacts
    <3>4. trained \subseteq Learnt(Cutoff(i))
      BY <1>1, <3>2, <3>3, LearntGrows
    <3> QED  BY <1>1, <3>4 DEF Learnt
  <2> QED  BY <2>1, <2>2
<1>4. new \in [session : Sessions, rows : SUBSET Rows, frozen : BOOLEAN]
  <2> HIDE DEF i
  <2>1. split.order[i] \in Sessions
    BY <1>1, <1>2, OrderIsDecided
  <2>2. trained' \in SUBSET Rows
    BY <1>1, <1>3 DEF Learnt, Candidates
  <2>3. IsHoldout(i) \in BOOLEAN
    BY DEF IsHoldout
  <2> QED  BY <2>1, <2>2, <2>3
<1>5. new.session = split.order[i] /\ new.rows = trained'
  OBVIOUS
<1> HIDE DEF new
<1>6. /\ snapshots' \in Seq([session : Sessions, rows : SUBSET Rows, frozen : BOOLEAN])
      /\ Len(snapshots') = i /\ snapshots'[i] = new /\ snapshots' # <<>>
      /\ \A j \in 1..Len(snapshots) : snapshots'[j] = snapshots[j]
      /\ DOMAIN snapshots' = 1..i
  BY <1>1, <1>2, <1>4
<1> HIDE DEF i
<1>7. \A j \in 1..i : snapshots'[j].session = split.order[j] /\ snapshots'[j].rows = Learnt(Cutoff(j))
  <2>1. SUFFICES ASSUME NEW j \in 1..i
                 PROVE  snapshots'[j].session = split.order[j] /\ snapshots'[j].rows = Learnt(Cutoff(j))
    OBVIOUS
  <2>2. CASE j = i
    BY <1>3, <1>5, <1>6, <2>2
  <2>3. CASE j # i
    <3>1. j \in 1..Len(snapshots)
      BY <1>2, <2>3 DEF i
    <3> QED  BY <1>1, <1>2, <1>6, <3>1 DEF SnapshotsSound
  <2> QED  BY <2>2, <2>3
<1>8. SnapshotsSound'
  <2>1. Len(snapshots') <= Len(split'.order)
    BY <1>1, <1>2, <1>6
  <2>2. (\A j \in DOMAIN snapshots : snapshots[j].session = split.order[j]
                                     /\ snapshots[j].rows = Learnt(Cutoff(j)))'
    BY <1>1, <1>6, <1>7, SplitStays
  <2>3. trained' = Learnt(Cutoff(Len(snapshots)))'
    <3>2. PICK k : k = i
      OBVIOUS
    <3>3. Cutoff(k)' = Cutoff(k)
      BY <1>1, SplitStays
    <3>4. PICK t : t = Cutoff(k)
      OBVIOUS
    <3>5. Learnt(t)' = Learnt(t)
      BY <1>1, SplitStays
    <3>6. trained' = Learnt(t)' /\ t = Cutoff(k)' /\ k = Len(snapshots)'
      BY <1>3, <1>6, <3>2, <3>3, <3>4, <3>5
    <3> QED  BY <3>6
  <2>4. stage' = "training"
    BY <1>1
  <2> QED  BY <1>6, <2>1, <2>2, <2>3, <2>4 DEF SnapshotsSound
<1>9. Market' /\ Scope' /\ conf' = conf /\ Timely' /\ Candidates' = Candidates
  BY <1>1, MarketStays, DecisionsStay DEF data
<1>10. Labelled' /\ SplitSound'
  BY <1>1, RowsStay, SplitStays
<1> QED  BY <1>1, <1>8, <1>9, <1>10 DEF IInv, Stages, Fitted, Before

\* Training ends with a snapshot of each decision.
LEMMA EndTrainingSound == ASSUME IInv, EndTraining PROVE IInv'
<1>1. /\ stage = "training" /\ stage' = "trained"
      /\ conf.mode # "holdout_evaluation" /\ Market /\ Scope /\ Timely
      /\ features \subseteq Candidates /\ Labelled /\ SplitSound /\ SnapshotsSound
      /\ Len(snapshots) = Len(split.order)
      /\ UNCHANGED <<data, decided, features, labels, split, trained, snapshots, evaluation, windows>>
      /\ UNCHANGED <<data, decided>> /\ UNCHANGED <<data, decided, features, labels>>
      /\ UNCHANGED <<data, decided, features, labels, split>> /\ split' = split
  BY DEF IInv, EndTraining, Fitted
<1>2. Market' /\ Scope' /\ conf' = conf /\ Timely' /\ Candidates' = Candidates
  BY <1>1, MarketStays, DecisionsStay DEF data
<1>3. Labelled' /\ SplitSound'
  BY <1>1, RowsStay, SplitStays
<1>4. SnapshotsSound'
  BY <1>1, SplitStays DEF SnapshotsSound
<1> QED  BY <1>1, <1>2, <1>3, <1>4 DEF IInv, Stages, Fitted, Before

-----------------------------------------------------------------------------
(* Evaluation and backtest *)

\* Pieces of a sequence of sessions.
LEMMA Pieces ==
    ASSUME NEW S, NEW q \in Seq(S), NEW m \in Nat, NEW n \in Nat, m <= n + 1, n <= Len(q), m >= 1
    PROVE  /\ SubSeq(q, m, n) \in Seq(S) /\ Len(SubSeq(q, m, n)) = n - m + 1
           /\ \A i \in 1..(n - m + 1) : SubSeq(q, m, n)[i] = q[m + i - 1]
<1>1. Len(q) \in Nat /\ \A i \in 1..Len(q) : q[i] \in S
  OBVIOUS
<1>2. SubSeq(q, m, n) = [i \in 1..(1 + n - m) |-> q[i + m - 1]]
  OBVIOUS
<1>3. \A i \in 1..(1 + n - m) : q[i + m - 1] \in S
  <2>1. SUFFICES ASSUME NEW i \in 1..(1 + n - m) PROVE q[i + m - 1] \in S
    OBVIOUS
  <2>2. i + m - 1 \in 1..Len(q)
    BY <1>1
  <2> QED  BY <1>1, <2>2
<1>4. SubSeq(q, m, n) \in Seq(S) /\ Len(SubSeq(q, m, n)) = 1 + n - m
  BY <1>1, <1>2, <1>3
<1>5. \A i \in 1..(n - m + 1) : SubSeq(q, m, n)[i] = q[m + i - 1]
  <2>1. SUFFICES ASSUME NEW i \in 1..(n - m + 1) PROVE SubSeq(q, m, n)[i] = q[m + i - 1]
    OBVIOUS
  <2>2. i \in 1..(1 + n - m) /\ i + m - 1 = m + i - 1
    OBVIOUS
  <2> QED  BY <1>2, <2>2
<1> QED  BY <1>4, <1>5

\* Development is cut before the first row whose outcome the holdout could know.
LEMMA EvaluateSound == ASSUME IInv, Evaluate PROVE IInv'
<1>1. /\ stage = "trained"
      /\ conf.mode # "holdout_evaluation" /\ Market /\ Scope /\ Timely
      /\ features \subseteq Candidates /\ Labelled /\ SplitSound /\ SnapshotsSound
      /\ UNCHANGED <<data, decided, features, labels, split, trained, snapshots, windows>>
      /\ UNCHANGED <<data, decided, features, labels, split, trained, snapshots>>
      /\ UNCHANGED <<data, decided>> /\ UNCHANGED <<data, decided, features, labels>>
      /\ UNCHANGED <<data, decided, features, labels, split>> /\ split' = split
  BY DEF IInv, Evaluate, Raise, Fitted
<1>2. Market' /\ Scope' /\ conf' = conf /\ Timely' /\ Candidates' = Candidates
  BY <1>1, MarketStays, DecisionsStay DEF data
<1>3. CASE stage' = "raised"
  BY <1>1, <1>2, <1>3 DEF IInv, Stages, Fitted, Before
<1>4. CASE stage' = "evaluated"
  <2> DEFINE known(s) == \A r \in InSession(features, s) : Observed(r) /\ KnownAt(r) < split.start
             keeps == {n \in 0..Len(PreHoldout) : \A i \in 1..n : known(PreHoldout[i])}
             n == CHOOSE m \in keeps : \A k \in keeps : k <= m
             q == split.observed
  <2>1. /\ evaluation' = [development |-> Development,
                          purged |-> SubSeq(PreHoldout, Len(Development) + 1, Len(PreHoldout)),
                          holdout |-> Holdout]
    BY <1>1, <1>4 DEF Evaluate, Raise
  <2>2. Development = SubSeq(PreHoldout, 1, n)
    BY Zenon DEF Development
  <2>3. q \in Seq(Sessions) /\ split.pre \in Nat /\ Len(q) \in Nat /\ split.pre <= Len(q)
    <3>1. InOrder(q, SessionsOf(ObservedRows)) /\ split.pre \in Nat
          /\ split.pre + HoldoutPeriods = Len(q) /\ HoldoutPeriods \in Nat
      BY <1>1, ConfFacts DEF SplitSound
    <3>2. q \in Seq(SessionsOf(ObservedRows)) /\ SessionsOf(ObservedRows) \in SUBSET Sessions
      BY <1>1, <3>1, SessionSets DEF InOrder
    <3>3. q \in Seq(Sessions)
      BY <3>2
    <3> QED  BY <3>1, <3>3
  <2> HIDE DEF q
  <2>4. /\ PreHoldout \in Seq(Sessions) /\ Len(PreHoldout) = split.pre
        /\ \A i \in 1..split.pre : PreHoldout[i] = q[i]
    <3>1. PreHoldout = SubSeq(q, 1, split.pre)
      BY DEF PreHoldout, q
    <3>2. /\ PreHoldout \in Seq(Sessions) /\ Len(PreHoldout) = split.pre - 1 + 1
          /\ \A i \in 1..(split.pre - 1 + 1) : PreHoldout[i] = q[1 + i - 1]
      BY <2>3, <3>1, Pieces
    <3>3. split.pre - 1 + 1 = split.pre /\ \A i \in Int : 1 + i - 1 = i
      BY <2>3
    <3> QED  BY <2>3, <3>2, <3>3
  <2>5. n \in keeps
    <3>1. keeps \in SUBSET Nat /\ \A m \in keeps : m <= split.pre
      BY <2>3, <2>4
    <3>2. 0 \in keeps
      BY <2>3, <2>4
    <3> HIDE DEF keeps
    <3>3. \E m \in keeps : \A k \in keeps : k <= m
      BY <2>3, <3>1, <3>2, LastOf
    <3> QED  BY <3>3
  <2>6. n \in 0..split.pre /\ \A i \in 1..n : known(PreHoldout[i])
    BY <2>4, <2>5
  <2> HIDE DEF n, keeps
  <2>7. /\ Len(Development) = n /\ Development = SubSeq(q, 1, n)
    <3>1. n \in Nat /\ n <= split.pre /\ n <= Len(q)
      BY <2>3, <2>6
    <3>2. /\ Development \in Seq(Sessions) /\ Len(Development) = n - 1 + 1
          /\ \A i \in 1..(n - 1 + 1) : Development[i] = PreHoldout[1 + i - 1]
      BY <2>2, <2>4, <3>1, Pieces
    <3>3. /\ SubSeq(q, 1, n) \in Seq(Sessions) /\ Len(SubSeq(q, 1, n)) = n - 1 + 1
          /\ \A i \in 1..(n - 1 + 1) : SubSeq(q, 1, n)[i] = q[1 + i - 1]
      BY <2>3, <3>1, Pieces
    <3>4. n - 1 + 1 = n /\ \A i \in Int : 1 + i - 1 = i
      BY <3>1
    <3>5. \A i \in 1..n : Development[i] = SubSeq(q, 1, n)[i]
      BY <2>4, <3>1, <3>2, <3>3, <3>4
    <3> QED  BY <3>2, <3>3, <3>4, <3>5
  <2>8. SubSeq(PreHoldout, n + 1, split.pre) = SubSeq(q, n + 1, split.pre)
    <3>1. n + 1 \in Nat /\ n + 1 <= split.pre + 1 /\ n + 1 >= 1
      BY <2>3, <2>6
    <3> DEFINE m == n + 1
               l == split.pre - m + 1
    <3>2. /\ SubSeq(PreHoldout, m, split.pre) \in Seq(Sessions)
          /\ Len(SubSeq(PreHoldout, m, split.pre)) = l
          /\ \A i \in 1..l : SubSeq(PreHoldout, m, split.pre)[i] = PreHoldout[m + i - 1]
      BY <2>3, <2>4, <3>1, Pieces
    <3>3. /\ SubSeq(q, m, split.pre) \in Seq(Sessions) /\ Len(SubSeq(q, m, split.pre)) = l
          /\ \A i \in 1..l : SubSeq(q, m, split.pre)[i] = q[m + i - 1]
      BY <2>3, <2>4, <3>1, Pieces
    <3>4. \A i \in 1..l : m + i - 1 \in 1..split.pre
      BY <2>3, <3>1
    <3>5. \A i \in 1..l : SubSeq(PreHoldout, m, split.pre)[i] = SubSeq(q, m, split.pre)[i]
      <4> HIDE DEF m, l
      <4> QED  BY <2>4, <3>2, <3>3, <3>4
    <3> HIDE DEF m, l
    <3>6. SubSeq(PreHoldout, m, split.pre) = SubSeq(q, m, split.pre)
      BY <3>2, <3>3, <3>5
    <3> QED  BY <3>6 DEF m
  <2>9. \A i \in 1..n : \A r \in features : r[2] = q[i] => Observed(r) /\ KnownAt(r) < split.start
    <3>1. SUFFICES ASSUME NEW i \in 1..n, NEW r \in features, r[2] = q[i]
                   PROVE  Observed(r) /\ KnownAt(r) < split.start
      OBVIOUS
    <3>2. PreHoldout[i] = q[i]
      BY <2>3, <2>4, <2>6
    <3>3. r \in InSession(features, PreHoldout[i])
      BY <3>1, <3>2 DEF InSession
    <3> QED  BY <2>6, <3>3
  <2>10. /\ evaluation'.development = SubSeq(q, 1, n) /\ evaluation'.holdout = Holdout
         /\ evaluation'.purged = SubSeq(q, n + 1, split.pre)
    BY <2>1, <2>4, <2>7, <2>8
  <2>11. PICK k : k = n
    OBVIOUS
  <2>12. Judged(k)'
    <3>1. split'.observed = q /\ split'.pre = split.pre /\ split'.start = split.start
      BY <1>1 DEF q
    <3>2. /\ Holdout' = Holdout /\ features' = features
          /\ \A r : KnownAt(r)' = KnownAt(r)
          /\ \A r : Observed(r)' = Observed(r)
      BY <1>1, DecisionsStay, RowsStay, SplitStays
    <3> QED  BY <2>9, <2>10, <2>11, <3>1, <3>2 DEF Judged
  <2>13. \E m \in 0..split'.pre : Judged(m)'
    BY <1>1, <2>6, <2>11, <2>12
  <2>14. Labelled' /\ SplitSound' /\ SnapshotsSound'
    BY <1>1, <1>4, RowsStay, SplitStays, SnapshotsStay
  <2> QED  BY <1>1, <1>2, <1>4, <2>13, <2>14 DEF IInv, Stages, Fitted, Before
<1> QED  BY <1>3, <1>4 DEF Evaluate, Raise

\* Both windows are replayed in step.
LEMMA BacktestSound == ASSUME IInv, Backtest PROVE IInv'
<1>1. /\ stage = "evaluated" /\ stage' = "tested"
      /\ conf.mode # "holdout_evaluation" /\ Market /\ Scope /\ Timely
      /\ features \subseteq Candidates /\ Labelled /\ SplitSound /\ SnapshotsSound
      /\ \E n \in 0..split.pre : Judged(n)
      /\ UNCHANGED <<data, decided, features, labels, split, trained, snapshots, evaluation>>
      /\ UNCHANGED <<data, decided, features, labels, split, trained, snapshots>>
      /\ UNCHANGED <<data, decided>> /\ UNCHANGED <<data, decided, features, labels>>
      /\ UNCHANGED <<data, decided, features, labels, split>> /\ split' = split
      /\ evaluation' = evaluation
      /\ windows' = [development |-> Every(evaluation.development, 0),
                     holdout |-> IF HoldoutPeriods = 0 THEN <<>>
                                 ELSE Every(evaluation.holdout, Offset)]
  BY DEF IInv, Backtest, Fitted
<1>2. Market' /\ Scope' /\ conf' = conf /\ Timely' /\ Candidates' = Candidates
  BY <1>1, MarketStays, DecisionsStay DEF data
<1>3. Labelled' /\ SplitSound' /\ SnapshotsSound'
  BY <1>1, RowsStay, SplitStays, SnapshotsStay
<1>4. \E n \in 0..split'.pre : Judged(n)'
  BY <1>1, SplitStays
<1>5. Traded'
  <2>1. Offset' = Offset /\ HoldoutPeriods' = HoldoutPeriods
    BY <1>1, <1>2, DecisionsStay DEF Offset
  <2>2. \A times, o : Every(times, o)' = Every(times, o)
    BY <1>2 DEF Every
  <2>3. PICK v, w, o : v = evaluation.development /\ w = evaluation.holdout /\ o = Offset
    OBVIOUS
  <2>4. Every(v, 0)' = Every(v, 0) /\ Every(w, o)' = Every(w, o)
    BY <2>2
  <2>5. v = evaluation'.development /\ w = evaluation'.holdout /\ o = Offset'
    BY <1>1, <2>1, <2>3
  <2>6. windows' = [development |-> Every(v, 0),
                    holdout |-> IF HoldoutPeriods = 0 THEN <<>> ELSE Every(w, o)]
    BY <1>1, <2>3
  <2> QED  BY <2>1, <2>4, <2>5, <2>6 DEF Traded
<1> QED  BY <1>1, <1>2, <1>3, <1>4, <1>5 DEF IInv, Stages, Fitted, Before

-----------------------------------------------------------------------------
(* Every horizon-th session *)

\* Multiples of h are h apart.
LEMMA Multiples ==
    ASSUME NEW x \in Int, NEW y \in Int, NEW h \in Nat, h > 0
    PROVE  /\ x < y => h * x + h <= h * y
           /\ h * x \in Int
           /\ h * x < h * y + h => x <= y
OBVIOUS

\* The remainder of a division is what is less than the divisor.
LEMMA Remainder ==
    ASSUME NEW x \in Int, NEW r \in Nat, NEW h \in Nat, h > 0, r < h
    PROVE  (h * x + r) % h = r
OBVIOUS

\* Every takes the places a horizon apart, from the offset on, and no other.
LEMMA EveryTakes ==
    ASSUME Scope, NEW S, NEW times \in Seq(S), NEW o \in Nat
    PROVE  /\ Every(times, o) \in Seq(S)
           /\ \A i \in DOMAIN Every(times, o) : \E k \in 1..Len(times), x \in Nat :
                 k = o + conf.horizon * x + 1 /\ Every(times, o)[i] = times[k]
           /\ \A k \in 1..Len(times), x \in Nat :
                 k = o + conf.horizon * x + 1 =>
                     \E i \in DOMAIN Every(times, o) : Every(times, o)[i] = times[k]
<1>1. PICK h : h = conf.horizon
  OBVIOUS
<1>2. h \in Nat /\ h > 0
  BY <1>1, ConfFacts
<1>3. PICK l : l = Len(times)
  OBVIOUS
<1>4. l \in Nat /\ \A k \in 1..l : times[k] \in S
  BY <1>3
<1>0. PICK a : a = l - o + h - 1
  OBVIOUS
<1>5. PICK q : q = a \div h
  OBVIOUS
<1>6. PICK r : r = a % h
  OBVIOUS
<1>7. q \in Int /\ r \in Nat /\ r < h /\ l - o + h - 1 = h * q + r
  <2>1. a \in Int
    BY <1>0, <1>2, <1>4
  <2>2. q \in Int
    BY <1>2, <1>5, <2>1
  <2>3. r \in Int /\ r >= 0 /\ r < h
    BY <1>2, <1>6, <2>1
  <2>4. h * q + r = a
    BY <1>2, <1>5, <1>6, <2>1, <2>2, <2>3
  <2> QED  BY <1>0, <1>2, <1>4, <2>1, <2>2, <2>3, <2>4
<1>8. PICK n : n = IF q < 0 THEN 0 ELSE q
  OBVIOUS
<1>9. n \in Nat
  BY <1>7, <1>8
<1>10. Every(times, o) = [i \in 1..n |-> times[o + (i - 1) * h + 1]]
  BY <1>0, <1>1, <1>3, <1>5, <1>8 DEF Every
<1>11. ASSUME NEW i \in 1..n PROVE o + (i - 1) * h + 1 \in 1..l
  <2>1. i \in Int /\ i >= 1 /\ i <= q /\ i - 1 \in Nat
    BY <1>7, <1>8, <1>11
  <2>2. h * (i - 1) >= 0 /\ h * (i - 1) \in Int
    BY <1>2, <2>1, Multiples
  <2>3. h * (i - 1) + h <= h * q
    <3>1. i - 1 < q /\ i - 1 \in Int
      BY <1>7, <2>1
    <3> QED  BY <1>2, <1>7, <3>1, Multiples
  <2>4. (i - 1) * h = h * (i - 1)
    BY <1>2, <2>1
  <2>5. h * q \in Int
    BY <1>2, <1>7
  <2> QED  BY <1>2, <1>4, <1>7, <2>2, <2>3, <2>4, <2>5
<1>12. Every(times, o) \in Seq(S) /\ DOMAIN Every(times, o) = 1..n
  <2>1. Every(times, o) \in [1..n -> S]
    BY <1>4, <1>10, <1>11
  <2> QED  BY <1>9, <2>1
<1>13. ASSUME NEW i \in 1..n
       PROVE  \E k \in 1..l, x \in Nat : k = o + h * x + 1 /\ Every(times, o)[i] = times[k]
  <2>1. i - 1 \in Nat
    BY <1>9
  <2>2. o + (i - 1) * h + 1 \in 1..l /\ Every(times, o)[i] = times[o + (i - 1) * h + 1]
    BY <1>10, <1>11
  <2>3. (i - 1) * h = h * (i - 1)
    BY <1>2, <2>1
  <2> QED  BY <2>1, <2>2, <2>3
<1>14. ASSUME NEW k \in 1..l, NEW x \in Nat, k = o + h * x + 1
       PROVE  \E i \in 1..n : Every(times, o)[i] = times[k]
  <2>1. h * x \in Int /\ h * q \in Int
    BY <1>2, <1>7
  <2>2. h * x < h * q
    BY <1>2, <1>4, <1>7, <1>14, <2>1
  <2>3. x < q
    <3>1. ~(q <= x)
      <4>1. q < x => h * q + h <= h * x
        BY <1>2, <1>7, Multiples
      <4> QED  BY <1>2, <1>7, <2>1, <2>2, <4>1
    <3> QED  BY <1>7, <3>1
  <2>4. x + 1 \in 1..n
    BY <1>7, <1>8, <2>3
  <2>5. o + ((x + 1) - 1) * h + 1 = k
    BY <1>2, <1>14
  <2>6. Every(times, o)[x + 1] = times[o + ((x + 1) - 1) * h + 1]
    BY <1>10, <2>4
  <2> QED  BY <2>4, <2>5, <2>6
<1> QED  BY <1>1, <1>3, <1>12, <1>13, <1>14

\* What development judges is of the sessions it has observed.
LEMMA JudgedFacts ==
    ASSUME Market, Scope, Timely, features \subseteq Candidates, SplitSound,
           NEW n \in 0..split.pre, Judged(n)
    PROVE  /\ n \in Nat /\ n <= split.pre /\ split.pre \in Nat /\ Len(split.observed) \in Nat
           /\ split.pre + HoldoutPeriods = Len(split.observed) /\ HoldoutPeriods \in Nat
           /\ split.observed \in Seq(Sessions) /\ DOMAIN split.observed = 1..Len(split.observed)
           /\ \A i \in 1..Len(split.observed) :
                 \E r \in features : Observed(r) /\ r[2] = split.observed[i]
           /\ evaluation.development \in Seq(Sessions) /\ Len(evaluation.development) = n
           /\ \A i \in 1..n : evaluation.development[i] = split.observed[i]
           /\ evaluation.purged \in Seq(Sessions) /\ Len(evaluation.purged) = split.pre - n
           /\ \A i \in 1..(split.pre - n) : evaluation.purged[i] = split.observed[n + i]
           /\ evaluation.holdout \in Seq(Sessions) /\ Len(evaluation.holdout) = HoldoutPeriods
           /\ \A i \in 1..HoldoutPeriods : evaluation.holdout[i] = split.observed[split.pre + i]
<1> DEFINE q == split.observed
           p == split.pre
           m == HoldoutPeriods
<1>1. /\ InOrder(q, SessionsOf(ObservedRows)) /\ p \in Nat /\ p + m = Len(q)
      /\ SessionsOf(ObservedRows) \in SUBSET Sessions
  BY SessionSets DEF SplitSound
<1>2. /\ q \in Seq(SessionsOf(ObservedRows)) /\ Len(q) \in Nat /\ DOMAIN q = 1..Len(q)
      /\ \A i \in 1..Len(q) : q[i] \in SessionsOf(ObservedRows)
  BY <1>1, OrderFacts
<1>3. q \in Seq(Sessions) /\ m \in Nat /\ n \in Nat /\ n <= p /\ p <= Len(q)
  BY <1>1, <1>2, ConfFacts
<1>4. \A i \in 1..Len(q) : \E r \in features : Observed(r) /\ r[2] = q[i]
  BY <1>2 DEF SessionsOf, ObservedRows
<1>5. /\ evaluation.development = SubSeq(q, 1, n) /\ evaluation.purged = SubSeq(q, n + 1, p)
      /\ evaluation.holdout = SubSeq(q, p + 1, Len(q))
  BY DEF Judged, Holdout
<1> HIDE DEF q, p, m
<1>6. /\ evaluation.development \in Seq(Sessions) /\ Len(evaluation.development) = n
      /\ \A i \in 1..n : evaluation.development[i] = q[i]
  <2>1. /\ SubSeq(q, 1, n) \in Seq(Sessions) /\ Len(SubSeq(q, 1, n)) = n - 1 + 1
        /\ \A i \in 1..(n - 1 + 1) : SubSeq(q, 1, n)[i] = q[1 + i - 1]
    BY <1>1, <1>2, <1>3, Pieces
  <2>2. n - 1 + 1 = n /\ \A i \in 1..n : 1 + i - 1 = i
    BY <1>3
  <2> QED  BY <1>5, <2>1, <2>2
<1>7. /\ evaluation.purged \in Seq(Sessions) /\ Len(evaluation.purged) = p - n
      /\ \A i \in 1..(p - n) : evaluation.purged[i] = q[n + i]
  <2>1. PICK k : k = n + 1
    OBVIOUS
  <2>2. k \in Nat /\ k >= 1 /\ k <= p + 1
    BY <1>1, <1>3, <2>1
  <2>3. /\ SubSeq(q, k, p) \in Seq(Sessions) /\ Len(SubSeq(q, k, p)) = p - k + 1
        /\ \A i \in 1..(p - k + 1) : SubSeq(q, k, p)[i] = q[k + i - 1]
    BY <1>1, <1>3, <2>2, Pieces
  <2>4. p - k + 1 = p - n /\ \A i \in 1..(p - n) : k + i - 1 = n + i
    BY <1>1, <1>3, <2>1
  <2> QED  BY <1>5, <2>1, <2>3, <2>4
<1>8. /\ evaluation.holdout \in Seq(Sessions) /\ Len(evaluation.holdout) = m
      /\ \A i \in 1..m : evaluation.holdout[i] = q[p + i]
  <2>1. PICK k, l : k = p + 1 /\ l = Len(q)
    OBVIOUS
  <2>2. k \in Nat /\ k >= 1 /\ k <= l + 1 /\ l \in Nat
    BY <1>1, <1>2, <1>3, <2>1
  <2>3. /\ SubSeq(q, k, l) \in Seq(Sessions) /\ Len(SubSeq(q, k, l)) = l - k + 1
        /\ \A i \in 1..(l - k + 1) : SubSeq(q, k, l)[i] = q[k + i - 1]
    BY <1>3, <2>1, <2>2, Pieces
  <2>4. l - k + 1 = m /\ \A i \in 1..m : k + i - 1 = p + i
    BY <1>1, <1>2, <1>3, <2>1
  <2> QED  BY <1>5, <2>1, <2>3, <2>4
<1> QED  BY <1>1, <1>2, <1>3, <1>4, <1>6, <1>7, <1>8 DEF q, p, m

-----------------------------------------------------------------------------
(* The reveal *)

\* The reveal reads what development has read, and decides it at the same times.
LEMMA RevealSound == ASSUME IInv, Reveal PROVE IInv'
<1>1. /\ stage = "tested" /\ conf.mode = "development_only" /\ Market /\ Scope /\ Timely
      /\ features \subseteq Candidates /\ Labelled /\ SplitSound /\ SnapshotsSound /\ Traded
      /\ UNCHANGED <<first, last, delay, textAt, split, trained, snapshots, evaluation, windows>>
      /\ features' = {} /\ stage' \in {"raised", "ingested"}
  BY DEF IInv, Reveal, Fitted
<1>2. PICK n \in 0..split.pre : Judged(n)
  BY <1>1 DEF IInv
<1>3. PICK end \in RevealEnds, outcomes \in RevealEnds :
          /\ conf.cutoff <= Close(end) /\ conf.cutoff < Close(outcomes)
          /\ conf' = [conf EXCEPT !.mode = "holdout_evaluation", !.start = conf.cutoff,
                                  !.cutoff = Never, !.end = Close(end),
                                  !.outcomes = Close(outcomes)]
  BY DEF Reveal
<1>4. Close(end) \in Nat /\ Close(outcomes) \in Nat
  BY MarketAssumption, Times
<1>5. Scope' /\ conf'.mode = "holdout_evaluation" /\ conf'.horizon = conf.horizon
      /\ conf'.end = Close(end) /\ conf'.start = conf.cutoff
  BY <1>1, <1>3, <1>4, Times DEF Scope
<1>6. Market'
  BY <1>1 DEF Market
<1>7. \A a \in Assets, s \in Fetched : HasBar(a, s) <=> HasBar(a, s)'
  <2>1. SUFFICES ASSUME NEW a \in Assets, NEW s \in Fetched PROVE HasBar(a, s) <=> HasBar(a, s)'
    OBVIOUS
  <2>2. PICK b \in Assets : HasBar(b, s)
    BY DEF Fetched
  <2>3. IsFetched(s)
    BY <2>2 DEF HasBar
  <2>4. conf.end # Never /\ conf.end \in Nat /\ conf.cutoff \in Nat /\ conf.end <= Close(end)
    BY <1>1, <1>3, <1>4, ConfFacts, Times DEF Scope
  <2>5. PICK t \in Sessions : Close(t) <= conf.end /\ s <= t + conf.horizon + 1
    BY <2>3, <2>4 DEF IsFetched
  <2>6. Close(t) <= Close(end)
    BY <1>4, <2>4, <2>5, Times
  <2>7. IsFetched(s)'
    BY <1>5, <2>5, <2>6 DEF IsFetched
  <2> QED  BY <1>1, <2>3, <2>7 DEF HasBar
<1>8. Fetched \subseteq Fetched'
  <2>1. SUFFICES ASSUME NEW s \in Fetched PROVE s \in Fetched'
    OBVIOUS
  <2>2. s \in Sessions /\ \E a \in Assets : HasBar(a, s)
    BY DEF Fetched
  <2>3. \E a \in Assets : HasBar(a, s)'
    BY <1>7, <2>2
  <2> QED  BY <2>2, <2>3 DEF Fetched
<1>9. PICK d : d = decided
  OBVIOUS
<1>10. d \in [Fetched -> Nat]
  BY <1>1, <1>9, Times DEF Timely
<1>11. ASSUME NEW s \in Fetched PROVE IsDecision(s, d[s])'
  <2>1. PICK t : t = d[s]
    OBVIOUS
  <2>2. IsDecision(s, t)
    BY <1>1, <1>9, <2>1 DEF Timely
  <2>3. \A a \in Assets : Available(a, s)' = Available(a, s)
    BY <1>1 DEF Available
  <2>4. IsDecision(s, t)'
    BY <1>7, <2>2, <2>3 DEF IsDecision
  <2> QED  BY <2>1, <2>4
<1>12. \A r \in features : KnownBefore(r, conf.cutoff)
  BY <1>1 DEF Labelled
<1>13. \A s : ExitBy(d, s) = ExitSession(s) /\ ExitBy(d, s)' = ExitBy(d, s)
  BY <1>5, <1>9 DEF ExitBy, ExitSession
<1>14. ASSUME NEW i \in DOMAIN snapshots, NEW q \in snapshots[i].rows
       PROVE  /\ q \in Rows /\ q[2] \in Fetched /\ ExitBy(d, q[2]) \in Fetched
              /\ d[q[2]] < d[ExitBy(d, q[2])] /\ d[ExitBy(d, q[2])] < conf.cutoff
  <2>1. snapshots[i].rows = Learnt(Cutoff(i))
    BY <1>1 DEF SnapshotsSound
  <2>2. q \in features /\ Observed(q)
    BY <2>1 DEF Learnt, Learns
  <2>3. ExitSession(q[2]) \in Fetched /\ decided[q[2]] < KnownAt(q)
    BY <1>1, <2>2, ObservedFacts
  <2>4. KnownAt(q) < conf.cutoff
    BY <1>12, <2>2 DEF KnownBefore
  <2>5. q \in Rows /\ q[2] \in Fetched
    BY <1>1, <2>2, RowFacts
  <2> QED  BY <1>9, <1>13, <2>3, <2>4, <2>5 DEF KnownAt
<1>15. /\ "development" \in DOMAIN windows
       /\ windows.development = Every(evaluation.development, 0)
  BY <1>1 DEF Traded
<1>16. ASSUME NEW i \in DOMAIN windows.development
       PROVE  /\ windows.development[i] \in Fetched
              /\ Close(ExitBy(d, windows.development[i])) < conf.cutoff
  <2>1. evaluation.development \in Seq(Sessions)
    BY <1>1, <1>2, JudgedFacts
  <2>2. 0 \in Nat
    OBVIOUS
  <2>3. PICK k \in 1..Len(evaluation.development) :
            windows.development[i] = evaluation.development[k]
    <3>1. PICK times : times = evaluation.development
      OBVIOUS
    <3>2. \A j \in DOMAIN Every(times, 0) : \E k \in 1..Len(times), x \in Nat :
              k = 0 + conf.horizon * x + 1 /\ Every(times, 0)[j] = times[k]
      BY <1>1, <2>1, <2>2, <3>1, EveryTakes
    <3>3. i \in DOMAIN Every(times, 0) /\ windows.development = Every(times, 0)
      BY <1>15, <3>1
    <3> QED  BY <3>1, <3>2, <3>3
  <2>4. PICK r \in features : Observed(r) /\ r[2] = windows.development[i]
    <3>1. /\ Len(evaluation.development) = n /\ n \in Nat /\ n <= split.pre /\ split.pre \in Nat
          /\ HoldoutPeriods \in Nat /\ split.pre + HoldoutPeriods = Len(split.observed)
          /\ evaluation.development[k] = split.observed[k]
          /\ \A j \in 1..Len(split.observed) :
                \E r \in features : Observed(r) /\ r[2] = split.observed[j]
      BY <1>1, <1>2, <2>3, JudgedFacts
    <3>2. k \in 1..Len(split.observed)
      BY <2>3, <3>1
    <3> QED  BY <2>3, <3>1, <3>2
  <2>5. r[2] \in Fetched
    BY <1>1, RowFacts
  <2>6. Close(ExitSession(r[2])) < conf.cutoff
    BY <1>12 DEF KnownBefore
  <2> QED  BY <1>13, <2>4, <2>5, <2>6
<1>0. snapshots \in Seq([session : Sessions, rows : SUBSET Rows, frozen : BOOLEAN])
  BY <1>1 DEF SnapshotsSound
<1>17. FrozenBy(d)'
  BY <1>0, <1>1, <1>5, <1>10, <1>11, <1>13, <1>14, <1>15, <1>16 DEF FrozenBy
<1>18. Frozen'
  <2>1. PICK D : D = Fetched
    OBVIOUS
  <2>2. D \in SUBSET Fetched' /\ d \in [D -> Nat]
    BY <1>8, <1>10, <2>1
  <2> QED  BY <1>17, <2>2 DEF Frozen
<1> QED  BY <1>1, <1>5, <1>6, <1>18 DEF IInv, Stages, Fitted, Before

\* A reveal decides its own rows and leaves what development left alone.
LEMMA RevealRowsSound == ASSUME IInv, RevealRows PROVE IInv'
<1>1. /\ stage = "labelled" /\ conf.mode = "holdout_evaluation" /\ Market /\ Scope /\ Timely
      /\ features \subseteq Candidates /\ Frozen
      /\ UNCHANGED <<data, decided, split, trained, snapshots, evaluation>>
      /\ UNCHANGED <<data, decided>>
  BY DEF IInv, RevealRows, Raise, Before
<1>2. Market' /\ Scope' /\ conf' = conf /\ Timely' /\ Candidates' = Candidates
  BY <1>1, MarketStays, DecisionsStay DEF data
<1>3. CASE stage' = "raised"
  <2>1. features' = features
    BY <1>3 DEF RevealRows, Raise
  <2> QED  BY <1>1, <1>2, <1>3, <2>1 DEF IInv, Stages, Fitted, Before
<1>4. CASE stage' = "revealed"
  <2> DEFINE rows == {r \in features : Observed(r)}
             w == Every(Ordered(SessionsOf(rows)), 0)
  <2>1. /\ features' = rows /\ windows' = [windows EXCEPT !.holdout = w]
        /\ \A r \in rows : {Close(ExitSession(r[2])), KnownAt(r)}
                                  \ (conf.start..conf.outcomes) = {}
    BY <1>4 DEF RevealRows, Raise
  <2>2. \A r \in rows : Close(ExitSession(r[2])) <= conf.outcomes
    BY <2>1
  <2>3. \A s : ExitSession(s)' = ExitSession(s)
    BY <1>1, DecisionsStay
  <2>4. Frozen'
    <3> HIDE DEF w
    <3>1. \E v : windows' = [windows EXCEPT !.holdout = v]
      BY <2>1
    <3> QED  BY <1>1, <3>1, FrozenStays
  <2>5. \A r \in features' : Close(ExitSession(r[2]))' <= conf'.outcomes
    BY <1>2, <2>1, <2>2, <2>3
  <2>6. features' \subseteq Candidates'
    BY <1>1, <1>2, <2>1
  <2> QED  BY <1>1, <1>2, <1>4, <2>4, <2>5, <2>6 DEF IInv, Stages, Fitted, Before
<1> QED  BY <1>3, <1>4 DEF RevealRows, Raise

\* In any market, with any delivery, horizon and embargo, every stage of a run leaves
\* what the next ones rely on: sessions decided in order when their last bar is there,
\* rows kept a session at a time, a split, snapshots and windows that follow from them
\* (run, build_labels, train_baselines, evaluate_predictions, run_backtest,
\* reveal_frozen_holdout).
THEOREM Invariance == Spec => []IInv
<1>1. Init => IInv
  BY InitSound
<1>2. IInv /\ [Next]_vars => IInv'
  <2> SUFFICES ASSUME IInv, [Next]_vars PROVE IInv'
    OBVIOUS
  <2>1. CASE UNCHANGED vars
    <3>1. /\ UNCHANGED <<data, stage, decided, features, labels, split, trained, snapshots>>
          /\ UNCHANGED <<evaluation, windows>> /\ UNCHANGED data
          /\ UNCHANGED <<data, decided>> /\ UNCHANGED <<data, decided, features, labels>>
          /\ UNCHANGED <<data, decided, features, labels, split>> /\ split' = split
          /\ UNCHANGED <<data, decided, features, labels, split, trained, snapshots>>
      BY <2>1 DEF vars
    <3>2. Market' /\ Scope' /\ conf' = conf /\ Candidates' = Candidates /\ (Timely => Timely')
      BY <3>1, MarketStays, DecisionsStay DEF data, IInv
    <3>3. /\ Labelled => Labelled'
          /\ SplitSound => SplitSound'
          /\ SnapshotsSound => SnapshotsSound'
          /\ Frozen => Frozen'
          /\ \A n : Judged(n) => Judged(n)'
      BY <3>1, RowsStay, SplitStays, SnapshotsStay, FrozenStays
    <3>4. Traded => Traded'
      <4>1. PICK v, w, o : v = evaluation.development /\ w = evaluation.holdout /\ o = Offset
        OBVIOUS
      <4>2. v = evaluation'.development /\ w = evaluation'.holdout /\ o = Offset'
            /\ HoldoutPeriods' = HoldoutPeriods /\ windows' = windows
        BY <3>1, <3>2, <4>1, DecisionsStay DEF Offset
      <4>3. Every(v, 0)' = Every(v, 0) /\ Every(w, o)' = Every(w, o)
        BY <3>2 DEF Every
      <4> QED  BY <4>1, <4>2, <4>3 DEF Traded
    <3>5. \A r \in features : Close(ExitSession(r[2]))' = Close(ExitSession(r[2]))
      BY <3>1, DecisionsStay DEF Close
    <3> QED  BY <3>1, <3>2, <3>3, <3>4, <3>5 DEF IInv
  <2> QED  BY <2>1, DecideSound, BuildFeaturesSound, BuildLabelsSound, BeginTrainingSound,
              TrainDecisionSound, EndTrainingSound, EvaluateSound, BacktestSound, RevealSound,
              RevealRowsSound DEF Next
<1> QED  BY <1>1, <1>2, PTL DEF Spec

-----------------------------------------------------------------------------
(* What is known when *)

\* A row waits for every bar of its session and of those before it.
LEMMA KnownFeatures == IInv => FeaturesAreKnown
<1> SUFFICES ASSUME IInv, NEW r \in features
             PROVE  /\ \A q \in Rows : HasBar(q[1], q[2]) /\ q[2] <= r[2] =>
                                           Available(q[1], q[2]) <= decided[r[2]]
                    /\ UsesText(r) => textAt <= decided[r[2]]
  BY DEF FeaturesAreKnown
<1>1. Market /\ Scope /\ Timely /\ features \subseteq Candidates
  BY DEF IInv
<1>2. r[2] \in Fetched /\ r[2] \in Nat /\ decided[r[2]] \in Nat /\ decided[r[2]] < Never
  BY <1>1, RowFacts, Times
<1>3. ASSUME NEW q \in Rows, HasBar(q[1], q[2]), q[2] <= r[2]
      PROVE  Available(q[1], q[2]) <= decided[r[2]]
  <2>1. q[1] \in Assets /\ q[2] \in Sessions /\ q[2] \in Fetched
    BY <1>3, FetchedIsSet DEF Rows
  <2>2. decided[q[2]] \in Nat /\ q[2] \in Nat /\ IsDecision(q[2], decided[q[2]])
    BY <1>1, <2>1, DecidedIsClosed DEF Timely
  <2>3. decided[q[2]] <= decided[r[2]]
    <3>1. q[2] = r[2] \/ q[2] < r[2]
      BY <1>2, <1>3, <2>2
    <3> QED  BY <1>1, <1>2, <2>1, <2>2, <3>1 DEF Timely
  <2>4. Available(q[1], q[2]) <= decided[q[2]] /\ Available(q[1], q[2]) \in Nat
    BY <1>1, <1>3, <2>1, <2>2, BarTimes, Times DEF IsDecision
  <2> QED  BY <1>2, <2>2, <2>3, <2>4
<1>4. ASSUME UsesText(r) PROVE textAt <= decided[r[2]]
  <2> DEFINE later == {s \in Fetched : decided[s] >= textAt}
             first0 == CHOOSE s \in later : \A u \in later : s <= u
  <2>1. TextDecision = IF later = {} THEN Never ELSE decided[first0]
    BY Zenon DEF TextDecision
  <2>2. later \in SUBSET Nat /\ later \subseteq Fetched
    BY FetchedAre, Times
  <2>3. later # {}
    BY <1>2, <1>4, <2>1, Times DEF UsesText
  <2>4. first0 \in later
    <3> HIDE DEF later
    <3>1. \E s \in later : \A u \in later : s <= u
      BY <2>2, <2>3, FirstOf
    <3> QED  BY <3>1
  <2>5. decided[first0] >= textAt /\ decided[first0] \in Nat /\ textAt \in Nat
    BY <1>1, <2>4, DecidedIsClosed DEF Market
  <2>6. decided[first0] <= decided[r[2]]
    BY <1>4, <2>1, <2>3 DEF UsesText
  <2> HIDE DEF first0
  <2> QED  BY <1>2, <2>5, <2>6
<1> QED  BY <1>3, <1>4

\* Whatever is delivered when, a feature row knows no bar and no text that was
\* delivered after its decision (market_decision_times_by_session,
\* build_feature_rows).
THEOREM FeaturesKnowThePast == Spec => []FeaturesAreKnown
BY Invariance, KnownFeatures, PTL

-----------------------------------------------------------------------------
(* What is learnt when *)

\* The i-th decision is predicted with the i-th snapshot.
LEMMA LearntForIs ==
    ASSUME Market, Scope, Timely, features \subseteq Candidates, SplitSound, SnapshotsSound,
           stage # "training", NEW i \in 1..Len(split.order)
    PROVE  LearntFor(split.order[i]) = Learnt(Cutoff(i))
<1> DEFINE upTo == {j \in DOMAIN snapshots :
                       decided[snapshots[j].session] <= decided[split.order[i]]}
           latest == CHOOSE j \in upTo : \A k \in upTo : k <= j
<1>1. /\ Len(split.order) \in Nat /\ DOMAIN snapshots = 1..Len(split.order)
      /\ \A j \in 1..Len(split.order) :
            snapshots[j].session = split.order[j] /\ snapshots[j].rows = Learnt(Cutoff(j))
  <2>1. Len(split.order) \in Nat /\ Len(snapshots) = Len(split.order)
    BY OrderIsDecided DEF SnapshotsSound
  <2>2. DOMAIN snapshots = 1..Len(snapshots)
    BY DEF SnapshotsSound
  <2> QED  BY <2>1, <2>2 DEF SnapshotsSound
<1>2. upTo = 1..i
  <2>1. \A j \in 1..Len(split.order) : j \in upTo <=> j <= i
    <3>1. SUFFICES ASSUME NEW j \in 1..Len(split.order)
                   PROVE  decided[split.order[j]] <= decided[split.order[i]] <=> j <= i
      BY <1>1
    <3>2. j \in Nat /\ i \in Nat
      BY <1>1
    <3>3. CASE j <= i
      BY <3>3, OrderIsDecided
    <3>4. CASE i < j
      <4>1. decided[split.order[i]] < decided[split.order[j]]
            /\ decided[split.order[i]] \in Nat /\ decided[split.order[j]] \in Nat
        BY <3>4, OrderIsDecided
      <4> QED  BY <3>2, <3>4, <4>1
    <3> QED  BY <3>2, <3>3, <3>4
  <2> QED  BY <1>1, <2>1
<1>3. i \in upTo /\ \A k \in upTo : k <= i
  BY <1>1, <1>2
<1>4. latest \in upTo /\ \A k \in upTo : k <= latest
  BY <1>3, Zenon
<1>5. LearntFor(split.order[i]) = IF upTo = {} THEN {} ELSE snapshots[latest].rows
  BY Zenon DEF LearntFor
<1> HIDE DEF latest, upTo
<1>6. latest = i
  <2>1. latest <= i /\ i <= latest /\ latest \in 1..i
    BY <1>2, <1>3, <1>4
  <2> QED  BY <1>1, <2>1
<1> QED  BY <1>1, <1>3, <1>5, <1>6

\* What is known at a cutoff was known before the decision an embargo earlier.
LEMMA CausalSnapshots == IInv => SnapshotsAreCausal
<1> DEFINE order == split.order
           held == {i \in DOMAIN order : decided[order[i]] >= split.start}
           start == CHOOSE i \in held : \A j \in held : i <= j
           from(i) == (IF i \in held THEN start ELSE i) - conf.embargo
<1> SUFFICES ASSUME IInv, stage \in {"trained", "evaluated", "tested"},
                    NEW i \in DOMAIN order, NEW r \in LearntFor(order[i])
             PROVE  /\ KnownAt(r) < decided[order[i]]
                    /\ from(i) >= 1 => KnownAt(r) < decided[order[from(i)]]
                    /\ i \in held => /\ LearntFor(order[i]) = LearntFor(order[start])
                                     /\ decided[r[2]] < decided[order[start]]
                                     /\ KnownAt(r) < decided[order[start]]
  BY Zenon DEF SnapshotsAreCausal
<1>1. /\ Market /\ Scope /\ Timely /\ features \subseteq Candidates /\ SplitSound
      /\ SnapshotsSound /\ stage # "training"
  BY DEF IInv, Fitted
<1>2. i \in 1..Len(order) /\ DOMAIN order = 1..Len(order) /\ Len(order) \in Nat
  BY <1>1, OrderIsDecided
<1>3. LearntFor(order[i]) = Learnt(Cutoff(i))
  BY <1>1, <1>2, LearntForIs
<1>4. r \in features /\ Observed(r) /\ decided[r[2]] < split.start /\ KnownAt(r) < Cutoff(i)
  BY <1>3 DEF Learnt, Learns
<1>5. KnownAt(r) \in Nat
  BY <1>1, <1>4, ObservedFacts
<1>6. /\ PlaceOf(i) \in 1..Len(order) /\ PlaceOf(i) <= i
      /\ Cutoff(i) = decided[order[PlaceOf(i)]] /\ Cutoff(i) \in Nat
      /\ Cutoff(i) <= decided[order[i]]
  BY <1>1, <1>2, CutoffFacts
<1>7. \A j \in 1..Len(order) : j \in held <=> IsHoldout(j)
  BY <1>2 DEF IsHoldout
<1>8. KnownAt(r) < decided[order[i]]
  <2>1. decided[order[i]] \in Nat
    BY <1>1, <1>2, OrderIsDecided
  <2> QED  BY <1>4, <1>5, <1>6, <2>1
<1>9. i \in held => start = split.index /\ split.index \in 1..Len(order)
                    /\ split.start = decided[order[split.index]] /\ split.index \in held
  <2> SUFFICES ASSUME i \in held
               PROVE  start = split.index /\ split.index \in 1..Len(order)
                      /\ split.start = decided[order[split.index]] /\ split.index \in held
    OBVIOUS
  <2>1. /\ HoldoutPeriods # 0 /\ split.index \in 1..Len(order)
        /\ split.start = decided[order[split.index]]
    BY <1>1, <1>2, <1>7, CutoffFacts
  <2>2. \A j \in 1..Len(order) : j \in held <=> split.index <= j
    BY <1>1, <1>7, <2>1, CutoffFacts
  <2>3. split.index \in held /\ \A j \in held : split.index <= j
    BY <1>2, <2>1, <2>2
  <2>4. start \in held /\ \A j \in held : start <= j
    BY <2>3, Zenon
  <2> HIDE DEF start
  <2>5. start <= split.index /\ split.index <= start /\ start \in 1..Len(order)
    BY <1>2, <2>3, <2>4
  <2>6. start = split.index
    BY <1>2, <2>1, <2>5
  <2> QED  BY <2>1, <2>3, <2>6
<1> HIDE DEF start
<1>10. from(i) = FromOf(i)
  BY <1>2, <1>7, <1>9 DEF FromOf
<1>11. from(i) >= 1 => KnownAt(r) < decided[order[from(i)]]
  <2>1. SUFFICES ASSUME from(i) >= 1 PROVE PlaceOf(i) = from(i)
    BY <1>4, <1>6
  <2>2. FromOf(i) \in Int
    <3>1. (IsHoldout(i) => split.index \in Int) /\ i \in Int /\ conf.embargo \in Int
      BY <1>1, <1>2, <1>7, <1>9, ConfFacts
    <3> QED  BY <3>1 DEF FromOf
  <2> QED  BY <1>10, <2>1, <2>2 DEF PlaceOf
<1>12. ASSUME i \in held
       PROVE  /\ LearntFor(order[i]) = LearntFor(order[start])
              /\ decided[r[2]] < decided[order[start]] /\ KnownAt(r) < decided[order[start]]
  <2>1. /\ start \in 1..Len(order) /\ start \in held /\ split.start = decided[order[start]]
        /\ start = split.index
    BY <1>9, <1>12
  <2>2. LearntFor(order[start]) = Learnt(Cutoff(start))
    BY <1>1, <2>1, LearntForIs
  <2>3. PlaceOf(i) = PlaceOf(start)
    BY <1>2, <1>7, <1>12, <2>1 DEF PlaceOf, FromOf
  <2>4. Cutoff(start) = decided[order[PlaceOf(start)]] /\ Cutoff(start) <= decided[order[start]]
        /\ decided[order[start]] \in Nat
    BY <1>1, <2>1, CutoffFacts, OrderIsDecided
  <2>5. Cutoff(i) = Cutoff(start)
    BY <1>6, <2>3, <2>4
  <2>6. KnownAt(r) < decided[order[start]]
    BY <1>4, <1>5, <1>6, <2>4, <2>5
  <2> QED  BY <1>3, <1>4, <2>1, <2>2, <2>5, <2>6
<1> QED  BY <1>8, <1>11, <1>12

\* For every embargo and holdout, a prediction is made from outcomes that were known
\* before the decision that lies an embargo earlier, and the whole holdout from
\* outcomes known before its first decision (train_baselines, predict_with_model).
THEOREM PredictionsAreCausal == Spec => []SnapshotsAreCausal
BY Invariance, CausalSnapshots, PTL

-----------------------------------------------------------------------------
(* Development and the holdout *)

\* The kept rows were known before the cutoff, with their outcomes.
LEMMA BlindDevelopment == IInv => DevelopmentIsBlind
<1> SUFFICES ASSUME IInv, conf.mode = "development_only",
                    stage \notin {"ingested", "decided", "featured", "raised"},
                    NEW r \in features \cup trained
             PROVE  /\ decided[r[2]] <= conf.end /\ Complete(r)
                    /\ Close(ExitSession(r[2])) < conf.cutoff /\ KnownAt(r) < conf.cutoff
                    /\ \A a \in Assets : HasBar(a, r[2]) => <<a, r[2]>> \in features
  BY DEF DevelopmentIsBlind
<1>1. stage \in {"labelled"} \cup Fitted /\ Market /\ Scope /\ Timely
      /\ features \subseteq Candidates /\ Labelled
  BY DEF IInv, Stages, Fitted
<1>2. r \in features
  <2>1. CASE stage = "labelled"
    BY <2>1 DEF IInv, Before
  <2>2. CASE stage \in Fitted
    <3>1. SnapshotsSound
      BY <2>2 DEF IInv
    <3> QED  BY <3>1 DEF SnapshotsSound, Learnt
  <2> QED  BY <1>1, <2>1, <2>2
<1>3. KnownBefore(r, conf.cutoff)
  BY <1>1, <1>2 DEF Labelled
<1>4. decided[r[2]] <= conf.end
  BY <1>1, <1>2, RowFacts
<1> QED  BY <1>1, <1>2, <1>3, <1>4 DEF KnownBefore, Labelled

\* For every cutoff and delivery, development in a scope of its own learns from, is
\* judged by and trades no session that was not wholly known before the cutoff
\* (_development_rows_before_information_cutoff).
THEOREM DevelopmentKnowsNothingLater == Spec => []DevelopmentIsBlind
BY Invariance, BlindDevelopment, PTL

\* The reveal: what the model has learnt and what development traded ends before the
\* first reserved decision.
LEMMA RevealedApart ==
    ASSUME IInv, stage = "revealed", NEW r \in features
    PROVE  /\ decided[r[2]] <= conf.end /\ Close(ExitSession(r[2])) <= conf.outcomes
           /\ \A q \in LearntFor(r[2]) : q[2] < r[2] /\ KnownAt(q) < decided[r[2]]
           /\ \A i \in DOMAIN windows.development :
                 Close(ExitSession(windows.development[i])) < Open(EntrySession(decided[r[2]]))
<1>1. /\ Market /\ Scope /\ Timely /\ features \subseteq Candidates /\ Frozen
      /\ Close(ExitSession(r[2])) <= conf.outcomes
  BY DEF IInv, Before
<1>2. /\ r[2] \in Fetched /\ r[2] \in Nat /\ decided[r[2]] \in Nat /\ conf.start \in Nat
      /\ conf.start <= decided[r[2]] /\ decided[r[2]] <= conf.end
  BY <1>1, RowFacts, ConfFacts, Times
<1>3. PICK D \in SUBSET Fetched : \E d \in [D -> Nat] : FrozenBy(d)
  BY <1>1 DEF Frozen
<1>4. PICK d \in [D -> Nat] : FrozenBy(d)
  BY <1>3
<1>5. \A s \in D : s \in Sessions /\ decided[s] = d[s]
  <2>1. TAKE s \in D
  <2>2. s \in Fetched /\ s \in Sessions
    BY FetchedAre
  <2>3. IsDecision(s, d[s]) /\ IsDecision(s, decided[s])
    BY <1>1, <1>4, <2>2 DEF FrozenBy, Timely
  <2> QED  BY <1>1, <2>2, <2>3, DecisionIsOne
<1>6. \A s \in D : ExitBy(d, s) = ExitSession(s)
  BY <1>5 DEF ExitBy, ExitSession
<1>7. ASSUME NEW q \in LearntFor(r[2]) PROVE q[2] < r[2] /\ KnownAt(q) < decided[r[2]]
  <2> DEFINE upTo == {i \in DOMAIN snapshots : decided[snapshots[i].session] <= decided[r[2]]}
             latest == CHOOSE i \in upTo : \A j \in upTo : j <= i
  <2>1. LearntFor(r[2]) = IF upTo = {} THEN {} ELSE snapshots[latest].rows
    BY Zenon DEF LearntFor
  <2>2. latest \in DOMAIN snapshots
    <3>1. snapshots \in Seq([session : Sessions, rows : SUBSET Rows, frozen : BOOLEAN])
      BY <1>4 DEF FrozenBy
    <3>2. upTo \in SUBSET Nat /\ upTo # {} /\ \A i \in upTo : i <= Len(snapshots)
          /\ Len(snapshots) \in Nat
      BY <1>7, <2>1, <3>1
    <3> HIDE DEF upTo
    <3>3. \E i \in upTo : \A j \in upTo : j <= i
      BY <3>2, LastOf
    <3>4. latest \in upTo
      BY <3>3
    <3> QED  BY <3>4 DEF upTo
  <2>3. q \in snapshots[latest].rows
    BY <1>7, <2>1
  <2> HIDE DEF latest, upTo
  <2>4. /\ q \in Rows /\ q[2] \in D /\ ExitBy(d, q[2]) \in D
        /\ d[q[2]] < d[ExitBy(d, q[2])] /\ d[ExitBy(d, q[2])] < conf.start
    BY <1>4, <2>2, <2>3 DEF FrozenBy
  <2>5. KnownAt(q) = d[ExitBy(d, q[2])] /\ decided[q[2]] = d[q[2]]
    BY <1>5, <1>6, <2>4 DEF KnownAt
  <2>6. d[q[2]] \in Nat /\ d[ExitBy(d, q[2])] \in Nat
    BY <2>4
  <2>7. KnownAt(q) < decided[r[2]] /\ decided[q[2]] < decided[r[2]]
    BY <1>2, <2>4, <2>5, <2>6
  <2>8. q[2] < r[2]
    <3>1. q[2] \in Fetched /\ q[2] \in Nat
      BY <1>3, <1>5, <2>4, Times
    <3>2. ~(r[2] < q[2]) /\ r[2] # q[2]
      <4>1. r[2] < q[2] => decided[r[2]] < decided[q[2]]
        BY <1>1, <1>2, <3>1 DEF Timely
      <4> QED  BY <1>2, <2>5, <2>6, <2>7, <4>1
    <3> QED  BY <1>2, <3>1, <3>2
  <2> QED  BY <2>7, <2>8
<1>8. ASSUME NEW i \in DOMAIN windows.development
      PROVE  Close(ExitSession(windows.development[i])) < Open(EntrySession(decided[r[2]]))
  <2>1. /\ windows.development[i] \in D
        /\ Close(ExitBy(d, windows.development[i])) < conf.start
    BY <1>4 DEF FrozenBy
  <2>2. Close(ExitSession(windows.development[i])) < conf.start
    BY <1>6, <2>1
  <2>3. PICK s : s = windows.development[i]
    OBVIOUS
  <2>4. Close(ExitSession(s)) \in Int
    <3>1. s \in D /\ decided[s] \in Nat
      BY <1>5, <2>1, <2>3
    <3>2. ExitSession(s) \in Int
      BY <1>1, <3>1, EntryIsNext, ConfFacts DEF ExitSession
    <3> QED  BY <3>2 DEF Close
  <2>5. decided[r[2]] < Open(EntrySession(decided[r[2]])) /\ Open(EntrySession(decided[r[2]])) \in Int
    BY <1>2, EntryIsNext DEF Open
  <2> QED  BY <1>2, <2>2, <2>3, <2>4, <2>5
<1> QED  BY <1>1, <1>2, <1>7, <1>8

\* Within one run: what development is judged by is known before the holdout.
LEMMA HoldoutApart ==
    ASSUME IInv, stage \in {"evaluated", "tested"}, evaluation.holdout # <<>>
    PROVE  LET start == decided[evaluation.holdout[1]]
           IN  /\ \A i \in DOMAIN evaluation.development :
                     /\ KnownAt(<<CHOOSE a \in Assets : HasBar(a, evaluation.development[i]),
                                  evaluation.development[i]>>) < start
                     /\ Close(ExitSession(evaluation.development[i])) < start
               /\ evaluation.development \o evaluation.purged \o evaluation.holdout
                     = split.observed
               /\ Len(evaluation.holdout) = conf.periods
<1> DEFINE q == split.observed
           p == split.pre
           m == HoldoutPeriods
           dev == evaluation.development
           pur == evaluation.purged
           hol == evaluation.holdout
<1>1. /\ Market /\ Scope /\ Timely /\ features \subseteq Candidates /\ Labelled /\ SplitSound
      /\ \E n \in 0..p : Judged(n)
  BY DEF IInv, Fitted
<1>2. PICK n \in 0..p : Judged(n)
  BY <1>1
<1>3. /\ n \in Nat /\ n <= p /\ p \in Nat /\ Len(q) \in Nat /\ p + m = Len(q) /\ m \in Nat
      /\ q \in Seq(Sessions)
      /\ dev \in Seq(Sessions) /\ Len(dev) = n /\ \A i \in 1..n : dev[i] = q[i]
      /\ pur \in Seq(Sessions) /\ Len(pur) = p - n /\ \A i \in 1..(p - n) : pur[i] = q[n + i]
      /\ hol \in Seq(Sessions) /\ Len(hol) = m /\ \A i \in 1..m : hol[i] = q[p + i]
      /\ \A i \in 1..Len(q) : \E r \in features : Observed(r) /\ r[2] = q[i]
  BY <1>1, <1>2, JudgedFacts
<1>4. m > 0 /\ m = conf.periods
  <2>1. m # 0
    BY <1>3
  <2> QED  BY <1>1, <1>3, <2>1, ConfFacts
<1>5. split.start = decided[hol[1]]
  <2>1. split.start = decided[split.order[split.index]]
        /\ split.order[split.index] = q[p + 1]
    BY <1>1, <1>4 DEF SplitSound
  <2>2. hol[1] = q[p + 1]
    BY <1>3, <1>4
  <2> QED  BY <2>1, <2>2
<1>6. \A i \in 1..n : \A r \in features : r[2] = q[i] => Observed(r) /\ KnownAt(r) < split.start
  BY <1>2 DEF Judged
<1>7. split.start \in Nat
  BY <1>1, <1>4, OrderIsDecided DEF SplitSound
<1> HIDE DEF dev, pur, hol, q, p, m
<1>8. ASSUME NEW i \in DOMAIN dev
      PROVE  /\ KnownAt(<<CHOOSE a \in Assets : HasBar(a, dev[i]), dev[i]>>) < split.start
             /\ Close(ExitSession(dev[i])) < split.start
  <2>1. i \in 1..n /\ dev[i] = q[i] /\ i \in 1..Len(q)
    BY <1>3
  <2>2. PICK r \in features : Observed(r) /\ r[2] = q[i]
    BY <1>3, <2>1
  <2>3. HasBar(r[1], r[2]) /\ r[1] \in Assets
    BY <1>1, RowFacts
  <2> DEFINE a == CHOOSE b \in Assets : HasBar(b, dev[i])
  <2>4. a \in Assets /\ HasBar(a, r[2])
    <3>1. \E b \in Assets : HasBar(b, dev[i])
      BY <2>1, <2>2, <2>3
    <3> QED  BY <2>1, <2>2, <3>1
  <2> HIDE DEF a
  <2>5. PICK t : t = <<a, r[2]>>
    OBVIOUS
  <2>6. t \in features /\ t[2] = q[i]
    BY <1>1, <2>2, <2>4, <2>5 DEF Labelled
  <2>7. KnownAt(t) < split.start /\ t = <<a, dev[i]>>
    BY <1>6, <2>1, <2>2, <2>5, <2>6
  <2>8. Close(ExitSession(r[2])) <= KnownAt(r) /\ KnownAt(r) \in Nat
        /\ ExitSession(r[2]) \in Fetched
    BY <1>1, <2>2, ObservedFacts
  <2>9. KnownAt(r) < split.start
    BY <1>6, <2>1, <2>2
  <2>10. Close(ExitSession(r[2])) \in Int
    <3>1. ExitSession(r[2]) \in Int
      BY <2>8, FetchedAre, Times
    <3> QED  BY <3>1 DEF Close
  <2>11. Close(ExitSession(dev[i])) < split.start
    BY <1>7, <2>1, <2>2, <2>8, <2>9, <2>10
  <2> QED  BY <2>7, <2>11 DEF a
<1>9. dev \o pur \o hol = q
  <2>1. /\ dev \o pur \in Seq(Sessions) /\ Len(dev \o pur) = p
        /\ \A i \in 1..p : (dev \o pur)[i] = IF i <= n THEN dev[i] ELSE pur[i - n]
    <3>1. /\ dev \o pur \in Seq(Sessions) /\ Len(dev \o pur) = Len(dev) + Len(pur)
          /\ \A i \in 1..(Len(dev) + Len(pur)) :
                (dev \o pur)[i] = IF i <= Len(dev) THEN dev[i] ELSE pur[i - Len(dev)]
      <4>1. dev \in Seq(Sessions) /\ pur \in Seq(Sessions)
        BY <1>3
      <4> QED  BY <4>1, ConcatProperties, Zenon
    <3>2. Len(dev) = n /\ Len(dev) + Len(pur) = p
      BY <1>3
    <3> QED  BY <3>1, <3>2
  <2>2. \A i \in 1..p : (dev \o pur)[i] = q[i]
    <3>1. SUFFICES ASSUME NEW i \in 1..p PROVE (dev \o pur)[i] = q[i]
      OBVIOUS
    <3>2. CASE i <= n
      BY <1>3, <2>1, <3>2
    <3>3. CASE ~(i <= n)
      <4>1. i - n \in 1..(p - n) /\ n + (i - n) = i
        BY <1>3, <3>3
      <4> QED  BY <1>3, <2>1, <3>3, <4>1
    <3> QED  BY <3>2, <3>3
  <2> DEFINE both == dev \o pur
  <2> HIDE DEF both
  <2>3. both \in Seq(Sessions) /\ Len(both) = p /\ \A i \in 1..p : both[i] = q[i]
    BY <2>1, <2>2 DEF both
  <2>4. /\ both \o hol \in Seq(Sessions) /\ Len(both \o hol) = p + m
        /\ \A i \in 1..(p + m) : (both \o hol)[i] = IF i <= p THEN both[i] ELSE hol[i - p]
    <3>1. /\ both \o hol \in Seq(Sessions) /\ Len(both \o hol) = Len(both) + Len(hol)
          /\ \A i \in 1..(Len(both) + Len(hol)) :
                (both \o hol)[i] = IF i <= Len(both) THEN both[i] ELSE hol[i - Len(both)]
      <4>1. both \in Seq(Sessions) /\ hol \in Seq(Sessions)
        BY <1>3, <2>3
      <4> QED  BY <4>1, ConcatProperties, Zenon
    <3> QED  BY <1>3, <2>3, <3>1
  <2>5. \A i \in 1..(p + m) : (both \o hol)[i] = q[i]
    <3>1. SUFFICES ASSUME NEW i \in 1..(p + m) PROVE (both \o hol)[i] = q[i]
      OBVIOUS
    <3>2. CASE i <= p
      BY <1>3, <2>3, <2>4, <3>2
    <3>3. CASE ~(i <= p)
      <4>1. i - p \in 1..m /\ p + (i - p) = i
        BY <1>3, <3>3
      <4> QED  BY <1>3, <2>4, <3>3, <4>1
    <3> QED  BY <3>2, <3>3
  <2>6. both \o hol = q
    <3>1. both \o hol \in Seq(Sessions) /\ q \in Seq(Sessions)
          /\ Len(both \o hol) = Len(q)
      BY <1>3, <2>4
    <3>2. \A i \in 1..Len(both \o hol) : (both \o hol)[i] = q[i]
      <4>1. Len(both \o hol) = p + m
        BY <2>4
      <4> QED  BY <2>5, <4>1, Zenon
    <3> QED  BY <3>1, <3>2, SeqEqual, Zenon
  <2> QED  BY <2>6 DEF both
<1>10. Len(hol) = conf.periods
  BY <1>3, <1>4
<1> QED  BY <1>5, <1>8, <1>9, <1>10 DEF dev, pur, hol, q

\* The two sides stay apart within a run and across the reveal.
LEMMA ApartHoldout == IInv => HoldoutIsApart
BY RevealedApart, HoldoutApart, Zenon DEF HoldoutIsApart

\* In every run development is judged by outcomes, and leaves its trades, before the
\* holdout is decided, and a reveal decides after all that its model has learnt and
\* development traded (evaluate_predictions, reveal_frozen_holdout).
THEOREM HoldoutStaysApart == Spec => []HoldoutIsApart
BY Invariance, ApartHoldout, PTL

-----------------------------------------------------------------------------
(* The replay of the holdout *)

\* What leaves no remainder is a multiple.
LEMMA MultipleOf ==
    ASSUME NEW a \in Int, NEW h \in Nat, h > 0, a % h = 0
    PROVE  \E x \in Int : a = h * x
<1>1. PICK q : q = a \div h
  OBVIOUS
<1>2. q \in Int
  BY <1>1
<1>3. PICK r : r = a % h
  OBVIOUS
<1>4. r = 0 /\ r \in Int
  BY <1>3
<1>5. h * q + r = a
  BY <1>1, <1>2, <1>3, <1>4
<1>6. a = h * q
  BY <1>2, <1>4, <1>5
<1> QED  BY <1>2, <1>6

\* A multiple of h leaves nothing.
LEMMA MultipleLeavesNothing ==
    ASSUME NEW x \in Int, NEW h \in Nat, h > 0
    PROVE  (h * x) % h = 0
<1>1. (h * x + 0) % h = 0
  BY Remainder
<1>2. h * x + 0 = h * x
  OBVIOUS
<1> QED  BY <1>1, <1>2

\* Sessions in order are as far apart as their places.
LEMMA PlacesApart ==
    ASSUME NEW S \in SUBSET Sessions, NEW q, InOrder(q, S),
           NEW i \in 1..Len(q), NEW j \in 1..Len(q), i <= j
    PROVE  q[j] - q[i] >= j - i
<1>1. /\ Len(q) \in Nat /\ \A k \in 1..Len(q) : q[k] \in Nat
      /\ \A k, l \in 1..Len(q) : k < l => q[k] < q[l]
  BY OrderFacts
<1> DEFINE Bad == {k \in i..Len(q) : ~(q[k] - q[i] >= k - i)}
<1>2. SUFFICES ASSUME Bad # {} PROVE FALSE
  BY <1>1
<1>3. Bad \in SUBSET Nat
  BY <1>1
<1>4. PICK k \in Bad : \A l \in Bad : k <= l
  BY <1>2, <1>3, FirstOf
<1>5. k \in Nat /\ i \in Nat /\ k \in i..Len(q) /\ ~(q[k] - q[i] >= k - i)
  BY <1>1, <1>4
<1>6. k # i /\ k - 1 \in i..Len(q) /\ k - 1 \in 1..Len(q) /\ k \in 1..Len(q)
  BY <1>1, <1>5
<1>7. k - 1 \notin Bad
  BY <1>3, <1>4, <1>5
<1>8. q[k - 1] - q[i] >= k - 1 - i
  BY <1>6, <1>7
<1>9. q[k - 1] < q[k] /\ q[k - 1] \in Nat /\ q[k] \in Nat /\ q[i] \in Nat
  BY <1>1, <1>5, <1>6
<1> QED  BY <1>5, <1>8, <1>9

\* Both windows open on the places that are a multiple of the horizon from the first.
LEMMA PhaseKept ==
    ASSUME IInv, stage = "tested"
    PROVE  LET all == split.observed
               place(s) == CHOOSE i \in DOMAIN all : all[i] = s
               opened == {windows.development[i] : i \in DOMAIN windows.development}
                         \cup {windows.holdout[i] : i \in DOMAIN windows.holdout}
           IN  opened = {s \in {all[i] : i \in DOMAIN all} :
                            /\ (place(s) - 1) % conf.horizon = 0
                            /\ \A i \in DOMAIN evaluation.purged : s # evaluation.purged[i]}
<1> DEFINE all == split.observed
           p == split.pre
           m == HoldoutPeriods
           dev == evaluation.development
           pur == evaluation.purged
           hol == evaluation.holdout
           place(s) == CHOOSE i \in DOMAIN all : all[i] = s
           inDev == {windows.development[i] : i \in DOMAIN windows.development}
           inHol == {windows.holdout[i] : i \in DOMAIN windows.holdout}
           wanted == {s \in {all[i] : i \in DOMAIN all} :
                         /\ (place(s) - 1) % conf.horizon = 0
                         /\ \A i \in DOMAIN pur : s # pur[i]}
<1>1. /\ Market /\ Scope /\ Timely /\ features \subseteq Candidates /\ Labelled /\ SplitSound
      /\ Traded /\ \E n \in 0..p : Judged(n)
  BY DEF IInv, Fitted
<1>2. PICK n \in 0..p : Judged(n)
  BY <1>1
<1>3. /\ n \in Nat /\ n <= p /\ p \in Nat /\ Len(all) \in Nat /\ p + m = Len(all) /\ m \in Nat
      /\ DOMAIN all = 1..Len(all)
      /\ dev \in Seq(Sessions) /\ Len(dev) = n /\ \A i \in 1..n : dev[i] = all[i]
      /\ pur \in Seq(Sessions) /\ Len(pur) = p - n /\ \A i \in 1..(p - n) : pur[i] = all[n + i]
      /\ hol \in Seq(Sessions) /\ Len(hol) = m /\ \A i \in 1..m : hol[i] = all[p + i]
  BY <1>1, <1>2, JudgedFacts
<1>4. \A i, j \in 1..Len(all) : all[i] = all[j] => i = j
  BY <1>1, OrderFacts, SessionSets DEF SplitSound
<1>5. PICK h : h = conf.horizon
  OBVIOUS
<1>6. h \in Nat /\ h > 0
  BY <1>1, <1>5, ConfFacts
<1>7. /\ windows.development = Every(dev, 0)
      /\ windows.holdout = IF m = 0 THEN <<>> ELSE Every(hol, Offset)
  BY <1>1 DEF Traded
<1>8. PICK o : o = Offset
  OBVIOUS
<1>9. o \in Nat /\ o < h /\ \E y \in Int : -p = h * y + o
  <2>1. PICK a : a = -p
    OBVIOUS
  <2>2. a \in Int /\ o = a % h
    <3>1. Len(dev) + Len(pur) = p
      BY <1>3
    <3> QED  BY <1>3, <1>5, <1>8, <2>1, <3>1 DEF Offset
  <2>3. o \in Int /\ o >= 0 /\ o < h
    BY <1>6, <2>2
  <2>4. PICK y : y = a \div h
    OBVIOUS
  <2>5. y \in Int
    BY <1>6, <2>2, <2>4
  <2>6. h * y + o = a
    BY <1>6, <2>2, <2>3, <2>4, <2>5
  <2> QED  BY <2>1, <2>3, <2>5, <2>6
<1>10. PICK y \in Int : -p = h * y + o
  BY <1>9
<1> HIDE DEF all, p, m, dev, pur, hol
<1>11. \A i \in 1..Len(all) : place(all[i]) = i
  <2>1. SUFFICES ASSUME NEW i \in 1..Len(all) PROVE place(all[i]) = i
    OBVIOUS
  <2>2. place(all[i]) \in 1..Len(all) /\ all[place(all[i])] = all[i]
    BY <1>3
  <2> HIDE DEF place
  <2> QED  BY <1>4, <2>2
<1> HIDE DEF place
<1>12. \A k \in 1..Len(all) : all[k] \in wanted <=>
           /\ \E x \in Int : k - 1 = h * x
           /\ k <= n \/ p < k
  <2>1. SUFFICES ASSUME NEW k \in 1..Len(all)
                 PROVE  all[k] \in wanted <=> /\ \E x \in Int : k - 1 = h * x
                                              /\ k <= n \/ p < k
    OBVIOUS
  <2>2. (place(all[k]) - 1) % conf.horizon = 0 <=> \E x \in Int : k - 1 = h * x
    <3>1. place(all[k]) = k /\ k - 1 \in Int
      BY <1>3, <1>11
    <3>2. PICK a : a = k - 1
      OBVIOUS
    <3>3. a \in Int
      BY <3>1, <3>2
    <3>4. a % h = 0 <=> \E x \in Int : a = h * x
      BY <1>6, <3>3, MultipleOf, MultipleLeavesNothing
    <3> QED  BY <1>5, <3>1, <3>2, <3>4
  <2>3. (\A i \in DOMAIN pur : all[k] # pur[i]) <=> k <= n \/ p < k
    <3>1. DOMAIN pur = 1..(p - n)
      BY <1>3
    <3>2. ASSUME k <= n \/ p < k, NEW i \in 1..(p - n) PROVE all[k] # pur[i]
      <4>1. n + i \in 1..Len(all) /\ n + i # k
        BY <1>3, <2>1, <3>2
      <4> QED  BY <1>3, <1>4, <4>1
    <3>3. ASSUME ~(k <= n \/ p < k) PROVE \E i \in 1..(p - n) : all[k] = pur[i]
      <4>1. k - n \in 1..(p - n) /\ n + (k - n) = k
        BY <1>3, <2>1, <3>3
      <4> QED  BY <1>3, <4>1
    <3> QED  BY <3>1, <3>2, <3>3
  <2> QED  BY <1>3, <2>2, <2>3
<1>13. \A s \in wanted : \E k \in 1..Len(all) : s = all[k]
  BY <1>3
<1> HIDE DEF wanted
<1>14. inDev = {all[k] : k \in {l \in 1..n : \E x \in Int : l - 1 = h * x}}
  <2>1. /\ \A i \in DOMAIN Every(dev, 0) : \E k \in 1..Len(dev), x \in Nat :
              k = 0 + conf.horizon * x + 1 /\ Every(dev, 0)[i] = dev[k]
        /\ \A k \in 1..Len(dev), x \in Nat :
              k = 0 + conf.horizon * x + 1 =>
                  \E i \in DOMAIN Every(dev, 0) : Every(dev, 0)[i] = dev[k]
    <3>1. dev \in Seq(Sessions) /\ 0 \in Nat
      BY <1>3
    <3> QED  BY <1>1, <3>1, EveryTakes
  <2>2. ASSUME NEW i \in DOMAIN windows.development
        PROVE  \E k \in 1..n : windows.development[i] = all[k] /\ \E x \in Int : k - 1 = h * x
    <3>1. PICK k \in 1..Len(dev), x \in Nat :
              k = 0 + conf.horizon * x + 1 /\ windows.development[i] = dev[k]
      BY <1>7, <2>1
    <3>2. k \in 1..n /\ dev[k] = all[k] /\ k - 1 = h * x
      BY <1>3, <1>5, <1>6, <3>1
    <3> QED  BY <3>1, <3>2
  <2>3. ASSUME NEW k \in 1..n, NEW x \in Int, k - 1 = h * x
        PROVE  \E i \in DOMAIN windows.development : windows.development[i] = all[k]
    <3>1. x \in Nat
      <4>1. h * 0 < h * x + h
        BY <1>3, <1>6, <2>3
      <4>2. 0 <= x
        BY <1>6, <4>1, Multiples
      <4> QED  BY <4>2
    <3>2. k = 0 + conf.horizon * x + 1 /\ k \in 1..Len(dev) /\ dev[k] = all[k]
      BY <1>3, <1>5, <1>6, <2>3
    <3> QED  BY <1>7, <2>1, <3>1, <3>2
  <2> QED  BY <2>2, <2>3
<1>15. inHol = {all[k] : k \in {l \in (p + 1)..Len(all) : \E x \in Int : l - 1 = h * x}}
  <2>1. CASE m = 0
    <3>1. windows.holdout = <<>> /\ Len(all) = p
      BY <1>3, <1>7, <2>1
    <3>2. DOMAIN windows.holdout = {} /\ (p + 1)..Len(all) = {}
      BY <1>3, <3>1
    <3> QED  BY <3>2
  <2>2. CASE m # 0
    <3>0. windows.holdout = Every(hol, o)
      BY <1>7, <1>8, <2>2
    <3>1. /\ \A i \in DOMAIN Every(hol, o) : \E k \in 1..Len(hol), x \in Nat :
                k = o + conf.horizon * x + 1 /\ Every(hol, o)[i] = hol[k]
          /\ \A k \in 1..Len(hol), x \in Nat :
                k = o + conf.horizon * x + 1 =>
                    \E i \in DOMAIN Every(hol, o) : Every(hol, o)[i] = hol[k]
      <4>1. hol \in Seq(Sessions) /\ o \in Nat
        BY <1>3, <1>9
      <4> QED  BY <1>1, <4>1, EveryTakes
    <3>2. ASSUME NEW i \in DOMAIN windows.holdout
          PROVE  \E k \in (p + 1)..Len(all) :
                     windows.holdout[i] = all[k] /\ \E x \in Int : k - 1 = h * x
      <4>1. PICK k \in 1..Len(hol), x \in Nat :
                k = o + conf.horizon * x + 1 /\ windows.holdout[i] = hol[k]
        BY <3>0, <3>1
      <4>2. hol[k] = all[p + k] /\ p + k \in (p + 1)..Len(all)
        BY <1>3, <4>1
      <4>3. x - y \in Int /\ (p + k) - 1 = h * (x - y)
        <5>1. h * x \in Int /\ h * y \in Int /\ h * (x - y) = h * x - h * y
          BY <1>6, <1>10
        <5>2. k = o + h * x + 1
          BY <1>5, <4>1
        <5>3. p \in Int /\ o \in Int /\ x - y \in Int
          BY <1>3, <1>9
        <5>4. PICK u, v, w : u = h * x /\ v = h * y /\ w = h * (x - y)
          OBVIOUS
        <5>5. u \in Int /\ v \in Int /\ w = u - v /\ k = o + u + 1 /\ -p = v + o
          BY <1>10, <5>1, <5>2, <5>4
        <5>6. (p + k) - 1 = w
          BY <5>3, <5>5
        <5> QED  BY <5>3, <5>4, <5>6
      <4> QED  BY <4>1, <4>2, <4>3
    <3>3. ASSUME NEW k \in (p + 1)..Len(all), NEW x \in Int, k - 1 = h * x
          PROVE  \E i \in DOMAIN windows.holdout : windows.holdout[i] = all[k]
      <4>1. PICK l : l = k - p
        OBVIOUS
      <4>2. PICK z : z = x + y
        OBVIOUS
      <4>3. l \in 1..Len(hol) /\ hol[l] = all[k]
        <5>1. l \in 1..m /\ p + l = k
          BY <1>3, <4>1
        <5> QED  BY <1>3, <5>1
      <4>4. z \in Int /\ l = o + h * z + 1
        <5>1. z \in Int /\ h * x \in Int /\ h * y \in Int /\ h * z = h * x + h * y
          BY <1>6, <1>10, <4>2
        <5>2. p \in Int /\ o \in Int /\ k \in Int
          BY <1>3, <1>9
        <5>3. PICK u, v, w : u = h * x /\ v = h * y /\ w = h * z
          OBVIOUS
        <5>4. u \in Int /\ v \in Int /\ w = u + v /\ k - 1 = u /\ -p = v + o
          BY <1>10, <3>3, <5>1, <5>3
        <5>5. l = o + w + 1
          BY <4>1, <5>2, <5>4
        <5> QED  BY <5>1, <5>3, <5>5
      <4>5. z \in Nat
        <5>1. h * z \in Int
          BY <1>6, <4>4
        <5>2. h * 0 < h * z + h
          <6>1. l \in Int /\ l >= 1 /\ o \in Int /\ o < h /\ h \in Int
            BY <1>3, <1>6, <1>9, <4>3
          <6>2. PICK w : w = h * z
            OBVIOUS
          <6>3. w \in Int /\ l = o + w + 1
            BY <4>4, <5>1, <6>2
          <6>4. 0 < w + h
            BY <6>1, <6>3
          <6>5. h * 0 = 0
            BY <1>6
          <6> QED  BY <6>2, <6>4, <6>5
        <5>3. 0 <= z
          BY <1>6, <4>4, <5>2, Multiples
        <5> QED  BY <4>4, <5>3
      <4>6. l = o + conf.horizon * z + 1
        BY <1>5, <4>4
      <4> QED  BY <3>0, <3>1, <4>3, <4>5, <4>6
    <3> QED  BY <3>2, <3>3
  <2> QED  BY <2>1, <2>2
<1> HIDE DEF inDev, inHol
<1>16. inDev \cup inHol = wanted
  <2>1. ASSUME NEW s \in inDev \cup inHol PROVE s \in wanted
    <3>1. CASE s \in inDev
      <4>1. PICK k \in 1..n : s = all[k] /\ \E x \in Int : k - 1 = h * x
        BY <1>14, <3>1
      <4>2. k \in 1..Len(all) /\ k <= n
        BY <1>3
      <4> QED  BY <1>12, <4>1, <4>2
    <3>2. CASE s \in inHol
      <4>1. PICK k \in (p + 1)..Len(all) : s = all[k] /\ \E x \in Int : k - 1 = h * x
        BY <1>15, <3>2
      <4>2. k \in 1..Len(all) /\ p < k
        BY <1>3
      <4> QED  BY <1>12, <4>1, <4>2
    <3> QED  BY <2>1, <3>1, <3>2
  <2>2. ASSUME NEW s \in wanted PROVE s \in inDev \cup inHol
    <3>1. PICK k \in 1..Len(all) : s = all[k]
      BY <1>13
    <3>2. (\E x \in Int : k - 1 = h * x) /\ (k <= n \/ p < k)
      BY <1>12, <3>1
    <3>3. CASE k <= n
      <4>1. k \in 1..n
        BY <1>3, <3>3
      <4> QED  BY <1>14, <3>1, <3>2, <4>1
    <3>4. CASE p < k
      <4>1. k \in (p + 1)..Len(all)
        BY <1>3, <3>4
      <4> QED  BY <1>15, <3>1, <3>2, <4>1
    <3> QED  BY <3>2, <3>3, <3>4
  <2> QED  BY <2>1, <2>2
<1> QED  BY <1>16 DEF inDev, inHol, wanted, all, pur, place

\* Round trips of sessions a horizon apart share no session where every bar is
\* delivered before the next open.
LEMMA NoOverlap ==
    ASSUME IInv, stage = "tested", \A s \in Fetched : decided[s] < Open(s + 1),
           NEW k \in 1..Len(split.observed), NEW l \in 1..Len(split.observed), k < l,
           NEW x \in Int, NEW y \in Int, k - 1 = conf.horizon * x, l - 1 = conf.horizon * y
    PROVE  /\ ~Overlap(split.observed[k], split.observed[l])
           /\ ~Overlap(split.observed[l], split.observed[k])
<1> DEFINE s == split.observed[k]
           t == split.observed[l]
<1>1. Market /\ Scope /\ Timely /\ features \subseteq Candidates /\ SplitSound
  BY DEF IInv, Fitted
<1>2. PICK h : h = conf.horizon
  OBVIOUS
<1>3. h \in Nat /\ h > 0
  BY <1>1, <1>2, ConfFacts
<1>4. /\ SessionsOf(ObservedRows) \in SUBSET Sessions
      /\ InOrder(split.observed, SessionsOf(ObservedRows))
      /\ SessionsOf(ObservedRows) \subseteq Fetched
  BY <1>1, SessionSets DEF SplitSound
<1>5. /\ s \in Fetched /\ t \in Fetched /\ s \in Nat /\ t \in Nat /\ t - s >= l - k
      /\ k \in Nat /\ l \in Nat
  <2>1. PICK S : S = SessionsOf(ObservedRows)
    OBVIOUS
  <2>2. S \in SUBSET Sessions /\ InOrder(split.observed, S) /\ S \subseteq Fetched
    BY <1>4, <2>1
  <2>3. PICK q : q = split.observed
    OBVIOUS
  <2>4. Len(q) \in Nat /\ k \in 1..Len(q) /\ l \in 1..Len(q) /\ InOrder(q, S)
    BY <2>2, <2>3, OrderFacts
  <2>5. k \in Nat /\ l \in Nat /\ k <= l
    BY <2>4
  <2>6. q[k] \in S /\ q[l] \in S /\ q[k] \in Nat /\ q[l] \in Nat
    BY <2>2, <2>4, OrderFacts
  <2>7. q[l] - q[k] >= l - k
    BY <2>2, <2>4, <2>5, PlacesApart
  <2> QED  BY <2>2, <2>3, <2>5, <2>6, <2>7
<1>6. l - k >= h
  <2>1. PICK u, v : u = h * x /\ v = h * y
    OBVIOUS
  <2>2. u \in Int /\ v \in Int /\ k - 1 = u /\ l - 1 = v
    BY <1>2, <1>3, <2>1, Multiples
  <2>3. x < y
    <3>1. y <= x => v <= u
      <4>1. y < x => h * y + h <= h * x
        BY <1>3, Multiples
      <4>2. y = x => v = u
        BY <2>1
      <4>3. y <= x => y < x \/ y = x
        OBVIOUS
      <4> QED  BY <1>3, <2>1, <2>2, <4>1, <4>2, <4>3
    <3>2. u < v
      BY <1>5, <2>2
    <3> QED  BY <2>2, <3>1, <3>2
  <2>4. h * x + h <= h * y
    BY <1>3, <2>3, Multiples
  <2>5. u + h <= v
    BY <2>1, <2>4
  <2> QED  BY <1>3, <1>5, <2>2, <2>5
<1> HIDE DEF s, t
<1>7. ASSUME NEW r \in Fetched, r \in Nat
      PROVE  EntrySession(decided[r]) = r + 1 /\ ExitSession(r) = r + h
  <2>1. decided[r] \in Nat /\ Close(r) <= decided[r] /\ decided[r] < Open(r + 1)
    BY <1>1, <1>7, DecidedIsClosed
  <2>2. /\ EntrySession(decided[r]) \in Nat /\ decided[r] < 4 * EntrySession(decided[r])
        /\ 4 * EntrySession(decided[r]) <= decided[r] + 4
    BY <2>1, EntryIsNext DEF Open
  <2>3. 4 * r + 2 <= decided[r] /\ decided[r] < 4 * (r + 1)
    BY <2>1 DEF Close, Open
  <2>4. EntrySession(decided[r]) = r + 1
    BY <1>7, <2>1, <2>2, <2>3
  <2> QED  BY <1>2, <1>3, <1>7, <2>4 DEF ExitSession
<1>8. /\ EntrySession(decided[s]) = s + 1 /\ ExitSession(s) = s + h
      /\ EntrySession(decided[t]) = t + 1 /\ ExitSession(t) = t + h
  BY <1>5, <1>7
<1>9. ~(Open(t + 1) < Close(s + h))
  BY <1>3, <1>5, <1>6 DEF Open, Close
<1> QED  BY <1>8, <1>9 DEF Overlap, s, t

\* Both windows open a horizon apart, so their trades follow each other.
LEMMA KeptPhase == IInv => ReplayKeepsPhase
<1> DEFINE all == split.observed
           place(s) == CHOOSE i \in DOMAIN all : all[i] = s
           opened == {windows.development[i] : i \in DOMAIN windows.development}
                     \cup {windows.holdout[i] : i \in DOMAIN windows.holdout}
           wanted == {s \in {all[i] : i \in DOMAIN all} :
                         /\ (place(s) - 1) % conf.horizon = 0
                         /\ \A i \in DOMAIN evaluation.purged : s # evaluation.purged[i]}
<1>1. SUFFICES ASSUME IInv, stage = "tested"
               PROVE  /\ opened = wanted
                      /\ (\A s \in Fetched : decided[s] < Open(s + 1)) =>
                             \A s, t \in opened : ~Overlap(s, t)
  BY Zenon DEF ReplayKeepsPhase
<1>2. opened = wanted
  BY <1>1, PhaseKept, Zenon
<1>3. Market /\ Scope /\ Timely /\ features \subseteq Candidates /\ SplitSound
  BY <1>1 DEF IInv, Fitted
<1>4. /\ DOMAIN all = 1..Len(all) /\ Len(all) \in Nat
      /\ \A i, j \in 1..Len(all) : all[i] = all[j] => i = j
  BY <1>3, OrderFacts, SessionSets DEF SplitSound
<1>5. PICK h : h = conf.horizon
  OBVIOUS
<1>6. h \in Nat /\ h > 0
  BY <1>3, <1>5, ConfFacts
<1> HIDE DEF opened
<1>7. ASSUME NEW s \in opened
      PROVE  \E k \in 1..Len(all), x \in Int : s = all[k] /\ k - 1 = h * x
  <2>1. s \in {all[i] : i \in DOMAIN all} /\ (place(s) - 1) % h = 0
    BY <1>2, <1>5
  <2>2. place(s) \in DOMAIN all /\ all[place(s)] = s
    BY <2>1, Zenon
  <2> HIDE DEF place
  <2>3. PICK a : a = place(s) - 1
    OBVIOUS
  <2>4. a \in Int /\ a % h = 0
    BY <1>4, <2>1, <2>2, <2>3
  <2>5. PICK x \in Int : a = h * x
    BY <1>6, <2>4, MultipleOf
  <2> QED  BY <1>4, <2>2, <2>3, <2>5
<1>8. ASSUME \A s \in Fetched : decided[s] < Open(s + 1), NEW s \in opened, NEW t \in opened
      PROVE  ~Overlap(s, t)
  <2>1. PICK k \in 1..Len(all), x \in Int : s = all[k] /\ k - 1 = h * x
    BY <1>7
  <2>2. PICK l \in 1..Len(all), y \in Int : t = all[l] /\ l - 1 = h * y
    BY <1>7
  <2>3. k \in Nat /\ l \in Nat
    BY <1>4
  <2>4. CASE k = l
    BY <2>1, <2>2, <2>4 DEF Overlap
  <2>5. CASE k < l
    BY <1>1, <1>5, <1>8, <2>1, <2>2, <2>5, NoOverlap
  <2>6. CASE l < k
    BY <1>1, <1>5, <1>8, <2>1, <2>2, <2>6, NoOverlap
  <2> QED  BY <2>3, <2>4, <2>5, <2>6
<1> QED  BY <1>2, <1>8

\* For every horizon and length of the holdout, its replay opens on the places that
\* the development replay would have gone on to, and no position of either overlaps
\* another where bars are delivered before the next open (holdout_rebalance_offset,
\* run_backtest).
THEOREM PhaseIsKept == Spec => []ReplayKeepsPhase
BY Invariance, KeptPhase, PTL

=============================================================================
