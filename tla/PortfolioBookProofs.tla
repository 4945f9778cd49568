------------------------ MODULE PortfolioBookProofs ------------------------
(***************************************************************************)
(* What holds of the books for any assets, limits, markets, wishes, moves  *)
(* and faults. First what the book of the paper simulator and the lines of *)
(* its ledger have to do with each other;                                  *)
(* then the arithmetic of fractions in lowest terms and of their totals,   *)
(* from it what each step of the constructor does to a weight, and from    *)
(* that what a book from nothing, an exit of the same day and an asset     *)
(* that may not be bought come to.                                         *)
(***************************************************************************)
EXTENDS PortfolioBook, FiniteSetTheorems, WellFoundedInduction, TLAPS

SeenBefore(i) == {j \in seen : j < i}
Now == LastOf(seen)

\* The history has an entry for each line of the ledger.
Lines ==
    /\ ledger \in Seq({ledger[i] : i \in DOMAIN ledger})
    /\ history \in Seq({history[i] : i \in DOMAIN history})
    /\ Len(history) = Len(ledger)

\* The events are in order and each goes on from the last one that had been seen.
LedgerSound ==
    \A i \in DOMAIN ledger :
        /\ GoesOn(ledger[i], history[i], BookAfter(LastOf(SeenBefore(i))), ValueAfter(LastOf(SeenBefore(i))))
        /\ i > 1 => ledger[i - 1].at <= ledger[i].at

\* The book is that of the last event that was seen.
BookSound ==
    /\ positions = BookAfter(Now) /\ equity = ValueAfter(Now)
    /\ Now # 0 => last = ledger[Now].at

BInv ==
    /\ Lines
    /\ user = "paper" => seen \subseteq DOMAIN ledger /\ LedgerSound /\ BookSound

-----------------------------------------------------------------------------
(* One event more *)

\* A nonempty set of naturals has a first one.
LEMMA FirstOf ==
    ASSUME NEW S \in SUBSET Nat, S # {}
    PROVE  \E i \in S : \A j \in S : i <= j
<1>1. PICK i \in S : \A j \in S : <<j, i>> \notin OpToRel(<, Nat)
  BY NatLessThanWellFounded, WFMin, ZenonT(30)
<1>2. ASSUME NEW j \in S, j < i PROVE FALSE
  <2>1. <<j, i>> \in Nat \X Nat
    OBVIOUS
  <2>2. <<j, i>>[1] < <<j, i>>[2]
    BY <1>2
  <2>3. <<j, i>> \in OpToRel(<, Nat)
    BY <2>1, <2>2, Zenon DEF OpToRel
  <2> QED  BY <1>1, <2>3
<1> QED  BY <1>2

\* One that is bounded has a last one.
LEMMA LastThere ==
    ASSUME NEW S \in SUBSET Nat, S # {}, NEW n \in Nat, \A s \in S : s <= n
    PROVE  \E i \in S : \A j \in S : j <= i
<1> DEFINE R == {n - s : s \in S}
<1>1. R \in SUBSET Nat /\ R # {}
  <2>1. \A s \in S : s \in Nat /\ s <= n
    OBVIOUS
  <2>2. \A s \in S : n - s \in Nat
    BY <2>1
  <2>3. R # {}
    OBVIOUS
  <2> QED  BY <2>2, <2>3
<1>2. PICK i \in R : \A j \in R : i <= j
  BY <1>1, FirstOf
<1>3. PICK s \in S : i = n - s
  OBVIOUS
<1>4. \A j \in S : n - j \in R
  OBVIOUS
<1>5. \A j \in S : j \in Nat
  OBVIOUS
<1>6. ASSUME NEW j \in S PROVE j <= s
  <2>1. n - s <= n - j
    BY <1>2, <1>3, <1>4
  <2>2. j \in Nat /\ s \in Nat
    BY <1>3, <1>5
  <2> QED  BY <2>1, <2>2
<1> QED  BY <1>6

\* An element more leaves the elements before it.
LEMMA OneMore ==
    ASSUME NEW s, s \in Seq({s[i] : i \in DOMAIN s}), NEW e, NEW t, t = Append(s, e)
    PROVE  /\ Len(s) \in Nat /\ DOMAIN s = 1..Len(s)
           /\ t \in Seq({t[i] : i \in DOMAIN t})
           /\ DOMAIN t = 1..(Len(s) + 1) /\ Len(t) = Len(s) + 1
           /\ \A i \in 1..Len(s) : t[i] = s[i]
           /\ t[Len(s) + 1] = e
<1>1. PICK S : S = {s[i] : i \in DOMAIN s}
  OBVIOUS
<1>2. s \in Seq(S) /\ s \in Seq(S \cup {e})
  BY <1>1
<1>3. Len(s) \in Nat /\ DOMAIN s = 1..Len(s)
  BY <1>2
<1>4. t \in Seq(S \cup {e}) /\ Len(t) = Len(s) + 1
      /\ \A i \in 1..Len(s) : t[i] = s[i]
      /\ t[Len(s) + 1] = e
  BY <1>2
<1>5. DOMAIN t = 1..Len(t) /\ Len(t) \in Nat
  BY <1>4
<1>6. t \in Seq({t[i] : i \in DOMAIN t})
  BY <1>4, <1>5
<1> QED  BY <1>3, <1>4, <1>5, <1>6

\* A line more, whether it is taken over or not, leaves the lines before it.
LEMMA LineMore ==
    ASSUME Lines, NEW e, NEW weights, Written(e, weights)
    PROVE  /\ Lines'
           /\ Len(ledger) \in Nat /\ DOMAIN ledger = 1..Len(ledger)
           /\ DOMAIN ledger' = 1..(Len(ledger) + 1) /\ Len(ledger') = Len(ledger) + 1
           /\ \A i \in 1..Len(ledger) : ledger'[i] = ledger[i] /\ history'[i] = history[i]
           /\ ledger'[Len(ledger) + 1] = e
           /\ history'[Len(ledger) + 1] = [before |-> positions, after |-> weights]
<1>1. /\ Len(ledger) \in Nat /\ DOMAIN ledger = 1..Len(ledger)
      /\ ledger' \in Seq({ledger'[i] : i \in DOMAIN ledger'})
      /\ DOMAIN ledger' = 1..(Len(ledger) + 1) /\ Len(ledger') = Len(ledger) + 1
      /\ \A i \in 1..Len(ledger) : ledger'[i] = ledger[i]
      /\ ledger'[Len(ledger) + 1] = e
  BY OneMore DEF Lines, Written
<1>2. /\ history' \in Seq({history'[i] : i \in DOMAIN history'})
      /\ Len(history') = Len(history) + 1
      /\ \A i \in 1..Len(history) : history'[i] = history[i]
      /\ history'[Len(history) + 1] = [before |-> positions, after |-> weights]
  <2>1. PICK h : h = [before |-> positions, after |-> weights]
    OBVIOUS
  <2>2. PICK s, t : s = history /\ t = history'
    OBVIOUS
  <2>3. s \in Seq({s[i] : i \in DOMAIN s}) /\ t = Append(s, h)
    BY <2>1, <2>2 DEF Written, Lines
  <2>4. /\ t \in Seq({t[i] : i \in DOMAIN t}) /\ Len(t) = Len(s) + 1
        /\ \A i \in 1..Len(s) : t[i] = s[i]
        /\ t[Len(s) + 1] = h
    BY <2>3, OneMore
  <2> QED  BY <2>1, <2>2, <2>4, Zenon
<1> QED  BY <1>1, <1>2 DEF Lines

\* The greatest of the numbers seen and a new one above them is the new one.
LEMMA NewIsLast ==
    ASSUME NEW n \in Nat, NEW S \in SUBSET (0..n)
    PROVE  LastOf(S \cup {n + 1}) = n + 1
<1>1. \A k \in S \cup {n + 1} \cup {0} : k <= n + 1
  OBVIOUS
<1>2. ASSUME NEW j \in S \cup {n + 1} \cup {0}, \A k \in S \cup {n + 1} \cup {0} : k <= j
      PROVE  j = n + 1
  BY <1>2
<1> QED  BY <1>1, <1>2 DEF LastOf

\* What was seen before an event stays so, and it was all there is before a new one.
LEMMA SeenStays ==
    ASSUME NEW n \in Nat, seen \subseteq 1..n, seen' = seen \/ seen' = seen \cup {n + 1}
    PROVE  /\ \A i \in 1..(n + 1) : SeenBefore(i)' = SeenBefore(i)
           /\ SeenBefore(n + 1) = seen
<1>1. ASSUME NEW i \in 1..(n + 1)
      PROVE  {j \in seen' : j < i} = {j \in seen : j < i}
  BY <1>1
<1>2. SeenBefore(n + 1) = seen
  <2>1. \A j \in seen : j < n + 1
    OBVIOUS
  <2>2. {j \in seen : j < n + 1} = seen
    BY <2>1, Zenon
  <2> QED  BY <2>2 DEF SeenBefore
<1> QED  BY <1>1, <1>2 DEF SeenBefore

\* The last of some lines is one of them, or none.
LEMMA LastIsOne ==
    ASSUME NEW n \in Nat, NEW S \in SUBSET (1..n)
    PROVE  LastOf(S) \in 0..n
<1>1. \A k \in S : k \in Nat /\ k <= n
  OBVIOUS
<1>2. /\ S \cup {0} \in SUBSET Nat /\ S \cup {0} # {}
      /\ \A k \in S \cup {0} : k <= n
  BY <1>1
<1>3. LastOf(S) \in S \cup {0}
  BY <1>2, LastThere DEF LastOf
<1>4. PICK m : m = LastOf(S)
  OBVIOUS
<1>5. m = 0 \/ m \in S
  BY <1>3, <1>4
<1>6. m \in 0..n
  <2>1. ASSUME m = 0 PROVE m \in 0..n
    BY <2>1
  <2>2. ASSUME m \in S PROVE m \in 0..n
    BY <1>1, <2>2
  <2> QED  BY <1>5, <2>1, <2>2
<1> QED  BY <1>4, <1>6, Zenon

\* An event that goes on from the book at hand and is no earlier than those before it
\* keeps the ledger in order.
LEMMA EventKeeps ==
    ASSUME BInv, user = "paper", user' = user, NEW e, NEW weights,
           GoesOn(e, [before |-> positions, after |-> weights], positions, equity),
           Accepts(e), Written(e, weights),
           seen' = seen \/ seen' = seen \cup {Len(ledger) + 1}
    PROVE  /\ LedgerSound'
           /\ \A i \in 0..Len(ledger) : BookAfter(i)' = BookAfter(i) /\ ValueAfter(i)' = ValueAfter(i)
<1>1. /\ Len(ledger) \in Nat /\ DOMAIN ledger = 1..Len(ledger)
      /\ DOMAIN ledger' = 1..(Len(ledger) + 1)
      /\ \A i \in 1..Len(ledger) : ledger'[i] = ledger[i] /\ history'[i] = history[i]
      /\ ledger'[Len(ledger) + 1] = e
      /\ history'[Len(ledger) + 1] = [before |-> positions, after |-> weights]
  BY LineMore DEF BInv
<1>2. seen \subseteq 1..Len(ledger) /\ LedgerSound /\ BookSound
  BY <1>1 DEF BInv
<1>3. \A i \in 0..Len(ledger) : BookAfter(i)' = BookAfter(i) /\ ValueAfter(i)' = ValueAfter(i)
  BY <1>1 DEF BookAfter, ValueAfter
<1>4. /\ \A i \in 1..(Len(ledger) + 1) : SeenBefore(i)' = SeenBefore(i)
      /\ LastOf(SeenBefore(Len(ledger) + 1)) = Now
  BY <1>1, <1>2, SeenStays DEF Now
<1>5. ASSUME NEW i \in 1..(Len(ledger) + 1)
      PROVE  LastOf(SeenBefore(i)) \in 0..Len(ledger)
  <2>1. SeenBefore(i) \in SUBSET (1..Len(ledger))
    BY <1>2 DEF SeenBefore
  <2> QED  BY <1>1, <2>1, LastIsOne
<1>6. ASSUME NEW i \in 1..(Len(ledger) + 1)
      PROVE  /\ GoesOn(ledger'[i], history'[i], BookAfter(LastOf(SeenBefore(i)))',
                       ValueAfter(LastOf(SeenBefore(i)))')
             /\ i > 1 => ledger'[i - 1].at <= ledger'[i].at
  <2>1. PICK m : m = LastOf(SeenBefore(i))
    OBVIOUS
  <2>2. LastOf(SeenBefore(i))' = m
    BY <1>4, <2>1 DEF LastOf
  <2>3. m \in 0..Len(ledger)
    BY <1>5, <2>1
  <2>4. BookAfter(LastOf(SeenBefore(i)))' = BookAfter(m)
        /\ ValueAfter(LastOf(SeenBefore(i)))' = ValueAfter(m)
    BY <1>1, <2>2, <2>3 DEF BookAfter, ValueAfter
  <2>5. CASE i = Len(ledger) + 1
    <3>1. GoesOn(ledger'[i], history'[i], BookAfter(m), ValueAfter(m))
      <4>1. positions = BookAfter(m) /\ equity = ValueAfter(m)
        BY <1>2, <1>4, <2>1, <2>5 DEF BookSound
      <4> QED  BY <1>1, <2>5, <4>1
    <3>2. ASSUME i > 1 PROVE ledger'[i - 1].at <= ledger'[i].at
      <4>1. i - 1 \in 1..Len(ledger)
        BY <1>1, <2>5, <3>2
      <4>2. ledger[i - 1].at <= e.at
        BY <1>1, <4>1 DEF Accepts
      <4> QED  BY <1>1, <2>5, <4>1, <4>2
    <3> QED  BY <2>4, <3>1, <3>2
  <2>6. CASE i \in 1..Len(ledger)
    <3>1. ledger'[i] = ledger[i] /\ history'[i] = history[i] /\ (i > 1 => ledger'[i - 1] = ledger[i - 1])
      BY <1>1, <2>6
    <3>2. /\ GoesOn(ledger[i], history[i], BookAfter(m), ValueAfter(m))
          /\ i > 1 => ledger[i - 1].at <= ledger[i].at
      BY <1>1, <1>2, <2>1, <2>6 DEF LedgerSound
    <3> QED  BY <2>4, <3>1, <3>2
  <2> QED  BY <1>1, <2>5, <2>6
<1>7. LedgerSound'
  BY <1>1, <1>6 DEF LedgerSound, GoesOn
<1> QED  BY <1>3, <1>7

\* What moves neither the book nor the ledger keeps the invariant.
LEMMA Unmoved ==
    ASSUME BInv, UNCHANGED <<book, ledger, history>>, user' = user
    PROVE  BInv'
<1>1. /\ ledger' = ledger /\ history' = history /\ seen' = seen /\ positions' = positions
      /\ equity' = equity /\ last' = last /\ user' = user
  BY DEF book
<1>2. Now' = Now /\ LedgerSound' = LedgerSound
  BY <1>1 DEF Now, LastOf, LedgerSound, BookAfter, ValueAfter, SeenBefore, GoesOn
<1>3. BookSound' = BookSound
  BY <1>1 DEF BookSound, Now, LastOf, BookAfter, ValueAfter
<1> QED  BY <1>1, <1>2, <1>3 DEF BInv, Lines

\* An event that is written and taken over keeps the invariant.
LEMMA TakenKeeps ==
    ASSUME BInv, user = "paper", user' = user, NEW e, NEW weights, NEW rows,
           GoesOn(e, [before |-> positions, after |-> weights], positions, equity),
           Accepts(e), Written(e, weights), Applied(e, weights, rows)
    PROVE  BInv'
<1>1. seen' = seen \cup {Len(ledger) + 1} /\ LedgerSound'
  BY EventKeeps DEF Applied
<1>2. /\ Lines' /\ Len(ledger) \in Nat /\ DOMAIN ledger = 1..Len(ledger)
      /\ DOMAIN ledger' = 1..(Len(ledger) + 1)
      /\ ledger'[Len(ledger) + 1] = e /\ history'[Len(ledger) + 1].after = weights
  BY LineMore DEF BInv
<1>3. seen \subseteq 1..Len(ledger)
  BY <1>2 DEF BInv
<1>4. seen' \subseteq DOMAIN ledger'
  <2>1. seen \subseteq 1..(Len(ledger) + 1) /\ Len(ledger) + 1 \in 1..(Len(ledger) + 1)
    BY <1>2, <1>3
  <2> QED  BY <1>1, <1>2, <2>1
<1>5. Now' = Len(ledger) + 1
  <2>1. seen \in SUBSET (0..Len(ledger))
    BY <1>2, <1>3
  <2>2. LastOf(seen \cup {Len(ledger) + 1}) = Len(ledger) + 1
    BY <1>2, <2>1, NewIsLast
  <2> QED  BY <1>1, <2>2 DEF Now, LastOf
<1>6. BookSound'
  <2>1. BookAfter(Now)' = weights /\ ValueAfter(Now)' = e.equity /\ ledger'[Now'] = e
    BY <1>2, <1>5 DEF BookAfter, ValueAfter
  <2> QED  BY <2>1 DEF BookSound, Applied
<1> QED  BY <1>1, <1>2, <1>4, <1>6 DEF BInv

\* So does one whose append failed, whatever the failure left.
LEMMA FailedKeeps ==
    ASSUME BInv, user = "paper", user' = user, NEW e, NEW weights,
           GoesOn(e, [before |-> positions, after |-> weights], positions, equity),
           AppendFails(e, weights), UNCHANGED book
    PROVE  BInv'
<1>1. CASE UNCHANGED <<ledger, history>>
  BY <1>1, Unmoved
<1>2. CASE Accepts(e) /\ Written(e, weights)
  <2>1. seen' = seen /\ positions' = positions /\ equity' = equity /\ last' = last
    BY DEF book
  <2>2. /\ LedgerSound'
        /\ \A i \in 0..Len(ledger) : BookAfter(i)' = BookAfter(i) /\ ValueAfter(i)' = ValueAfter(i)
    BY <1>2, <2>1, EventKeeps
  <2>3. /\ Lines' /\ Len(ledger) \in Nat /\ DOMAIN ledger = 1..Len(ledger)
        /\ DOMAIN ledger' = 1..(Len(ledger) + 1)
        /\ \A i \in 1..Len(ledger) : ledger'[i] = ledger[i] /\ history'[i] = history[i]
    BY <1>2, LineMore DEF BInv
  <2>4. seen \subseteq 1..Len(ledger)
    BY <2>3 DEF BInv
  <2>5. Now \in 0..Len(ledger)
    BY <2>3, <2>4, LastIsOne DEF Now
  <2>6. Now' = Now
    BY <2>1 DEF Now, LastOf
  <2>7. BookSound'
    <3>1. /\ BookAfter(Now)' = BookAfter(Now) /\ ValueAfter(Now)' = ValueAfter(Now)
          /\ Now # 0 => ledger'[Now'] = ledger[Now]
      BY <2>3, <2>5, <2>6 DEF BookAfter, ValueAfter
    <3> QED  BY <2>1, <2>6, <3>1 DEF BookSound, BInv
  <2> QED  BY <2>1, <2>2, <2>3, <2>4, <2>7 DEF BInv
<1> QED  BY <1>1, <1>2 DEF AppendFails

-----------------------------------------------------------------------------
(* The steps *)

\* What a rebalance or a mark does: refuse, or persist an event that goes on from the
\* book at hand.
LEMMA BookSteps ==
    ASSUME Rebalance \/ MarkToMarket
    PROVE  /\ user = "paper" /\ user' = user
           /\ \/ UNCHANGED <<book, ledger, history>>
              \/ \E e, weights, rows :
                    /\ GoesOn(e, [before |-> positions, after |-> weights], positions, equity)
                    /\ Persist(e, weights, rows)
<1>1. ASSUME Rebalance
      PROVE  \/ UNCHANGED <<book, ledger, history>>
             \/ \E e, weights, rows :
                    /\ GoesOn(e, [before |-> positions, after |-> weights], positions, equity)
                    /\ Persist(e, weights, rows)
  <2>1. PICK t \in 0..MaxTime, desired \in [Assets -> Wishes], shown \in Shown :
          LET rows == [a \in Assets |-> IF shown[a] = NoRow THEN meta[a] ELSE shown[a]]
              used == [a \in Assets |-> IF positions[a] = Zero THEN shown[a] ELSE rows[a]]
              weights == Constrained(desired, used, positions, Limits, equity)
              cost == Times(CostRate, Distance(weights, positions))
          IN  IF t < last THEN Refuse("out_of_order")
              ELSE IF ~Reachable(weights, used, positions, Limits, equity) THEN Refuse("refused")
              ELSE Persist(RebalanceEvent(t, weights, cost), weights, rows)
    BY <1>1 DEF Rebalance
  <2> DEFINE rows == [a \in Assets |-> IF shown[a] = NoRow THEN meta[a] ELSE shown[a]]
             used == [a \in Assets |-> IF positions[a] = Zero THEN shown[a] ELSE rows[a]]
             weights == Constrained(desired, used, positions, Limits, equity)
             cost == Times(CostRate, Distance(weights, positions))
  <2>2. \/ Refuse("out_of_order") \/ Refuse("refused")
        \/ Persist(RebalanceEvent(t, weights, cost), weights, rows)
    BY <2>1, Zenon
  <2> HIDE DEF weights, cost, rows
  <2>3. GoesOn(RebalanceEvent(t, weights, cost), [before |-> positions, after |-> weights],
               positions, equity)
    BY DEF GoesOn, RebalanceEvent, Grown
  <2> QED  BY <2>2, <2>3 DEF Refuse
<1>2. ASSUME MarkToMarket
      PROVE  \/ UNCHANGED <<book, ledger, history>>
             \/ \E e, weights, rows :
                    /\ GoesOn(e, [before |-> positions, after |-> weights], positions, equity)
                    /\ Persist(e, weights, rows)
  <2>1. PICK t \in 0..MaxTime, move \in [Assets -> Returns] :
          LET gross == Total([a \in Assets |-> Times(positions[a], move[a])])
          IN  IF t < last THEN Refuse("out_of_order")
              ELSE Persist(MarkEvent(t, gross), Drift(positions, move), meta)
    BY <1>2 DEF MarkToMarket
  <2> DEFINE gross == Total([a \in Assets |-> Times(positions[a], move[a])])
             weights == Drift(positions, move)
  <2>2. Refuse("out_of_order") \/ Persist(MarkEvent(t, gross), weights, meta)
    BY <2>1, Zenon
  <2> HIDE DEF gross, weights
  <2>3. GoesOn(MarkEvent(t, gross), [before |-> positions, after |-> weights], positions, equity)
    BY DEF GoesOn, MarkEvent, Grown
  <2> QED  BY <2>2, <2>3 DEF Refuse
<1> QED  BY <1>1, <1>2 DEF Rebalance, MarkToMarket

\* What the backtest and the pipeline do is nobody's paper book.
LEMMA OtherSteps ==
    ASSUME BInv, PaperIntents \/ Enter \/ Exit
    PROVE  BInv'
<1>1. user # "paper" /\ user' = user
  BY DEF PaperIntents, Enter, Exit
<1>2. Lines'
  <2>1. UNCHANGED <<ledger, history>> \/ \E e, weights : Written(e, weights)
    BY DEF PaperIntents, Enter, Exit, Refuse, AppendFails
  <2>2. CASE UNCHANGED <<ledger, history>>
    BY <2>2 DEF BInv, Lines
  <2> QED  BY <2>1, <2>2, LineMore DEF BInv
<1> QED  BY <1>1, <1>2 DEF BInv

\* Whatever happens to a write, the paper book is that of the last event the simulator
\* saw written, and every line goes on from the last one seen before it
\* (_persist_event, PaperEventLedger.append).
THEOREM BookInvariance == Spec => []BInv
<1>1. Init => BInv
  <2> SUFFICES ASSUME Init PROVE BInv
    OBVIOUS
  <2>1. /\ ledger = <<>> /\ history = <<>> /\ DOMAIN ledger = {} /\ seen = {}
        /\ positions = Flat /\ equity = One
    BY DEF Init
  <2>2. Now = 0
    BY <2>1 DEF Now, LastOf
  <2> QED  BY <2>1, <2>2 DEF BInv, Lines, LedgerSound, BookSound, BookAfter, ValueAfter
<1>2. BInv /\ [Next]_vars => BInv'
  <2> SUFFICES ASSUME BInv, [Next]_vars PROVE BInv'
    OBVIOUS
  <2>1. CASE Rebalance \/ MarkToMarket
    <3>1. user = "paper" /\ user' = user
      BY <2>1, BookSteps
    <3>2. ASSUME NEW e, NEW weights, NEW rows, Persist(e, weights, rows),
                 GoesOn(e, [before |-> positions, after |-> weights], positions, equity)
          PROVE  BInv'
      <4>1. CASE Accepts(e) /\ Written(e, weights) /\ Applied(e, weights, rows)
        BY <3>1, <3>2, <4>1, TakenKeeps
      <4>2. CASE AppendFails(e, weights) /\ UNCHANGED book
        BY <3>1, <3>2, <4>2, FailedKeeps
      <4> QED  BY <3>2, <4>1, <4>2 DEF Persist
    <3> QED  BY <2>1, <3>1, <3>2, BookSteps, Unmoved
  <2>2. CASE PaperIntents \/ Enter \/ Exit
    BY <2>2, OtherSteps
  <2>3. CASE UNCHANGED vars
    BY <2>3, Unmoved DEF vars
  <2> QED  BY <2>1, <2>2, <2>3 DEF Next
<1> QED  BY <1>1, <1>2, PTL DEF Spec

\* In every run of the simulator its book, value and time are those that the last event
\* it has seen written left, and every line of its ledger, that of a write reported as
\* failed too, goes on from the last one seen before it (_persist_event, rebalance,
\* mark_to_market).
THEOREM BooksArePersisted == Spec => []BookIsPersisted
<1>1. BInv /\ user = "paper" => BookIsLastSeen
  BY Zenon DEF BInv, BookIsLastSeen, BookSound, Now
<1>2. BInv /\ user = "paper" => LinesFollow
  BY Zenon DEF BInv, LinesFollow, LedgerSound, SeenBefore
<1>3. BInv => BookIsPersisted
  BY <1>1, <1>2 DEF BookIsPersisted
<1> QED  BY <1>3, BookInvariance, PTL

-----------------------------------------------------------------------------
(* A rebalance that is taken over *)

\* A rebalance that is taken over has the book that was constructed with the rows it
\* used.
LEMMA TakenIsConstrained ==
    ASSUME BInv, Next, Rebalanced
    PROVE  \E used : \E shown \in Shown :
              /\ \A a \in Assets :
                    /\ meta'[a] = IF shown[a] = NoRow THEN meta[a] ELSE shown[a]
                    /\ used[a] = IF positions[a] = Zero THEN shown[a] ELSE meta'[a]
              /\ \E desired \in [Assets -> Wishes] :
                    positions' = Constrained(desired, used, positions, Limits, equity)
<1>1. Len(ledger') > Len(ledger) /\ ledger'[Len(ledger')].kind = "rebalance"
      /\ positions' # positions
  BY DEF Rebalanced
<1>2. ledger' # ledger
  <2>1. Len(ledger) \in Nat
    BY DEF BInv, Lines
  <2> QED  BY <1>1, <2>1
<1>3. ~PaperIntents /\ ~Enter /\ ~Exit
  BY <1>1, <1>2 DEF PaperIntents, Enter, Exit, Refuse, book
<1>4. ASSUME NEW e, NEW weights, NEW rows, Persist(e, weights, rows)
      PROVE  Applied(e, weights, rows) /\ e.kind = "rebalance"
  <2>1. ~(UNCHANGED book)
    BY <1>1 DEF book
  <2>2. Written(e, weights) /\ Applied(e, weights, rows)
    BY <1>4, <2>1 DEF Persist
  <2>3. ledger'[Len(ledger) + 1] = e /\ Len(ledger') = Len(ledger) + 1
    BY <2>2, LineMore DEF BInv
  <2> QED  BY <1>1, <2>2, <2>3
<1>5. ~MarkToMarket
  <2> SUFFICES ASSUME MarkToMarket PROVE FALSE
    OBVIOUS
  <2>1. PICK t \in 0..MaxTime, move \in [Assets -> Returns] :
          LET gross == Total([a \in Assets |-> Times(positions[a], move[a])])
          IN  IF t < last THEN Refuse("out_of_order")
              ELSE Persist(MarkEvent(t, gross), Drift(positions, move), meta)
    BY DEF MarkToMarket
  <2> DEFINE e == MarkEvent(t, Total([a \in Assets |-> Times(positions[a], move[a])]))
             weights == Drift(positions, move)
  <2>2. Refuse("out_of_order") \/ Persist(e, weights, meta)
    BY <2>1, Zenon
  <2>3. e.kind = "mark"
    BY DEF MarkEvent
  <2> HIDE DEF e, weights
  <2> QED  BY <1>2, <1>4, <2>2, <2>3 DEF Refuse
<1>6. PICK t \in 0..MaxTime, desired \in [Assets -> Wishes], shown \in Shown :
        LET rows == [a \in Assets |-> IF shown[a] = NoRow THEN meta[a] ELSE shown[a]]
            used == [a \in Assets |-> IF positions[a] = Zero THEN shown[a] ELSE rows[a]]
            weights == Constrained(desired, used, positions, Limits, equity)
            cost == Times(CostRate, Distance(weights, positions))
        IN  IF t < last THEN Refuse("out_of_order")
            ELSE IF ~Reachable(weights, used, positions, Limits, equity) THEN Refuse("refused")
            ELSE Persist(RebalanceEvent(t, weights, cost), weights, rows)
  BY <1>3, <1>5 DEF Next, Rebalance
<1> DEFINE rows == [a \in Assets |-> IF shown[a] = NoRow THEN meta[a] ELSE shown[a]]
           used == [a \in Assets |-> IF positions[a] = Zero THEN shown[a] ELSE rows[a]]
           weights == Constrained(desired, used, positions, Limits, equity)
           e == RebalanceEvent(t, weights, Times(CostRate, Distance(weights, positions)))
<1>7. ~Refuse("out_of_order") /\ ~Refuse("refused")
  BY <1>2 DEF Refuse
<1>8. Persist(e, weights, rows)
  BY <1>6, <1>7, Zenon
<1>9. positions' = weights /\ meta' = rows
  <2> HIDE DEF e, rows, weights
  <2> QED  BY <1>4, <1>8 DEF Applied
<1>10. \A a \in Assets :
          /\ meta'[a] = IF shown[a] = NoRow THEN meta[a] ELSE shown[a]
          /\ used[a] = IF positions[a] = Zero THEN shown[a] ELSE meta'[a]
  BY <1>9
<1>11. \E d \in [Assets -> Wishes] :
          positions' = Constrained(d, used, positions, Limits, equity)
  <2> HIDE DEF used
  <2> QED  BY <1>9
<1> HIDE DEF used
<1> QED  BY <1>10, <1>11, Zenon

-----------------------------------------------------------------------------
(* The greatest common divisor that brings a fraction to its lowest terms *)

IsGcd(g) ==
    g = [p \in Nat \X Nat |-> IF p[2] = 0 THEN p[1] ELSE g[<<p[2], p[1] % p[2]>>]]
Gcd == CHOOSE g : IsGcd(g)

\* The fraction is divided by what Euclid's recursion finds.
LEMMA FractionIs ==
    ASSUME NEW n, NEW d
    PROVE  LET c == Gcd[<<IF n < 0 THEN -n ELSE n, d>>] IN Fraction(n, d) = <<n \div c, d \div c>>
BY Zenon DEF Fraction, Gcd, IsGcd

Multiples(c) == {c * p : p \in Int}
Divisors(a, b) == {c \in Nat : a \in Multiples(c) /\ b \in Multiples(c)}

\* Two numbers have the divisors of the second and the remainder.
LEMMA DivisorsStay ==
    ASSUME NEW a \in Nat, NEW b \in Nat, b # 0
    PROVE  a % b \in Nat /\ a % b < b /\ Divisors(a, b) = Divisors(b, a % b)
<1>1. PICK t, r : t = a \div b /\ r = a % b
  OBVIOUS
<1>2. t \in Int /\ r \in Nat /\ r < b /\ a = b * t + r
  BY <1>1
<1>3. ASSUME NEW c \in Nat, NEW p \in Int, NEW q \in Int, a = c * p, b = c * q
      PROVE  r \in Multiples(c)
  <2>1. p - q * t \in Int
    BY <1>2
  <2>2. c * (q * t) = (c * q) * t
    BY <1>2
  <2>3. c * (p - q * t) = c * p - c * (q * t)
    BY <1>2
  <2>4. r = c * (p - q * t)
    BY <1>2, <1>3, <2>2, <2>3
  <2> QED  BY <2>1, <2>4 DEF Multiples
<1>4. ASSUME NEW c \in Nat, NEW p \in Int, NEW q \in Int, r = c * p, b = c * q
      PROVE  a \in Multiples(c)
  <2>1. p + q * t \in Int
    BY <1>2
  <2>2. c * (q * t) = (c * q) * t
    BY <1>2
  <2>3. c * (p + q * t) = c * p + c * (q * t)
    BY <1>2
  <2>4. a = c * (p + q * t)
    BY <1>2, <1>4, <2>2, <2>3
  <2> QED  BY <2>1, <2>4 DEF Multiples
<1>5. Divisors(a, b) = Divisors(b, r)
  BY <1>3, <1>4 DEF Divisors, Multiples
<1> QED  BY <1>1, <1>2, <1>5

\* A number is known by its divisors.
LEMMA DivisorsDiffer ==
    ASSUME NEW a \in Nat, NEW b \in Nat, Divisors(a, 0) = Divisors(b, 0)
    PROVE  a = b
<1>1. \A c \in Nat : c \in Divisors(c, 0)
  <2>1. \A c \in Nat : c = c * 1 /\ 0 = c * 0
    OBVIOUS
  <2> QED  BY <2>1 DEF Divisors, Multiples
<1>2. PICK p \in Int : a = b * p
  BY <1>1 DEF Divisors, Multiples
<1>3. PICK q \in Int : b = a * q
  BY <1>1 DEF Divisors, Multiples
<1>4. CASE a = 0
  BY <1>3, <1>4
<1>5. CASE b = 0
  BY <1>2, <1>5
<1>6. CASE a # 0 /\ b # 0
  <2>1. p > 0 /\ q > 0
    <3>1. p <= 0 => b * p <= 0
      BY <1>6
    <3>2. q <= 0 => a * q <= 0
      BY <1>6
    <3> QED  BY <1>2, <1>3, <1>6, <3>1, <3>2
  <2>2. b * p >= b
    BY <1>6, <2>1
  <2>3. a * q >= a
    BY <1>6, <2>1
  <2> QED  BY <1>2, <1>3, <2>2, <2>3
<1> QED  BY <1>4, <1>5, <1>6

\* There is such a recursion.
LEMMA GcdThere == IsGcd(Gcd)
<1> DEFINE h == [p \in Nat \X Nat |-> CHOOSE c \in Nat : Divisors(c, 0) = Divisors(p[1], p[2])]
<1>1. ASSUME NEW a \in Nat, NEW b \in Nat
      PROVE  h[<<a, b>>] = IF b = 0 THEN a ELSE h[<<b, a % b>>]
  <2>1. h[<<a, b>>] = CHOOSE c \in Nat : Divisors(c, 0) = Divisors(a, b)
    OBVIOUS
  <2>2. CASE b = 0
    <3>1. \A c \in Nat : Divisors(c, 0) = Divisors(a, b) => c = a
      BY <2>2, DivisorsDiffer
    <3> HIDE DEF h
    <3> QED  BY <2>1, <2>2, <3>1
  <2>3. CASE b # 0
    <3>1. a % b \in Nat /\ Divisors(a, b) = Divisors(b, a % b)
      BY <2>3, DivisorsStay
    <3>2. PICK r : r = a % b
      OBVIOUS
    <3>3. h[<<b, r>>] = CHOOSE c \in Nat : Divisors(c, 0) = Divisors(b, r)
      BY <3>1, <3>2
    <3> HIDE DEF h
    <3> QED  BY <2>1, <2>3, <3>1, <3>2, <3>3
  <2> QED  BY <2>2, <2>3
<1>2. IsGcd(h)
  <2>1. ASSUME NEW p \in Nat \X Nat
        PROVE  h[p] = IF p[2] = 0 THEN p[1] ELSE h[<<p[2], p[1] % p[2]>>]
    <3>1. p = <<p[1], p[2]>> /\ p[1] \in Nat /\ p[2] \in Nat
      OBVIOUS
    <3> HIDE DEF h
    <3> QED  BY <1>1, <3>1
  <2> QED  BY <2>1 DEF IsGcd
<1> QED  BY <1>2, Zenon DEF Gcd

\* What it finds divides both numbers.
LEMMA GcdDivides ==
    ASSUME NEW a \in Nat, NEW b \in Nat, a > 0 \/ b > 0
    PROVE  Gcd[<<a, b>>] \in Divisors(a, b) /\ Gcd[<<a, b>>] > 0
<1> DEFINE Good(m, n) == Gcd[<<m, n>>] \in Divisors(m, n) /\ Gcd[<<m, n>>] > 0
           Bad == {n \in Nat : \E m \in Nat : (m > 0 \/ n > 0) /\ ~Good(m, n)}
<1>1. SUFFICES ASSUME Bad # {} PROVE FALSE
  OBVIOUS
<1>2. PICK n \in Bad : \A j \in Bad : n <= j
  <2> HIDE DEF Good
  <2>1. Bad \in SUBSET Nat
    OBVIOUS
  <2> HIDE DEF Bad
  <2> QED  BY <1>1, <2>1, FirstOf
<1>3. PICK m \in Nat : (m > 0 \/ n > 0) /\ ~Good(m, n)
  OBVIOUS
<1>4. n \in Nat
  OBVIOUS
<1>5. Gcd[<<m, n>>] = IF n = 0 THEN m ELSE Gcd[<<n, m % n>>]
  <2>1. <<m, n>> \in Nat \X Nat /\ <<m, n>>[1] = m /\ <<m, n>>[2] = n
    BY <1>3, <1>4
  <2>2. \A p \in Nat \X Nat : Gcd[p] = IF p[2] = 0 THEN p[1] ELSE Gcd[<<p[2], p[1] % p[2]>>]
    BY GcdThere, Zenon DEF IsGcd
  <2>3. Gcd[<<m, n>>] = IF <<m, n>>[2] = 0 THEN <<m, n>>[1]
                        ELSE Gcd[<<<<m, n>>[2], <<m, n>>[1] % <<m, n>>[2]>>]
    BY <2>1, <2>2, Zenon
  <2> HIDE DEF Good, Bad
  <2> QED  BY <2>1, <2>3, Zenon
<1>6. CASE n = 0
  <2>1. m = m * 1 /\ n = m * 0
    BY <1>3, <1>6
  <2>2. m \in Divisors(m, n)
    <3> HIDE DEF Good, Bad
    <3>1. m \in Multiples(m) /\ n \in Multiples(m)
      BY <1>3, <2>1 DEF Multiples
    <3> QED  BY <1>3, <3>1 DEF Divisors
  <2> QED  BY <1>3, <1>5, <1>6, <2>2
<1>7. CASE n # 0
  <2>1. m % n \in Nat /\ m % n < n /\ Divisors(m, n) = Divisors(n, m % n)
    BY <1>3, <1>4, <1>7, DivisorsStay
  <2>2. PICK r : r = m % n
    OBVIOUS
  <2>3. Good(n, r)
    <3>1. r \notin Bad /\ r \in Nat /\ n > 0
      BY <1>2, <1>4, <1>7, <2>1, <2>2
    <3> HIDE DEF Good
    <3> QED  BY <1>4, <3>1
  <2>4. Good(m, n)
    BY <1>5, <1>7, <2>1, <2>2, <2>3
  <2> HIDE DEF Good
  <2> QED  BY <1>3, <2>4
<1> QED  BY <1>6, <1>7

\* What was multiplied is divided again.
LEMMA Quotient ==
    ASSUME NEW c \in Nat, c > 0, NEW q \in Int
    PROVE  (c * q) \div c = q
<1>1. PICK n : n = c * q
  OBVIOUS
<1>2. PICK t : t = n \div c
  OBVIOUS
<1>3. n \in Int /\ t \in Int /\ c * t <= n /\ n < c * t + c
  BY <1>1, <1>2
<1>4. c * (q - t) = c * q - c * t
  BY <1>3
<1>5. c * (q - t) >= 0 /\ c * (q - t) < c
  BY <1>1, <1>3, <1>4
<1>6. q - t = 0
  <2>1. q - t >= 1 => c * (q - t) >= c
    BY <1>3
  <2>2. q - t <= -1 => c * (q - t) < 0
    BY <1>3
  <2> QED  BY <1>3, <1>5, <2>1, <2>2
<1> QED  BY <1>1, <1>2, <1>3, <1>6

\* A fraction in its lowest terms has the value it had.
LEMMA FractionValue ==
    ASSUME NEW n \in Int, NEW d \in Nat \ {0}
    PROVE  Fraction(n, d) \in Fractions /\ Fraction(n, d)[1] * d = n * Fraction(n, d)[2]
<1>1. PICK m : m = IF n < 0 THEN -n ELSE n
  OBVIOUS
<1>2. PICK c : c = Gcd[<<m, d>>]
  OBVIOUS
<1>3. m \in Nat /\ d \in Nat /\ d > 0
  BY <1>1
<1>4. c \in Nat /\ c > 0 /\ c \in Divisors(m, d)
  BY <1>2, <1>3, GcdDivides DEF Divisors
<1>5. PICK p \in Int, q \in Int : m = c * p /\ d = c * q
  BY <1>4 DEF Divisors, Multiples
<1>6. PICK k \in Int : n = c * k
  <2>1. CASE n < 0
    <3>1. -m = c * (-p)
      BY <1>3, <1>4, <1>5
    <3> QED  BY <1>1, <2>1, <3>1
  <2>2. CASE ~(n < 0)
    BY <1>1, <1>5, <2>2
  <2> QED  BY <2>1, <2>2
<1>7. Fraction(n, d) = <<k, q>>
  <2>1. Fraction(n, d) = <<n \div c, d \div c>>
    BY <1>1, <1>2, FractionIs, Zenon
  <2> QED  BY <1>4, <1>5, <1>6, <2>1, Quotient
<1>8. q > 0
  <2>1. q <= 0 => c * q <= 0
    BY <1>4
  <2> QED  BY <1>3, <1>5, <2>1
<1>9. k * d = n * q
  <2>1. k * (c * q) = (c * k) * q
    BY <1>4
  <2> QED  BY <1>5, <1>6, <2>1
<1>10. k = 0 => q = 1
  <2>1. SUFFICES ASSUME k = 0 PROVE q = 1
    OBVIOUS
  <2>2. n = 0 /\ m = 0
    BY <1>1, <1>4, <1>6, <2>1
  <2>3. \A r \in Nat \X Nat : Gcd[r] = IF r[2] = 0 THEN r[1] ELSE Gcd[<<r[2], r[1] % r[2]>>]
    BY GcdThere, Zenon DEF IsGcd
  <2>4. Gcd[<<0, d>>] = Gcd[<<d, 0 % d>>] /\ 0 % d = 0
    BY <2>3, <1>3
  <2>5. Gcd[<<d, 0>>] = d
    BY <2>3, <1>3
  <2>6. c = d
    BY <1>2, <2>2, <2>4, <2>5
  <2>7. c * q = c * 1
    BY <1>4, <1>5, <2>6
  <2>8. (c * q) \div c = 1
    BY <1>4, <2>7, Quotient
  <2> QED  BY <1>4, <2>8, Quotient
<1> QED  BY <1>7, <1>8, <1>9, <1>10 DEF Fractions

-----------------------------------------------------------------------------
(* Fractions compared and added by what they are over a common denominator *)

AtMost(x, y) == ~Less(y, x)
\* x is n over d.
Is(x, n, d) == x \in Fractions /\ x[1] * d = n * x[2]

\* A positive factor on both sides may be left out.
LEMMA Cancel ==
    ASSUME NEW a \in Int, NEW b \in Int, NEW c \in Nat, c > 0
    PROVE  (a * c <= b * c <=> a <= b) /\ (a * c = b * c <=> a = b)
<1>1. a < b => a * c < b * c
  <2>1. SUFFICES ASSUME a < b PROVE a * c < b * c
    OBVIOUS
  <2>2. (b - a) * c > 0
    BY <2>1
  <2> QED  BY <2>2
<1>2. b < a => b * c < a * c
  <2>1. SUFFICES ASSUME b < a PROVE b * c < a * c
    OBVIOUS
  <2>2. (a - b) * c > 0
    BY <2>1
  <2> QED  BY <2>2
<1>3. a * c \in Int /\ b * c \in Int
  OBVIOUS
<1>4. PICK p, q : p = a * c /\ q = b * c
  OBVIOUS
<1> QED  BY <1>1, <1>2, <1>3, <1>4

\* A fraction is a numerator over a positive denominator.
LEMMA Parts ==
    ASSUME NEW x \in Fractions
    PROVE  x[1] \in Int /\ x[2] \in Nat /\ x[2] > 0 /\ x = <<x[1], x[2]>> /\ (x[1] = 0 => x = Zero)
BY DEF Fractions, Zero

\* A fraction is its numerator over its denominator,
LEMMA IsItself == ASSUME NEW x \in Fractions PROVE Is(x, x[1], x[2])
BY DEF Is

\* and a multiple of both over the same multiple.
LEMMA IsExpanded ==
    ASSUME NEW x, NEW n \in Int, NEW d \in Nat, NEW k \in Nat, Is(x, n, d)
    PROVE  Is(x, n * k, d * k)
<1>1. x[1] \in Int /\ x[2] \in Nat
  BY Parts DEF Is
<1>2. x[1] * (d * k) = (x[1] * d) * k /\ (n * k) * x[2] = (n * x[2]) * k
  BY <1>1
<1> QED  BY <1>2 DEF Is

\* A common factor may be cancelled.
LEMMA IsReduced ==
    ASSUME NEW x, NEW n \in Int, NEW d \in Nat, NEW k \in Nat, k > 0, Is(x, n * k, d * k)
    PROVE  Is(x, n, d)
<1>1. x[1] \in Int /\ x[2] \in Nat
  BY Parts DEF Is
<1>2. x[1] * (d * k) = (x[1] * d) * k /\ (n * k) * x[2] = (n * x[2]) * k
  BY <1>1
<1>3. x[1] * d \in Int /\ n * x[2] \in Int
  BY <1>1
<1>4. (x[1] * d) * k = (n * x[2]) * k
  BY <1>2 DEF Is
<1>5. x[1] * d = n * x[2]
  BY <1>3, <1>4, Cancel
<1> QED  BY <1>5 DEF Is

\* Over a common denominator fractions compare as their numerators.
LEMMA IsCompared ==
    ASSUME NEW x, NEW y, NEW n \in Int, NEW m \in Int, NEW d \in Nat, d > 0,
           Is(x, n, d), Is(y, m, d)
    PROVE  AtMost(x, y) <=> n <= m
<1>1. PICK a, b, c, e : a = x[1] /\ b = x[2] /\ c = y[1] /\ e = y[2]
  OBVIOUS
<1>2. a \in Int /\ b \in Nat /\ b > 0 /\ c \in Int /\ e \in Nat /\ e > 0
  BY <1>1, Parts DEF Is
<1>3. a * d = n * b /\ c * d = m * e
  BY <1>1 DEF Is
<1>4. (a * e) * d = n * (b * e) /\ (c * b) * d = m * (b * e)
  <2>1. (a * e) * d = (a * d) * e /\ n * (b * e) = (n * b) * e
    BY <1>2
  <2>2. (c * b) * d = (c * d) * b /\ m * (b * e) = (m * e) * b
    BY <1>2
  <2> QED  BY <1>3, <2>1, <2>2
<1>5. b * e \in Nat /\ b * e > 0 /\ a * e \in Int /\ c * b \in Int
  BY <1>2
<1>6. a * e <= c * b <=> (a * e) * d <= (c * b) * d
  BY <1>5, Cancel
<1>7. n <= m <=> n * (b * e) <= m * (b * e)
  BY <1>5, Cancel
<1>8. a * e <= c * b <=> n <= m
  BY <1>4, <1>6, <1>7
<1>9. AtMost(x, y) <=> ~(c * b < a * e)
  BY <1>1 DEF AtMost, Less
<1> QED  BY <1>5, <1>8, <1>9

\* Fraction keeps the value.
LEMMA IsFraction ==
    ASSUME NEW n \in Int, NEW d \in Nat, d > 0
    PROVE  Is(Fraction(n, d), n, d)
BY FractionValue DEF Is

\* Over a common denominator a sum has the sum of the numerators.
LEMMA IsPlus ==
    ASSUME NEW x, NEW y, NEW n \in Int, NEW m \in Int, NEW d \in Nat, d > 0, Is(x, n, d), Is(y, m, d)
    PROVE  Is(Plus(x, y), n + m, d)
<1>1. PICK a, b, c, e : a = x[1] /\ b = x[2] /\ c = y[1] /\ e = y[2]
  OBVIOUS
<1>2. a \in Int /\ b \in Nat /\ b > 0 /\ c \in Int /\ e \in Nat /\ e > 0
  BY <1>1, Parts DEF Is
<1>3. a * d = n * b /\ c * d = m * e
  BY <1>1 DEF Is
<1>4. b * e \in Nat /\ b * e > 0 /\ a * e + c * b \in Int
  BY <1>2
<1>5. Is(Plus(x, y), a * e + c * b, b * e)
  BY <1>1, <1>4, IsFraction DEF Plus
<1>6. Is(Plus(x, y), (a * e + c * b) * d, (b * e) * d)
  BY <1>4, <1>5, IsExpanded
<1>7. (a * e + c * b) * d = (n + m) * (b * e)
  <2>1. (a * e + c * b) * d = (a * d) * e + (c * d) * b
    BY <1>2
  <2>2. (n + m) * (b * e) = (n * b) * e + (m * e) * b
    BY <1>2
  <2> QED  BY <1>3, <2>1, <2>2
<1>8. (b * e) * d = d * (b * e)
  BY <1>2
<1>9. Is(Plus(x, y), (n + m) * (b * e), d * (b * e))
  BY <1>6, <1>7, <1>8
<1> QED  BY <1>4, <1>9, IsReduced

\* A negative has the negative numerator.
LEMMA IsNegative ==
    ASSUME NEW x, NEW n \in Int, NEW d \in Nat, Is(x, n, d)
    PROVE  Is(Negative(x), -n, d)
<1>1. x[1] \in Int /\ x[2] \in Nat /\ x[2] > 0 /\ (x[1] = 0 => x[2] = 1)
  BY DEF Is, Fractions
<1>2. Negative(x) = <<-x[1], x[2]>> /\ -x[1] \in Int /\ (-x[1] = 0 => x[2] = 1)
  BY <1>1 DEF Negative
<1>3. Negative(x) \in Fractions
  BY <1>1, <1>2 DEF Fractions
<1>4. (-x[1]) * d = -(x[1] * d) /\ (-n) * x[2] = -(n * x[2])
  BY <1>1
<1> QED  BY <1>2, <1>3, <1>4 DEF Is

\* A product has the products of the numerators and of the denominators.
LEMMA IsTimes ==
    ASSUME NEW x, NEW y, NEW n \in Int, NEW m \in Int, NEW d \in Nat, d > 0,
           NEW f \in Nat, f > 0, Is(x, n, d), Is(y, m, f)
    PROVE  Is(Times(x, y), n * m, d * f)
<1>1. PICK a, b, c, e : a = x[1] /\ b = x[2] /\ c = y[1] /\ e = y[2]
  OBVIOUS
<1>2. a \in Int /\ b \in Nat /\ b > 0 /\ c \in Int /\ e \in Nat /\ e > 0
  BY <1>1, Parts DEF Is
<1>3. a * d = n * b /\ c * f = m * e
  BY <1>1 DEF Is
<1>4. b * e \in Nat /\ b * e > 0 /\ a * c \in Int
  BY <1>2
<1>5. d * f \in Nat /\ d * f > 0 /\ n * m \in Int
  OBVIOUS
<1>6. Is(Times(x, y), a * c, b * e)
  BY <1>1, <1>4, IsFraction DEF Times
<1>7. Is(Times(x, y), (a * c) * (d * f), (b * e) * (d * f))
  BY <1>4, <1>5, <1>6, IsExpanded
<1>8. (a * c) * (d * f) = (n * m) * (b * e)
  <2>1. (a * c) * (d * f) = (a * d) * (c * f)
    BY <1>2
  <2>2. (n * m) * (b * e) = (n * b) * (m * e)
    BY <1>2
  <2> QED  BY <1>3, <2>1, <2>2
<1>9. (b * e) * (d * f) = (d * f) * (b * e)
  BY <1>4, <1>5
<1> QED  BY <1>4, <1>5, <1>7, <1>8, <1>9, IsReduced

\* Over a common denominator a quotient is that of the numerators.
LEMMA IsOver ==
    ASSUME NEW x, NEW y, NEW n \in Int, NEW m \in Nat, m > 0, NEW d \in Nat, d > 0,
           Is(x, n, d), Is(y, m, d)
    PROVE  Is(Over(x, y), n, m)
<1>1. PICK a, b, c, e : a = x[1] /\ b = x[2] /\ c = y[1] /\ e = y[2]
  OBVIOUS
<1>2. a \in Int /\ b \in Nat /\ b > 0 /\ c \in Int /\ e \in Nat /\ e > 0
  BY <1>1, Parts DEF Is
<1>3. a * d = n * b /\ c * d = m * e
  BY <1>1 DEF Is
<1>4. c > 0
  <2>1. m * e > 0
    BY <1>2
  <2>2. c <= 0 => c * d <= 0
    BY <1>2
  <2> QED  BY <1>2, <1>3, <2>1, <2>2
<1>5. b * c \in Nat /\ b * c > 0 /\ a * e \in Int
  BY <1>2, <1>4
<1>6. Is(Over(x, y), a * e, b * c)
  BY <1>1, <1>5, IsFraction DEF Over
<1>7. PICK k : k = d * m
  OBVIOUS
<1>8. k \in Nat /\ k > 0
  BY <1>7
<1>9. Is(Over(x, y), (a * e) * k, (b * c) * k)
  BY <1>5, <1>6, <1>8, IsExpanded
<1>10. PICK j : j = b * (c * d)
  OBVIOUS
<1>11. j \in Nat /\ j > 0
  <2>1. c * d \in Nat /\ c * d > 0
    BY <1>2, <1>4
  <2> QED  BY <1>2, <1>10, <2>1
<1>12. (a * e) * k = n * j
  <2>1. (a * e) * k = (a * d) * (m * e)
    BY <1>2, <1>7
  <2>2. n * j = (n * b) * (c * d)
    BY <1>2, <1>10
  <2> QED  BY <1>3, <2>1, <2>2
<1>13. (b * c) * k = m * j
  BY <1>2, <1>7, <1>10
<1> QED  BY <1>8, <1>9, <1>11, <1>12, <1>13, IsReduced

\* Zero and one over any denominator.
LEMMA IsNumber == ASSUME NEW d \in Nat, d > 0 PROVE Is(Zero, 0, d) /\ Is(One, d, d)
BY DEF Is, Zero, One, Fractions

\* Over a common denominator a difference has that of the numerators.
LEMMA IsMinus ==
    ASSUME NEW x, NEW y, NEW n \in Int, NEW m \in Int, NEW d \in Nat, d > 0, Is(x, n, d), Is(y, m, d)
    PROVE  Is(Minus(x, y), n - m, d)
<1>1. Is(Negative(y), -m, d) /\ -m \in Int
  BY IsNegative
<1>2. Is(Plus(x, Negative(y)), n + (-m), d)
  BY <1>1, IsPlus
<1>3. n + (-m) = n - m
  OBVIOUS
<1> QED  BY <1>2, <1>3 DEF Minus

\* A size has the size of the numerator.
LEMMA IsSize ==
    ASSUME NEW x, NEW n \in Int, NEW d \in Nat, d > 0, Is(x, n, d)
    PROVE  Is(Size(x), IF n < 0 THEN -n ELSE n, d)
<1>1. x[1] \in Int /\ x[2] \in Nat /\ x[2] > 0 /\ x[1] * d = n * x[2]
  BY DEF Is, Fractions
<1>2. x[1] < 0 <=> n < 0
  <2>1. x[1] < 0 => x[1] * d < 0
    BY <1>1
  <2>2. ~(x[1] < 0) => x[1] * d >= 0
    BY <1>1
  <2>3. n < 0 => n * x[2] < 0
    BY <1>1
  <2>4. ~(n < 0) => n * x[2] >= 0
    BY <1>1
  <2>5. PICK p, q : p = x[1] * d /\ q = n * x[2]
    OBVIOUS
  <2>6. p \in Int /\ p = q
    BY <1>1, <2>5
  <2> QED  BY <2>1, <2>2, <2>3, <2>4, <2>5, <2>6
<1>3. Is(Negative(x), -n, d)
  BY IsNegative
<1> QED  BY <1>2, <1>3 DEF Size

\* Any four fractions have a common denominator.
LEMMA Common ==
    ASSUME NEW x \in Fractions, NEW y \in Fractions
    PROVE  \E d \in Nat : d > 0 /\ \E n \in Int, m \in Int : Is(x, n, d) /\ Is(y, m, d)
<1>1. x[1] \in Int /\ x[2] \in Nat /\ x[2] > 0 /\ y[1] \in Int /\ y[2] \in Nat /\ y[2] > 0
  BY Parts
<1>2. Is(x, x[1] * y[2], x[2] * y[2]) /\ Is(y, y[1] * x[2], y[2] * x[2])
  BY <1>1, IsItself, IsExpanded
<1>3. y[2] * x[2] = x[2] * y[2] /\ x[2] * y[2] \in Nat /\ x[2] * y[2] > 0
      /\ x[1] * y[2] \in Int /\ y[1] * x[2] \in Int
  BY <1>1
<1>4. PICK d, n, m : d = x[2] * y[2] /\ n = x[1] * y[2] /\ m = y[1] * x[2]
  OBVIOUS
<1>5. Is(x, n, d) /\ Is(y, m, d) /\ d \in Nat /\ d > 0 /\ n \in Int /\ m \in Int
  BY <1>2, <1>3, <1>4
<1> QED  BY <1>5

\* Any four fractions have a common denominator.
LEMMA CommonFour ==
    ASSUME NEW x \in Fractions, NEW y \in Fractions, NEW z \in Fractions, NEW w \in Fractions
    PROVE  \E d \in Nat : d > 0 /\ \E n \in Int, m \in Int, p \in Int, q \in Int :
              Is(x, n, d) /\ Is(y, m, d) /\ Is(z, p, d) /\ Is(w, q, d)
<1>1. PICK d \in Nat : d > 0 /\ \E n \in Int, m \in Int : Is(x, n, d) /\ Is(y, m, d)
  BY Common
<1>2. PICK n \in Int, m \in Int : Is(x, n, d) /\ Is(y, m, d)
  BY <1>1
<1>3. PICK e \in Nat : e > 0 /\ \E p \in Int, q \in Int : Is(z, p, e) /\ Is(w, q, e)
  BY Common
<1>4. PICK p \in Int, q \in Int : Is(z, p, e) /\ Is(w, q, e)
  BY <1>3
<1>5. Is(x, n * e, d * e) /\ Is(y, m * e, d * e) /\ Is(z, p * d, e * d) /\ Is(w, q * d, e * d)
  BY <1>2, <1>4, IsExpanded
<1>6. d * e = e * d /\ d * e \in Nat /\ d * e > 0
  BY <1>1, <1>3
<1>7. n * e \in Int /\ m * e \in Int /\ p * d \in Int /\ q * d \in Int
  OBVIOUS
<1> QED  BY <1>5, <1>6, <1>7, Zenon

-----------------------------------------------------------------------------
(* What the limits do to a number *)

Unit == {k \in Fractions : AtMost(Zero, k) /\ AtMost(k, One)}
\* v lies between nothing and w.
Shrunk(v, w) ==
    \/ AtMost(Zero, v) /\ AtMost(v, w)
    \/ AtMost(w, v) /\ AtMost(v, Zero)

\* Zero and one are amounts and factors.
LEMMA Numbers == Zero \in Amounts /\ One \in Amounts /\ Zero \in Unit /\ One \in Unit /\ One # Zero
<1>1. Is(Zero, 0, 1) /\ Is(One, 1, 1)
  BY IsNumber
<1>2. AtMost(Zero, Zero) /\ AtMost(Zero, One) /\ AtMost(One, One)
  BY <1>1, IsCompared
<1>3. Zero \in Fractions /\ One \in Fractions /\ Zero # One
  BY DEF Zero, One, Fractions
<1> QED  BY <1>2, <1>3 DEF Amounts, AtMost, Unit

\* Nothing has one form.
LEMMA IsZero == ASSUME NEW x, NEW d \in Nat, d > 0, Is(x, 0, d) PROVE x = Zero
<1>1. x \in Fractions /\ x[1] \in Int /\ x[2] \in Nat /\ x[1] * d = 0 * x[2]
  BY Parts DEF Is
<1>2. x[1] * d = 0
  BY <1>1
<1>3. x[1] > 0 => x[1] * d > 0
  BY <1>1
<1>4. x[1] < 0 => x[1] * d < 0
  <2>1. PICK a : a = x[1]
    OBVIOUS
  <2>2. a < 0 => (-a) * d > 0 /\ a * d = -((-a) * d)
    BY <1>1, <2>1
  <2> QED  BY <1>1, <2>1, <2>2
<1> QED  BY <1>1, <1>2, <1>3, <1>4, Parts

\* The operations give fractions.
LEMMA Typed ==
    ASSUME NEW x \in Fractions, NEW y \in Fractions
    PROVE  /\ Plus(x, y) \in Fractions /\ Minus(x, y) \in Fractions /\ Times(x, y) \in Fractions
           /\ Negative(x) \in Fractions /\ Size(x) \in Fractions
           /\ Least(x, y) \in Fractions /\ Greatest(x, y) \in Fractions
<1>1. PICK d \in Nat : d > 0 /\ \E n \in Int, m \in Int : Is(x, n, d) /\ Is(y, m, d)
  BY Common
<1>2. PICK n \in Int, m \in Int : Is(x, n, d) /\ Is(y, m, d)
  BY <1>1
<1>3. Is(Plus(x, y), n + m, d) /\ Is(Minus(x, y), n - m, d) /\ Is(Times(x, y), n * m, d * d)
      /\ Is(Negative(x), -n, d) /\ Is(Size(x), IF n < 0 THEN -n ELSE n, d)
  BY <1>1, <1>2, IsPlus, IsMinus, IsTimes, IsNegative, IsSize
<1> QED  BY <1>3 DEF Is, Least, Greatest

\* The order is one.
LEMMA Ordered ==
    ASSUME NEW x \in Fractions, NEW y \in Fractions, NEW z \in Fractions
    PROVE  /\ AtMost(x, x) /\ (AtMost(x, y) \/ AtMost(y, x)) /\ (Less(x, y) => AtMost(x, y))
           /\ (AtMost(x, y) /\ AtMost(y, z) => AtMost(x, z))
           /\ (AtMost(x, y) /\ Less(y, z) => Less(x, z)) /\ (Less(x, y) /\ AtMost(y, z) => Less(x, z))
<1>1. PICK d \in Nat : d > 0 /\ \E n \in Int, m \in Int, p \in Int, q \in Int :
          Is(x, n, d) /\ Is(y, m, d) /\ Is(z, p, d) /\ Is(z, q, d)
  BY CommonFour
<1>2. PICK n \in Int, m \in Int, p \in Int : Is(x, n, d) /\ Is(y, m, d) /\ Is(z, p, d)
  BY <1>1
<1>3. (AtMost(x, y) <=> n <= m) /\ (AtMost(y, x) <=> m <= n) /\ (AtMost(x, x) <=> n <= n)
      /\ (AtMost(y, z) <=> m <= p) /\ (AtMost(x, z) <=> n <= p)
      /\ (AtMost(z, y) <=> p <= m) /\ (AtMost(z, x) <=> p <= n)
  BY <1>1, <1>2, IsCompared
<1>4. (Less(x, y) <=> ~AtMost(y, x)) /\ (Less(y, z) <=> ~AtMost(z, y)) /\ (Less(x, z) <=> ~AtMost(z, x))
  BY DEF AtMost
<1> QED  BY <1>3, <1>4

\* One number is less than another exactly when the other is not at most it.
LEMMA LessIs == ASSUME NEW x, NEW y PROVE Less(x, y) <=> ~AtMost(y, x)
BY DEF AtMost

\* x and y over d, k over e, and what follows for x, y and their products with k.
WithFactor(x, y, k, d, e, n, m, r) ==
    /\ d > 0 /\ e > 0 /\ d * e \in Nat /\ d * e > 0
    /\ Is(x, n, d) /\ Is(y, m, d) /\ Is(k, r, e)
    /\ Is(x, n * e, d * e) /\ Is(y, m * e, d * e)
    /\ Is(Times(x, k), n * r, d * e) /\ Is(Times(y, k), m * r, d * e)
    /\ (AtMost(Zero, k) <=> 0 <= r) /\ (AtMost(k, One) <=> r <= e)
    /\ (AtMost(Zero, x) <=> 0 <= n) /\ (AtMost(x, Zero) <=> n <= 0)
    /\ (AtMost(x, y) <=> n <= m)

\* Two fractions and a factor over denominators of their own.
LEMMA FactorThere ==
    ASSUME NEW x \in Fractions, NEW y \in Fractions, NEW k \in Fractions
    PROVE  \E d \in Nat, e \in Nat, n \in Int, m \in Int, r \in Int :
              WithFactor(x, y, k, d, e, n, m, r)
<1>1. PICK d \in Nat : d > 0 /\ \E n \in Int, m \in Int : Is(x, n, d) /\ Is(y, m, d)
  BY Common
<1>2. PICK n \in Int, m \in Int : Is(x, n, d) /\ Is(y, m, d)
  BY <1>1
<1>3. PICK e, r : e = k[2] /\ r = k[1]
  OBVIOUS
<1>4. e \in Nat /\ e > 0 /\ r \in Int /\ Is(k, r, e)
  BY <1>3, Parts, IsItself
<1>5. d * e \in Nat /\ d * e > 0
  BY <1>1, <1>4
<1>6. Is(x, n * e, d * e) /\ Is(y, m * e, d * e)
  BY <1>2, <1>4, IsExpanded
<1>7. Is(Times(x, k), n * r, d * e) /\ Is(Times(y, k), m * r, d * e)
  BY <1>1, <1>2, <1>4, IsTimes
<1>8. Is(Zero, 0, e) /\ Is(One, e, e) /\ Is(Zero, 0, d)
  BY <1>1, <1>4, IsNumber
<1>9. (AtMost(Zero, k) <=> 0 <= r) /\ (AtMost(k, One) <=> r <= e)
      /\ (AtMost(Zero, x) <=> 0 <= n) /\ (AtMost(x, Zero) <=> n <= 0) /\ (AtMost(x, y) <=> n <= m)
  BY <1>1, <1>2, <1>4, <1>8, IsCompared
<1>10. WithFactor(x, y, k, d, e, n, m, r)
  BY <1>1, <1>2, <1>4, <1>5, <1>6, <1>7, <1>9, Zenon DEF WithFactor
<1> QED  BY <1>1, <1>2, <1>4, <1>10

\* A number that is scaled down keeps its side.
LEMMA ScaledDown ==
    ASSUME NEW w \in Fractions, NEW k \in Unit
    PROVE  /\ Times(w, k) \in Fractions /\ Shrunk(Times(w, k), w)
           /\ (w = Zero => Times(w, k) = Zero)
<1>0. PICK d \in Nat, e \in Nat, n \in Int, m \in Int, r \in Int : WithFactor(w, w, k, d, e, n, m, r)
  BY FactorThere DEF Unit
<1>1. /\ d > 0 /\ e > 0 /\ d * e \in Nat /\ d * e > 0
      /\ Is(w, n, d) /\ Is(w, n * e, d * e) /\ Is(Times(w, k), n * r, d * e)
      /\ (AtMost(Zero, k) <=> 0 <= r) /\ (AtMost(k, One) <=> r <= e)
  BY <1>0 DEF WithFactor
<1>2. 0 <= r /\ r <= e
  BY <1>1 DEF Unit
<1>3. n >= 0 => 0 <= n * r /\ n * r <= n * e
  <2>1. SUFFICES ASSUME n >= 0 PROVE 0 <= n * r /\ n * r <= n * e
    OBVIOUS
  <2>2. n * r >= 0 /\ n * (e - r) >= 0
    BY <1>2, <2>1
  <2>3. n * (e - r) = n * e - n * r
    OBVIOUS
  <2> QED  BY <2>2, <2>3
<1>4. n <= 0 => n * r <= 0 /\ n * e <= n * r
  <2>1. SUFFICES ASSUME n <= 0 PROVE n * r <= 0 /\ n * e <= n * r
    OBVIOUS
  <2>2. n * r <= 0 /\ n * (e - r) <= 0
    BY <1>2, <2>1
  <2>3. n * (e - r) = n * e - n * r
    OBVIOUS
  <2> QED  BY <2>2, <2>3
<1>5. Is(Zero, 0, d * e)
  BY <1>1, IsNumber
<1>6. n * r \in Int /\ n * e \in Int
  OBVIOUS
<1>7. /\ AtMost(Zero, Times(w, k)) <=> 0 <= n * r
      /\ AtMost(Times(w, k), Zero) <=> n * r <= 0
      /\ AtMost(w, Times(w, k)) <=> n * e <= n * r
      /\ AtMost(Times(w, k), w) <=> n * r <= n * e
  BY <1>1, <1>5, <1>6, IsCompared
<1>8. Shrunk(Times(w, k), w)
  <2>1. PICK s, u : s = n * r /\ u = n * e
    OBVIOUS
  <2>2. s \in Int /\ u \in Int
    BY <1>6, <2>1
  <2>3. /\ n >= 0 => 0 <= s /\ s <= u
        /\ n <= 0 => s <= 0 /\ u <= s
    BY <1>3, <1>4, <2>1
  <2>4. /\ 0 <= s /\ s <= u => AtMost(Zero, Times(w, k)) /\ AtMost(Times(w, k), w)
        /\ s <= 0 /\ u <= s => AtMost(w, Times(w, k)) /\ AtMost(Times(w, k), Zero)
    BY <1>7, <2>1
  <2>5. n >= 0 \/ n <= 0
    OBVIOUS
  <2>6. CASE n >= 0
    <3>1. AtMost(Zero, Times(w, k)) /\ AtMost(Times(w, k), w)
      BY <2>3, <2>4, <2>6
    <3> QED  BY <3>1 DEF Shrunk
  <2>7. CASE n <= 0
    <3>1. AtMost(w, Times(w, k)) /\ AtMost(Times(w, k), Zero)
      BY <2>3, <2>4, <2>7
    <3> QED  BY <3>1 DEF Shrunk
  <2> QED  BY <2>5, <2>6, <2>7
<1>9. w = Zero => Times(w, k) = Zero
  <2>1. SUFFICES ASSUME w = Zero PROVE Times(w, k) = Zero
    OBVIOUS
  <2>2. n * d = 0 * d /\ n = 0
    <3>1. w[1] = 0 /\ w[2] = 1
      BY <2>1 DEF Zero
    <3>2. 0 * d = n * 1
      BY <1>1, <3>1 DEF Is
    <3> QED  BY <3>2
  <2>3. Is(Times(w, k), 0, d * e)
    BY <1>1, <2>2
  <2> QED  BY <1>1, <2>3, IsZero
<1> QED  BY <1>1, <1>8, <1>9 DEF Is

\* A ratio scales what is over a limit down to it.
LEMMA RatioHolds ==
    ASSUME NEW o \in Fractions, NEW l \in Amounts
    PROVE  Ratio(o, l) \in Unit /\ AtMost(Times(o, Ratio(o, l)), l)
<1>1. PICK d \in Nat : d > 0 /\ \E n \in Int, m \in Int : Is(o, n, d) /\ Is(l, m, d)
  BY Common DEF Amounts, AtMost
<1>2. PICK n \in Int, m \in Int : Is(o, n, d) /\ Is(l, m, d)
  BY <1>1
<1>3. Is(Zero, 0, d)
  BY <1>1, IsNumber
<1>4. 0 <= m
  BY <1>1, <1>2, <1>3, IsCompared DEF Amounts, AtMost
<1>5. Less(l, o) <=> m < n
  BY <1>1, <1>2, IsCompared, LessIs
<1>6. CASE m < n
  <2>1. Ratio(o, l) = Over(l, o) /\ n \in Nat /\ n > 0
    BY <1>4, <1>5, <1>6 DEF Ratio
  <2>2. Is(Ratio(o, l), m, n)
    BY <1>1, <1>2, <2>1, IsOver
  <2>3. Is(Zero, 0, n) /\ Is(One, n, n)
    BY <2>1, IsNumber
  <2>4. Ratio(o, l) \in Unit
    <3>1. AtMost(Zero, Ratio(o, l)) /\ AtMost(Ratio(o, l), One)
      BY <1>4, <1>6, <2>1, <2>2, <2>3, IsCompared
    <3> QED  BY <2>2, <3>1 DEF Unit, Is
  <2>5. Is(Times(o, Ratio(o, l)), n * m, d * n)
    BY <1>1, <1>2, <2>1, <2>2, IsTimes
  <2>6. Is(l, m * n, d * n)
    BY <1>2, <2>1, IsExpanded
  <2>7. n * m = m * n /\ n * m \in Int /\ d * n \in Nat /\ d * n > 0
    BY <1>1, <2>1
  <2>8. AtMost(Times(o, Ratio(o, l)), l)
    BY <2>5, <2>6, <2>7, IsCompared
  <2> QED  BY <2>4, <2>8
<1>7. CASE ~(m < n)
  <2>1. Ratio(o, l) = One
    BY <1>5, <1>7 DEF Ratio
  <2>2. Is(One, 1, 1)
    BY IsNumber
  <2>3. Is(Times(o, One), n * 1, d * 1)
    BY <1>1, <1>2, <2>2, IsTimes
  <2>4. AtMost(Times(o, One), l)
    BY <1>1, <1>2, <1>7, <2>3, IsCompared
  <2> QED  BY <2>1, <2>4, Numbers
<1> QED  BY <1>6, <1>7

\* t lies between c and w.
Between(c, t, w) ==
    /\ AtMost(c, w) => AtMost(c, t) /\ AtMost(t, w)
    /\ AtMost(w, c) => AtMost(w, t) /\ AtMost(t, c)

\* Part of the way from one number to another lies between them.
LEMMA PartOfTheWay ==
    ASSUME NEW c \in Fractions, NEW w \in Fractions, NEW k \in Unit
    PROVE  /\ Plus(c, Times(Minus(w, c), k)) \in Fractions
           /\ Between(c, Plus(c, Times(Minus(w, c), k)), w)
<1> DEFINE t == Plus(c, Times(Minus(w, c), k))
<1>0. PICK d \in Nat, e \in Nat, n \in Int, m \in Int, r \in Int : WithFactor(c, w, k, d, e, n, m, r)
  BY FactorThere DEF Unit
<1>1.     /\ d > 0 /\ e > 0 /\ d * e \in Nat /\ d * e > 0
          /\ Is(c, n, d) /\ Is(w, m, d) /\ Is(k, r, e)
          /\ Is(c, n * e, d * e) /\ Is(w, m * e, d * e)
          /\ (AtMost(Zero, k) <=> 0 <= r) /\ (AtMost(k, One) <=> r <= e)
          /\ (AtMost(c, w) <=> n <= m)
  BY <1>0 DEF WithFactor
<1>2. 0 <= r /\ r <= e
  BY <1>1 DEF Unit
<1>3. Is(Minus(w, c), m - n, d)
  BY <1>1, IsMinus
<1>4. Is(Times(Minus(w, c), k), (m - n) * r, d * e)
  BY <1>1, <1>3, IsTimes
<1>5. Is(t, n * e + (m - n) * r, d * e)
  BY <1>1, <1>4, IsPlus
<1>6. PICK s, u : s = (m - n) * r /\ u = (m - n) * e
  OBVIOUS
<1>7. s \in Int /\ u \in Int /\ m * e = n * e + u
  BY <1>6
<1>8. /\ n <= m => 0 <= s /\ s <= u
      /\ m <= n => s <= 0 /\ u <= s
  <2>1. u - s = (m - n) * (e - r)
    BY <1>6
  <2>2. n <= m => s >= 0 /\ (m - n) * (e - r) >= 0
    BY <1>2, <1>6
  <2>3. m <= n => s <= 0 /\ (m - n) * (e - r) <= 0
    BY <1>2, <1>6
  <2> QED  BY <1>7, <2>1, <2>2, <2>3
<1>9. AtMost(w, c) <=> m <= n
  BY <1>1, IsCompared
<1>10. /\ AtMost(c, t) <=> n * e <= n * e + s
       /\ AtMost(t, w) <=> n * e + s <= m * e
       /\ AtMost(w, t) <=> m * e <= n * e + s
       /\ AtMost(t, c) <=> n * e + s <= n * e
  <2>1. Is(t, n * e + s, d * e) /\ n * e + s \in Int /\ n * e \in Int /\ m * e \in Int
    BY <1>5, <1>6, <1>7
  <2> HIDE DEF t
  <2> QED  BY <1>1, <2>1, IsCompared
<1>11. t \in Fractions
  BY <1>5 DEF Is
<1> HIDE DEF t
<1>12. PICK g : g = n * e
  OBVIOUS
<1>13. g \in Int
  BY <1>12
<1>14. /\ t \in Fractions
       /\ AtMost(c, w) => AtMost(c, t) /\ AtMost(t, w)
       /\ AtMost(w, c) => AtMost(w, t) /\ AtMost(t, c)
  BY <1>1, <1>7, <1>8, <1>9, <1>10, <1>11, <1>12, <1>13
<1> QED  BY <1>14 DEF t, Between

-----------------------------------------------------------------------------
(* Totals *)

AddsUp(f, iter, D) ==
    iter = [s \in D |-> IF s = {} THEN Zero
                        ELSE LET y == CHOOSE z \in s : TRUE IN Plus(f[y], iter[s \ {y}])]
Iter(f, S) == CHOOSE iter : AddsUp(f, iter, SUBSET S)

\* A total is the last of those that a function from subsets adds up.
LEMMA TotalIs == ASSUME NEW f PROVE Total(f) = Iter(f, DOMAIN f)[DOMAIN f]
BY Zenon DEF Total, Iter, AddsUp, FoldFunction, FoldFunctionOnSet, MapThenFoldSet

\* Of some subsets of a finite set, one has no smaller one among them.
LEMMA Smallest ==
    ASSUME NEW U, IsFiniteSet(U), NEW Bad \in SUBSET (SUBSET U), Bad # {}
    PROVE  \E V \in Bad : IsFiniteSet(V) /\ \A x \in V : V \ {x} \notin Bad
<1> DEFINE Sizes == {Cardinality(V) : V \in Bad}
<1>1. \A V \in SUBSET U : IsFiniteSet(V) /\ Cardinality(V) \in Nat
  BY FS_Subset, FS_CardinalityType
<1>2. Sizes \in SUBSET Nat /\ Sizes # {}
  BY <1>1
<1>3. PICK k \in Sizes : \A j \in Sizes : k <= j
  <2> HIDE DEF Sizes
  <2> QED  BY <1>2, FirstOf
<1>4. PICK V \in Bad : k = Cardinality(V)
  OBVIOUS
<1>5. ASSUME NEW x \in V, V \ {x} \in Bad PROVE FALSE
  <2>1. Cardinality(V \ {x}) = Cardinality(V) - 1 /\ Cardinality(V) \in Nat
        /\ Cardinality(V \ {x}) \in Nat
    BY <1>1, <1>5, FS_RemoveElement
  <2>2. PICK j : j = Cardinality(V \ {x})
    OBVIOUS
  <2>3. j \in Sizes /\ j \in Nat /\ k \in Nat /\ j < k
    BY <1>4, <1>5, <2>1, <2>2
  <2> HIDE DEF Sizes
  <2> QED  BY <1>3, <2>3
<1> QED  BY <1>1, <1>4, <1>5

\* Two of them agree where both are defined.
LEMMA StepsAgree ==
    ASSUME NEW f, NEW A, IsFiniteSet(A), NEW B, NEW g, NEW h,
           AddsUp(f, g, SUBSET A), AddsUp(f, h, SUBSET B), NEW s \in SUBSET A, s \in SUBSET B
    PROVE  g[s] = h[s]
<1> DEFINE Bad == {r \in SUBSET A : r \in SUBSET B /\ g[r] # h[r]}
<1>1. SUFFICES ASSUME Bad # {} PROVE FALSE
  OBVIOUS
<1>2. PICK V \in Bad : \A x \in V : V \ {x} \notin Bad
  <2>1. Bad \in SUBSET (SUBSET A)
    OBVIOUS
  <2> HIDE DEF Bad
  <2> QED  BY <1>1, <2>1, Smallest
<1>3. V \in SUBSET A /\ V \in SUBSET B /\ g[V] # h[V]
  OBVIOUS
<1>4. V # {}
  BY <1>3, Zenon DEF AddsUp
<1>5. PICK x : x = CHOOSE z \in V : TRUE
  OBVIOUS
<1>6. x \in V
  BY <1>4, <1>5
<1>7. g[V] = Plus(f[x], g[V \ {x}]) /\ h[V] = Plus(f[x], h[V \ {x}])
  <2> HIDE DEF Bad
  <2>1. g[V] = Plus(f[x], g[V \ {x}])
    BY <1>3, <1>4, <1>5, ZenonT(60) DEF AddsUp
  <2>2. h[V] = Plus(f[x], h[V \ {x}])
    BY <1>3, <1>4, <1>5, ZenonT(60) DEF AddsUp
  <2> QED  BY <2>1, <2>2
<1>8. g[V \ {x}] = h[V \ {x}]
  BY <1>2, <1>3, <1>6
<1> QED  BY <1>3, <1>7, <1>8

\* For a finite set there is one.
LEMMA IterSteps ==
    ASSUME NEW f, NEW U, IsFiniteSet(U)
    PROVE  AddsUp(f, Iter(f, U), SUBSET U)
<1> DEFINE Has(T) == \E g : AddsUp(f, g, SUBSET T)
           Bad == {T \in SUBSET U : ~Has(T)}
<1>1. SUFFICES ASSUME Bad # {} PROVE FALSE
  <2>1. Has(U) => AddsUp(f, Iter(f, U), SUBSET U)
    BY Zenon DEF Iter
  <2> QED  BY <2>1
<1>2. PICK V \in Bad : IsFiniteSet(V) /\ \A x \in V : V \ {x} \notin Bad
  <2>1. Bad \in SUBSET (SUBSET U)
    OBVIOUS
  <2> HIDE DEF Bad
  <2> QED  BY <1>1, <2>1, Smallest
<1>3. ASSUME NEW r \in SUBSET V, r # V PROVE AddsUp(f, Iter(f, r), SUBSET r) /\ IsFiniteSet(r)
  <2>1. PICK x \in V : x \notin r
    BY <1>3
  <2>2. PICK g : AddsUp(f, g, SUBSET (V \ {x}))
    BY <1>2
  <2> DEFINE h == [s \in SUBSET r |-> g[s]]
  <2>3. \A s \in SUBSET r : s \in SUBSET (V \ {x})
    BY <2>1
  <2>4. ASSUME NEW s \in SUBSET r
        PROVE  h[s] = IF s = {} THEN Zero
                      ELSE LET y == CHOOSE z \in s : TRUE IN Plus(f[y], h[s \ {y}])
    <3>1. g[s] = IF s = {} THEN Zero
                 ELSE LET y == CHOOSE z \in s : TRUE IN Plus(f[y], g[s \ {y}])
      BY <2>2, <2>3, Zenon DEF AddsUp
    <3>2. h[s] = g[s] /\ \A y : h[s \ {y}] = g[s \ {y}]
      OBVIOUS
    <3> QED  BY <3>1, <3>2, Zenon
  <2>5. AddsUp(f, h, SUBSET r)
    BY <2>4 DEF AddsUp
  <2> HIDE DEF h
  <2> QED  BY <1>2, <2>5, FS_Subset, Zenon DEF Iter
<1> DEFINE h == [s \in SUBSET V |->
                    IF s = {} THEN Zero
                    ELSE LET y == CHOOSE z \in s : TRUE
                         IN  Plus(f[y], Iter(f, s \ {y})[s \ {y}])]
<1>4. ASSUME NEW r \in SUBSET V, r # V PROVE h[r] = Iter(f, r)[r]
  <2>1. AddsUp(f, Iter(f, r), SUBSET r) /\ IsFiniteSet(r)
    BY <1>3, <1>4
  <2>2. PICK y : y = CHOOSE z \in r : TRUE
    OBVIOUS
  <2>3. Iter(f, r)[r] = IF r = {} THEN Zero ELSE Plus(f[y], Iter(f, r)[r \ {y}])
    BY <2>1, <2>2, Zenon DEF AddsUp
  <2>4. h[r] = IF r = {} THEN Zero ELSE Plus(f[y], Iter(f, r \ {y})[r \ {y}])
    BY <2>2
  <2>5. r \ {y} \in SUBSET V /\ r \ {y} # V /\ r \ {y} \in SUBSET r
    BY <1>4
  <2>6. AddsUp(f, Iter(f, r \ {y}), SUBSET (r \ {y}))
    BY <1>3, <2>5
  <2>7. Iter(f, r)[r \ {y}] = Iter(f, r \ {y})[r \ {y}]
    <3>1. PICK q : q = r \ {y}
      OBVIOUS
    <3>2. q \in SUBSET r /\ q \in SUBSET q /\ AddsUp(f, Iter(f, q), SUBSET q)
      BY <2>5, <2>6, <3>1
    <3>3. Iter(f, r)[q] = Iter(f, q)[q]
      BY <2>1, <3>2, StepsAgree
    <3> QED  BY <3>1, <3>3
  <2> QED  BY <2>3, <2>4, <2>7
<1>5. ASSUME NEW s \in SUBSET V
      PROVE  h[s] = IF s = {} THEN Zero
                    ELSE LET y == CHOOSE z \in s : TRUE IN Plus(f[y], h[s \ {y}])
  <2>1. PICK x : x = CHOOSE z \in s : TRUE
    OBVIOUS
  <2>2. h[s] = IF s = {} THEN Zero ELSE Plus(f[x], Iter(f, s \ {x})[s \ {x}])
    BY <2>1
  <2>3. s # {} => x \in s
    BY <2>1
  <2>4. s # {} => s \ {x} \in SUBSET V /\ s \ {x} # V
    BY <2>3
  <2> HIDE DEF h
  <2>5. s # {} => h[s \ {x}] = Iter(f, s \ {x})[s \ {x}]
    BY <1>4, <2>4
  <2> QED  BY <2>1, <2>2, <2>5, Zenon
<1>6. AddsUp(f, h, SUBSET V)
  BY <1>5 DEF AddsUp
<1> HIDE DEF h
<1> QED  BY <1>2, <1>6

\* A step of one takes a member of the set and leaves the others.
Takes(f, h, V) == \E x \in V : h[V] = Plus(f[x], h[V \ {x}]) /\ x = (CHOOSE z \in V : TRUE)

\* A sum over a subset takes one of its members and the sum over the others.
LEMMA StepTakes ==
    ASSUME NEW f, NEW h, NEW U, AddsUp(f, h, SUBSET U), NEW V \in SUBSET U, V # {}
    PROVE  Takes(f, h, V)
<1>1. PICK x : x = CHOOSE z \in V : TRUE
  OBVIOUS
<1>2. x \in V
  BY <1>1
<1>3. h[V] = Plus(f[x], h[V \ {x}])
  BY <1>1, Zenon DEF AddsUp
<1> QED  BY <1>1, <1>2, <1>3, Zenon DEF Takes

\* What relates the numbers of two books, one by one, and is kept when they are added,
\* relates their totals.
LEMMA TotalsRelate ==
    ASSUME NEW U, IsFiniteSet(U), NEW f, DOMAIN f = U, NEW g, DOMAIN g = U, NEW R,
           \A x \in U : <<f[x], g[x]>> \in R, <<Zero, Zero>> \in R,
           \A p \in R, q \in R : <<Plus(p[1], q[1]), Plus(p[2], q[2])>> \in R
    PROVE  <<Total(f), Total(g)>> \in R
<1>1. PICK i, j : i = Iter(f, U) /\ j = Iter(g, U)
  OBVIOUS
<1>2. AddsUp(f, i, SUBSET U) /\ AddsUp(g, j, SUBSET U)
  BY <1>1, IterSteps
<1> DEFINE Bad == {V \in SUBSET U : <<i[V], j[V]>> \notin R}
<1>3. SUFFICES ASSUME Bad # {} PROVE FALSE
  <2>1. Bad = {} => <<i[U], j[U]>> \in R
    OBVIOUS
  <2> QED  BY <1>1, <2>1, TotalIs
<1>4. PICK V \in Bad : \A x \in V : V \ {x} \notin Bad
  <2>1. Bad \in SUBSET (SUBSET U)
    OBVIOUS
  <2> HIDE DEF Bad
  <2> QED  BY <1>3, <2>1, Smallest
<1>5. V \in SUBSET U /\ <<i[V], j[V]>> \notin R
  OBVIOUS
<1>6. V # {}
  <2>1. SUFFICES ASSUME V = {} PROVE FALSE
    OBVIOUS
  <2> HIDE DEF Bad
  <2>2. i[V] = Zero /\ j[V] = Zero
    BY <1>2, <1>5, <2>1, Zenon DEF AddsUp
  <2> QED  BY <1>5, <2>2
<1>7. PICK x : x = CHOOSE z \in V : TRUE
  OBVIOUS
<1>8. x \in V
  BY <1>6, <1>7
<1>9. i[V] = Plus(f[x], i[V \ {x}]) /\ j[V] = Plus(g[x], j[V \ {x}])
  <2> HIDE DEF Bad
  <2>1. V \in SUBSET U
    BY <1>5
  <2>2. AddsUp(f, i, SUBSET U)
    BY <1>2
  <2>3. AddsUp(g, j, SUBSET U)
    BY <1>2
  <2>4. Takes(f, i, V) /\ Takes(g, j, V)
    BY <1>6, <2>1, <2>2, <2>3, StepTakes
  <2>5. i[V] = Plus(f[x], i[V \ {x}])
    BY <1>7, <2>4, Zenon DEF Takes
  <2>6. j[V] = Plus(g[x], j[V \ {x}])
    BY <1>7, <2>4, Zenon DEF Takes
  <2> QED  BY <2>5, <2>6
<1>10. <<i[V \ {x}], j[V \ {x}]>> \in R
  BY <1>4, <1>5, <1>8
<1> HIDE DEF Bad
<1>11. PICK p, q : p = <<f[x], g[x]>> /\ q = <<i[V \ {x}], j[V \ {x}]>>
  OBVIOUS
<1>12. p \in R /\ q \in R
  BY <1>5, <1>8, <1>10, <1>11
<1>13. p[1] = f[x] /\ p[2] = g[x] /\ q[1] = i[V \ {x}] /\ q[2] = j[V \ {x}]
  BY <1>11
<1>14. <<Plus(p[1], q[1]), Plus(p[2], q[2])>> \in R
  BY <1>12
<1> QED  BY <1>5, <1>9, <1>13, <1>14, Zenon

\* A total of fractions is one, and of amounts an amount.
LEMMA TotalTyped ==
    ASSUME NEW U, IsFiniteSet(U), NEW f \in [U -> Fractions]
    PROVE  Total(f) \in Fractions /\ ((\A x \in U : AtMost(Zero, f[x])) => AtMost(Zero, Total(f)))
<1> DEFINE R == Fractions \X Fractions
           P == {p \in Fractions \X Fractions : AtMost(Zero, p[1])}
<1>1. \A p \in R, q \in R : <<Plus(p[1], q[1]), Plus(p[2], q[2])>> \in R
  BY Typed
<1>2. <<Total(f), Total(f)>> \in R
  <2>1. (\A x \in U : <<f[x], f[x]>> \in R) /\ <<Zero, Zero>> \in R /\ DOMAIN f = U
    BY Numbers DEF Unit
  <2> HIDE DEF R
  <2> QED  BY <1>1, <2>1, TotalsRelate
<1>3. ASSUME NEW x \in Fractions, NEW y \in Fractions, AtMost(Zero, x), AtMost(Zero, y)
      PROVE  AtMost(Zero, Plus(x, y))
  <2>1. PICK d \in Nat : d > 0 /\ \E n \in Int, m \in Int : Is(x, n, d) /\ Is(y, m, d)
    BY Common
  <2>2. PICK n \in Int, m \in Int : Is(x, n, d) /\ Is(y, m, d)
    BY <2>1
  <2>3. Is(Plus(x, y), n + m, d) /\ Is(Zero, 0, d)
    BY <2>1, <2>2, IsPlus, IsNumber
  <2>4. 0 <= n /\ 0 <= m
    BY <1>3, <2>1, <2>2, <2>3, IsCompared
  <2> QED  BY <2>1, <2>3, <2>4, IsCompared
<1>4. ASSUME \A x \in U : AtMost(Zero, f[x]) PROVE <<Total(f), Total(f)>> \in P
  <2>1. \A p \in P, q \in P : <<Plus(p[1], q[1]), Plus(p[2], q[2])>> \in P
    BY <1>3, Typed
  <2>2. (\A x \in U : <<f[x], f[x]>> \in P) /\ <<Zero, Zero>> \in P /\ DOMAIN f = U
    BY <1>4, Numbers DEF Unit
  <2> HIDE DEF P
  <2> QED  BY <2>1, <2>2, TotalsRelate
<1> QED  BY <1>2, <1>4

\* Bounds on the numbers bound the total.
LEMMA TotalBounded ==
    ASSUME NEW U, IsFiniteSet(U), NEW f \in [U -> Fractions], NEW g \in [U -> Fractions],
           NEW k \in Fractions
    PROVE  /\ (\A x \in U : AtMost(f[x], Times(g[x], k))) => AtMost(Total(f), Times(Total(g), k))
           /\ (\A x \in U : AtMost(Times(g[x], k), f[x])) => AtMost(Times(Total(g), k), Total(f))
<1> DEFINE R == {p \in Fractions \X Fractions : AtMost(p[1], Times(p[2], k))}
           P == {p \in Fractions \X Fractions : AtMost(Times(p[2], k), p[1])}
<1>1. ASSUME NEW x \in Fractions, NEW y \in Fractions, NEW v \in Fractions, NEW w \in Fractions
      PROVE  /\ AtMost(x, Times(y, k)) /\ AtMost(v, Times(w, k)) => AtMost(Plus(x, v), Times(Plus(y, w), k))
             /\ AtMost(Times(y, k), x) /\ AtMost(Times(w, k), v) => AtMost(Times(Plus(y, w), k), Plus(x, v))
  <2>1. PICK d \in Nat : d > 0 /\ \E n \in Int, m \in Int, p \in Int, q \in Int :
            Is(x, n, d) /\ Is(y, m, d) /\ Is(v, p, d) /\ Is(w, q, d)
    BY CommonFour
  <2>2. PICK n \in Int, m \in Int, p \in Int, q \in Int :
            Is(x, n, d) /\ Is(y, m, d) /\ Is(v, p, d) /\ Is(w, q, d)
    BY <2>1
  <2>3. PICK e, r : e = k[2] /\ r = k[1]
    OBVIOUS
  <2>4. e \in Nat /\ e > 0 /\ r \in Int /\ Is(k, r, e) /\ d * e \in Nat /\ d * e > 0
    BY <2>1, <2>3, Parts, IsItself
  <2>5. Is(Plus(x, v), n + p, d) /\ Is(Plus(y, w), m + q, d)
    BY <2>1, <2>2, IsPlus
  <2>6. /\ Is(Times(y, k), m * r, d * e) /\ Is(Times(w, k), q * r, d * e)
        /\ Is(Times(Plus(y, w), k), (m + q) * r, d * e)
        /\ Is(x, n * e, d * e) /\ Is(v, p * e, d * e) /\ Is(Plus(x, v), (n + p) * e, d * e)
    BY <2>1, <2>2, <2>4, <2>5, IsTimes, IsExpanded
  <2>7. PICK a, b, s, t : a = n * e /\ b = p * e /\ s = m * r /\ t = q * r
    OBVIOUS
  <2>8. a \in Int /\ b \in Int /\ s \in Int /\ t \in Int
        /\ (n + p) * e = a + b /\ (m + q) * r = s + t
    BY <2>4, <2>7
  <2>9. /\ Is(Times(y, k), s, d * e) /\ Is(Times(w, k), t, d * e)
        /\ Is(Times(Plus(y, w), k), s + t, d * e)
        /\ Is(x, a, d * e) /\ Is(v, b, d * e) /\ Is(Plus(x, v), a + b, d * e)
    BY <2>6, <2>7, <2>8
  <2>10. /\ (AtMost(x, Times(y, k)) <=> a <= s) /\ (AtMost(v, Times(w, k)) <=> b <= t)
         /\ (AtMost(Plus(x, v), Times(Plus(y, w), k)) <=> a + b <= s + t)
         /\ (AtMost(Times(y, k), x) <=> s <= a) /\ (AtMost(Times(w, k), v) <=> t <= b)
         /\ (AtMost(Times(Plus(y, w), k), Plus(x, v)) <=> s + t <= a + b)
    BY <2>4, <2>8, <2>9, IsCompared
  <2> QED  BY <2>8, <2>10
<1>2. Times(Zero, k) = Zero
  <2>1. k[2] \in Nat /\ k[2] > 0 /\ k[1] \in Int /\ Is(k, k[1], k[2]) /\ Is(Zero, 0, 1)
    BY Parts, IsItself, IsNumber
  <2>2. Is(Times(Zero, k), 0 * k[1], 1 * k[2])
    BY <2>1, IsTimes
  <2> QED  BY <2>1, <2>2, IsZero
<1>3. Zero \in Fractions /\ AtMost(Zero, Zero)
  BY Numbers DEF Unit
<1>4. ASSUME \A x \in U : AtMost(f[x], Times(g[x], k)) PROVE <<Total(f), Total(g)>> \in R
  <2>1. \A p \in R, q \in R : <<Plus(p[1], q[1]), Plus(p[2], q[2])>> \in R
    BY <1>1, Typed
  <2>2. (\A x \in U : <<f[x], g[x]>> \in R) /\ <<Zero, Zero>> \in R /\ DOMAIN f = U /\ DOMAIN g = U
    BY <1>2, <1>3, <1>4
  <2> HIDE DEF R
  <2> QED  BY <2>1, <2>2, TotalsRelate
<1>5. ASSUME \A x \in U : AtMost(Times(g[x], k), f[x]) PROVE <<Total(f), Total(g)>> \in P
  <2>1. \A p \in P, q \in P : <<Plus(p[1], q[1]), Plus(p[2], q[2])>> \in P
    BY <1>1, Typed
  <2>2. (\A x \in U : <<f[x], g[x]>> \in P) /\ <<Zero, Zero>> \in P /\ DOMAIN f = U /\ DOMAIN g = U
    BY <1>2, <1>3, <1>5
  <2> HIDE DEF P
  <2> QED  BY <2>1, <2>2, TotalsRelate
<1> QED  BY <1>4, <1>5

-----------------------------------------------------------------------------
(* Books and what is measured of them *)

Books == [Assets -> Fractions]

\* An amount is a fraction that is not below nothing.
LEMMA AmountIs == ASSUME NEW x PROVE x \in Amounts <=> x \in Fractions /\ AtMost(Zero, x)
BY DEF Amounts, AtMost

\* What is neither more nor less than nothing is nothing.
LEMMA NothingIs ==
    ASSUME NEW x \in Fractions, AtMost(Zero, x), AtMost(x, Zero)
    PROVE  x = Zero
<1>1. x[1] \in Int /\ x[2] \in Nat /\ x[2] > 0 /\ Is(x, x[1], x[2]) /\ Is(Zero, 0, x[2])
  BY Parts, IsItself, IsNumber
<1>2. 0 <= x[1] /\ x[1] <= 0
  BY <1>1, IsCompared
<1>3. x[1] = 0
  BY <1>1, <1>2
<1> QED  BY <1>3, Parts

\* An amount that is not nothing is more than nothing.
LEMMA PositiveIs ==
    ASSUME NEW x \in Amounts, x # Zero
    PROVE  Less(Zero, x)
BY AmountIs, NothingIs, LessIs

\* A number and its size.
LEMMA SizeIs ==
    ASSUME NEW x \in Fractions
    PROVE  /\ Size(x) \in Amounts /\ AtMost(x, Size(x)) /\ AtMost(Negative(x), Size(x))
           /\ (AtMost(Zero, x) => Size(x) = x) /\ (AtMost(x, Zero) => Size(x) = Negative(x))
<1>1. PICK n, d : n = x[1] /\ d = x[2]
  OBVIOUS
<1>2. n \in Int /\ d \in Nat /\ d > 0 /\ Is(x, n, d) /\ Is(Zero, 0, d)
  BY <1>1, Parts, IsItself, IsNumber
<1>3. Is(Size(x), IF n < 0 THEN -n ELSE n, d) /\ Is(Negative(x), -n, d)
  BY <1>2, IsSize, IsNegative
<1>4. AtMost(x, Size(x)) /\ AtMost(Negative(x), Size(x)) /\ AtMost(Zero, Size(x))
  BY <1>2, <1>3, IsCompared
<1>5. (AtMost(Zero, x) <=> 0 <= n) /\ (AtMost(x, Zero) <=> n <= 0)
  BY <1>2, IsCompared
<1>6. n = 0 => Negative(x) = x
  <2>1. SUFFICES ASSUME n = 0 PROVE Negative(x) = x
    OBVIOUS
  <2>2. x = Zero
    BY <1>1, <2>1, Parts
  <2>3. Negative(x) \in Fractions /\ AtMost(Zero, Negative(x)) /\ AtMost(Negative(x), Zero)
    BY <1>2, <1>3, <2>1, IsCompared DEF Is
  <2> QED  BY <2>2, <2>3, NothingIs
<1>7. Size(x) = IF n < 0 THEN Negative(x) ELSE x
  BY <1>1 DEF Size
<1> QED  BY <1>2, <1>3, <1>4, <1>5, <1>6, <1>7, AmountIs DEF Is

\* A quotient by what is more than nothing is a fraction, and not below nothing when
\* what is divided is not.
LEMMA OverTyped ==
    ASSUME NEW x \in Fractions, NEW y \in Fractions, Less(Zero, y)
    PROVE  Over(x, y) \in Fractions /\ (AtMost(Zero, x) => AtMost(Zero, Over(x, y)))
<1>1. PICK d \in Nat : d > 0 /\ \E n \in Int, m \in Int : Is(x, n, d) /\ Is(y, m, d)
  BY Common
<1>2. PICK n \in Int, m \in Int : Is(x, n, d) /\ Is(y, m, d)
  BY <1>1
<1>3. Is(Zero, 0, d)
  BY <1>1, IsNumber
<1>4. m > 0 /\ m \in Nat
  BY <1>1, <1>2, <1>3, IsCompared, LessIs
<1>5. Is(Over(x, y), n, m) /\ Is(Zero, 0, m)
  BY <1>1, <1>2, <1>4, IsOver, IsNumber
<1>6. (AtMost(Zero, x) <=> 0 <= n) /\ (AtMost(Zero, Over(x, y)) <=> 0 <= n)
  BY <1>1, <1>2, <1>3, <1>4, <1>5, IsCompared
<1> QED  BY <1>5, <1>6 DEF Is

\* Products and sums of amounts are amounts.
LEMMA ProductTyped ==
    ASSUME NEW x \in Amounts, NEW y \in Amounts
    PROVE  Times(x, y) \in Amounts /\ Plus(x, y) \in Amounts
<1>0. x \in Fractions /\ y \in Fractions /\ AtMost(Zero, x) /\ AtMost(Zero, y)
  BY AmountIs
<1>1. PICK d \in Nat : d > 0 /\ \E n \in Int, m \in Int : Is(x, n, d) /\ Is(y, m, d)
  BY <1>0, Common
<1>2. PICK n \in Int, m \in Int : Is(x, n, d) /\ Is(y, m, d)
  BY <1>1
<1>3. Is(Zero, 0, d) /\ d * d \in Nat /\ d * d > 0
  BY <1>1, IsNumber
<1>4. 0 <= n /\ 0 <= m
  BY <1>0, <1>1, <1>2, <1>3, IsCompared
<1>5. Is(Times(x, y), n * m, d * d) /\ Is(Plus(x, y), n + m, d) /\ Is(Zero, 0, d * d)
  BY <1>1, <1>2, <1>3, IsTimes, IsPlus, IsNumber
<1>6. n * m >= 0 /\ n * m \in Int
  BY <1>4
<1>7. AtMost(Zero, Times(x, y)) /\ AtMost(Zero, Plus(x, y))
  BY <1>1, <1>3, <1>4, <1>5, <1>6, IsCompared
<1> QED  BY <1>5, <1>7, AmountIs DEF Is

\* The measures of a book.
LEMMA Measured ==
    ASSUME BookAssumption, NEW v \in Books, NEW w \in Books
    PROVE  /\ Distance(v, w) \in Amounts /\ Gross(w) \in Amounts
           /\ Net(w) \in Fractions /\ Beta(w) \in Fractions
           /\ \A s : SectorGross(w, s) \in Amounts
           /\ Flat \in Books
<1>0. IsFiniteSet(Assets) /\ \A a \in Assets : BetaOf[a] \in Fractions
  BY DEF BookAssumption
<1>1. ASSUME NEW x \in Books, NEW y \in Books PROVE Distance(x, y) \in Amounts
  <2> DEFINE f == [a \in Assets |-> Size(Minus(x[a], y[a]))]
  <2>1. ASSUME NEW a \in Assets PROVE f[a] \in Fractions /\ AtMost(Zero, f[a])
    <3>1. x[a] \in Fractions /\ y[a] \in Fractions
      BY DEF Books
    <3>2. Size(Minus(x[a], y[a])) \in Amounts
      BY <3>1, Typed, SizeIs
    <3> QED  BY <3>2, AmountIs
  <2>2. f \in [Assets -> Fractions]
    BY <2>1
  <2> HIDE DEF f
  <2>3. Total(f) \in Amounts
    BY <1>0, <2>1, <2>2, TotalTyped, AmountIs
  <2> QED  BY <2>3 DEF Distance, f
<1>2. Flat \in Books
  BY Numbers DEF Flat, Books, Unit
<1>3. Gross(w) \in Amounts
  BY <1>1, <1>2 DEF Gross
<1>4. Net(w) \in Fractions
  BY <1>0, TotalTyped DEF Net, Books
<1>5. Beta(w) \in Fractions
  <2> DEFINE f == [a \in Assets |-> Times(w[a], BetaOf[a])]
  <2>1. f \in [Assets -> Fractions]
    BY <1>0, Typed DEF Books
  <2> HIDE DEF f
  <2>2. Total(f) \in Fractions
    BY <1>0, <2>1, TotalTyped
  <2> QED  BY <2>2 DEF Beta, f
<1>6. ASSUME NEW s PROVE SectorGross(w, s) \in Amounts
  <2> DEFINE x == [a \in Assets |-> IF SectorOf[a] = s THEN w[a] ELSE Zero]
  <2>1. x \in Books
    BY Numbers DEF Books, Unit
  <2> HIDE DEF x
  <2>2. Gross(x) \in Amounts
    BY <1>1, <1>2, <2>1 DEF Gross
  <2> QED  BY <2>2 DEF SectorGross, x
<1> QED  BY <1>1, <1>2, <1>3, <1>4, <1>5, <1>6

-----------------------------------------------------------------------------
(* What the steps of the constructor do to each weight *)

\* v holds no more of any asset than w, on the same side.
Below(v, w) == v \in Books /\ \A a \in Assets : Shrunk(v[a], w[a])

\* What is cut down twice is cut down.
LEMMA ShrunkFurther ==
    ASSUME NEW u \in Fractions, NEW v \in Fractions, NEW w \in Fractions, Shrunk(u, v), Shrunk(v, w)
    PROVE  Shrunk(u, w)
<1>1. Zero \in Fractions
  BY Numbers DEF Unit
<1>2. CASE AtMost(Zero, u) /\ AtMost(u, v) /\ AtMost(Zero, v) /\ AtMost(v, w)
  BY <1>2, Ordered DEF Shrunk
<1>3. CASE AtMost(v, u) /\ AtMost(u, Zero) /\ AtMost(w, v) /\ AtMost(v, Zero)
  BY <1>3, Ordered DEF Shrunk
<1>4. CASE AtMost(Zero, u) /\ AtMost(u, v) /\ AtMost(w, v) /\ AtMost(v, Zero)
  <2>1. AtMost(u, Zero) /\ AtMost(w, u)
    <3>1. AtMost(u, Zero)
      BY <1>1, <1>4, Ordered
    <3>2. u = Zero /\ AtMost(Zero, v)
      BY <1>1, <1>4, <3>1, NothingIs, Ordered
    <3>3. v = Zero
      BY <1>4, <3>2, NothingIs
    <3> QED  BY <1>4, <3>1, <3>2, <3>3
  <2> QED  BY <2>1 DEF Shrunk
<1>5. CASE AtMost(v, u) /\ AtMost(u, Zero) /\ AtMost(Zero, v) /\ AtMost(v, w)
  <2>1. AtMost(Zero, u) /\ AtMost(u, w)
    <3>1. AtMost(Zero, u)
      BY <1>1, <1>5, Ordered
    <3>2. u = Zero /\ AtMost(v, Zero)
      BY <1>1, <1>5, <3>1, NothingIs, Ordered
    <3>3. v = Zero
      BY <1>5, <3>2, NothingIs
    <3> QED  BY <1>5, <3>1, <3>2, <3>3
  <2> QED  BY <2>1 DEF Shrunk
<1> QED  BY <1>2, <1>3, <1>4, <1>5 DEF Shrunk

\* What is cut down keeps its side.
LEMMA ShrunkKeeps ==
    ASSUME NEW v \in Fractions, NEW w \in Fractions, Shrunk(v, w)
    PROVE  (AtMost(Zero, w) => AtMost(Zero, v)) /\ (AtMost(w, Zero) => AtMost(v, Zero))
<1>1. Zero \in Fractions
  BY Numbers DEF Unit
<1>2. CASE AtMost(Zero, v) /\ AtMost(v, w)
  BY <1>1, <1>2, Ordered
<1>3. CASE AtMost(w, v) /\ AtMost(v, Zero)
  BY <1>1, <1>3, Ordered
<1> QED  BY <1>2, <1>3 DEF Shrunk

\* So is a book.
LEMMA BelowFurther ==
    ASSUME NEW u, NEW v, NEW w \in Books, Below(u, v), Below(v, w)
    PROVE  Below(u, w)
BY ShrunkFurther DEF Below, Books

\* A book whose weights are each scaled down.
LEMMA EachScaled ==
    ASSUME NEW w \in Books, NEW k \in [Assets -> Unit], NEW v,
           v = [a \in Assets |-> Times(w[a], k[a])]
    PROVE  Below(v, w)
<1>1. ASSUME NEW a \in Assets PROVE v[a] \in Fractions /\ Shrunk(v[a], w[a])
  <2>1. w[a] \in Fractions /\ k[a] \in Unit /\ v[a] = Times(w[a], k[a])
    BY DEF Books
  <2> QED  BY <2>1, ScaledDown
<1> QED  BY <1>1 DEF Below, Books

IsLimits(L) ==
    /\ L.position \in Amounts /\ L.gross \in Amounts /\ L.net \in Amounts /\ L.sector \in Amounts
    /\ L.beta \in Amounts /\ L.turnover \in Amounts /\ L.participation \in Amounts

\* The four scalings.
LEMMA Scaled ==
    ASSUME BookAssumption, NEW w \in Books, NEW L, IsLimits(L)
    PROVE  /\ Below(ScaleSectors(w, L), w) /\ Below(ScaleGross(w, L), w)
           /\ Below(ScaleBeta(w, L), w) /\ Below(ScaleNet(w, L), w)
<1>1. /\ Gross(w) \in Fractions /\ Beta(w) \in Fractions
      /\ \A s : SectorGross(w, s) \in Fractions
  BY Measured, AmountIs
<1>2. Below(ScaleSectors(w, L), w)
  <2> DEFINE k == [a \in Assets |-> Ratio(SectorGross(w, SectorOf[a]), L.sector)]
  <2>1. k \in [Assets -> Unit]
    BY <1>1, RatioHolds DEF IsLimits
  <2>2. ScaleSectors(w, L) = [a \in Assets |-> Times(w[a], k[a])]
    BY DEF ScaleSectors
  <2> HIDE DEF k
  <2> QED  BY <2>1, <2>2, EachScaled
<1>3. ASSUME NEW r \in Unit PROVE Below(Scale(w, r), w)
  <2> DEFINE k == [a \in Assets |-> r]
  <2>1. k \in [Assets -> Unit] /\ Scale(w, r) = [a \in Assets |-> Times(w[a], k[a])]
    BY DEF Scale
  <2> HIDE DEF k
  <2> QED  BY <2>1, EachScaled
<1>4. Below(ScaleGross(w, L), w)
  BY <1>1, <1>3, RatioHolds DEF ScaleGross, IsLimits
<1>5. Below(ScaleBeta(w, L), w)
  BY <1>1, <1>3, SizeIs, AmountIs, RatioHolds DEF ScaleBeta, IsLimits
<1>6. ASSUME NEW f \in [Assets -> Amounts] PROVE Total(f) \in Amounts
  <2>1. f \in [Assets -> Fractions] /\ \A a \in Assets : AtMost(Zero, f[a])
    BY AmountIs
  <2> QED  BY <2>1, TotalTyped, AmountIs DEF BookAssumption
<1>7. ASSUME NEW x \in Fractions PROVE Greatest(x, Zero) \in Amounts
  BY Numbers, Ordered, LessIs, AmountIs DEF Greatest, Unit
<1>8. Below(ScaleNet(w, L), w)
  <2> DEFINE up == [a \in Assets |-> Greatest(w[a], Zero)]
             down == [a \in Assets |-> Greatest(Negative(w[a]), Zero)]
  <2>1. up \in [Assets -> Amounts] /\ down \in [Assets -> Amounts]
    BY <1>7, Typed DEF Books
  <2>2. PICK long, short : long = Total(up) /\ short = Total(down)
    OBVIOUS
  <2>3. long \in Amounts /\ short \in Amounts
    <3> HIDE DEF up, down
    <3> QED  BY <1>6, <2>1, <2>2
  <2>4. /\ long \in Fractions /\ short \in Fractions
        /\ Plus(L.net, short) \in Amounts /\ Plus(L.net, long) \in Amounts
    BY <2>3, ProductTyped, AmountIs DEF IsLimits
  <2>5. Ratio(long, Plus(L.net, short)) \in Unit
        /\ Ratio(short, Plus(L.net, long)) \in Unit /\ One \in Unit
    BY <2>4, RatioHolds, Numbers
  <2>6. ScaleNet(w, L) =
          IF Less(L.net, Minus(long, short))
          THEN [a \in Assets |-> IF Less(Zero, w[a])
                                 THEN Times(w[a], Ratio(long, Plus(L.net, short))) ELSE w[a]]
          ELSE IF Less(L.net, Minus(short, long))
          THEN [a \in Assets |-> IF Less(w[a], Zero)
                                 THEN Times(w[a], Ratio(short, Plus(L.net, long))) ELSE w[a]]
          ELSE w
    BY <2>2 DEF ScaleNet
  <2> HIDE DEF up, down
  <2>7. ASSUME NEW a \in Assets PROVE w[a] \in Fractions /\ Shrunk(w[a], w[a])
    <3>1. w[a] \in Fractions /\ Zero \in Fractions
      BY Numbers DEF Books, Unit
    <3> QED  BY <3>1, Ordered DEF Shrunk
  <2>8. ASSUME NEW a \in Assets, NEW r \in Unit
        PROVE  Times(w[a], r) \in Fractions /\ Shrunk(Times(w[a], r), w[a])
    BY <2>7, ScaledDown
  <2>9. PICK v : v = ScaleNet(w, L)
    OBVIOUS
  <2>10. CASE Less(L.net, Minus(long, short))
    <3>1. v = [a \in Assets |-> IF Less(Zero, w[a])
                                 THEN Times(w[a], Ratio(long, Plus(L.net, short))) ELSE w[a]]
      BY <2>6, <2>9, <2>10
    <3>2. \A a \in Assets : v[a] \in Fractions /\ Shrunk(v[a], w[a])
      BY <2>5, <2>7, <2>8, <3>1
    <3> QED  BY <2>9, <3>1, <3>2 DEF Below, Books
  <2>11. CASE ~Less(L.net, Minus(long, short)) /\ Less(L.net, Minus(short, long))
    <3>1. v = [a \in Assets |-> IF Less(w[a], Zero)
                                 THEN Times(w[a], Ratio(short, Plus(L.net, long))) ELSE w[a]]
      BY <2>6, <2>9, <2>11
    <3>2. \A a \in Assets : v[a] \in Fractions /\ Shrunk(v[a], w[a])
      BY <2>5, <2>7, <2>8, <3>1
    <3> QED  BY <2>9, <3>1, <3>2 DEF Below, Books
  <2>12. CASE ~Less(L.net, Minus(long, short)) /\ ~Less(L.net, Minus(short, long))
    BY <2>6, <2>7, <2>12 DEF Below
  <2> QED  BY <2>10, <2>11, <2>12
<1> QED  BY <1>2, <1>4, <1>5, <1>8

\* Evaluated is the identity.
LEMMA EvaluatedIs == ASSUME NEW w PROVE Evaluated(w) = w
BY DEF Evaluated

\* Of finitely many fractions one is the least.
LEMMA LeastThere ==
    ASSUME NEW S \in SUBSET Fractions, IsFiniteSet(S), S # {}
    PROVE  \E k \in S : \A j \in S : AtMost(k, j)
<1> DEFINE HasLeast(V) == \E k \in V : \A j \in V : AtMost(k, j)
           Bad == {V \in SUBSET S : V # {} /\ ~HasLeast(V)}
<1>1. SUFFICES ASSUME Bad # {} PROVE FALSE
  OBVIOUS
<1>2. PICK V \in Bad : \A x \in V : V \ {x} \notin Bad
  <2>1. Bad \in SUBSET (SUBSET S)
    OBVIOUS
  <2> HIDE DEF Bad
  <2> QED  BY <1>1, <2>1, Smallest
<1>3. V \in SUBSET S /\ V # {} /\ ~HasLeast(V)
  OBVIOUS
<1>4. PICK x \in V : TRUE
  BY <1>3
<1>5. \A y \in V : y \in Fractions
  BY <1>3
<1>6. V \ {x} = {} \/ HasLeast(V \ {x})
  BY <1>2, <1>3, <1>4
<1>7. CASE V \ {x} = {}
  <2>1. \A j \in V : j = x
    BY <1>7
  <2>2. AtMost(x, x)
    BY <1>4, <1>5, Ordered
  <2>3. HasLeast(V)
    BY <1>4, <2>1, <2>2
  <2> QED  BY <1>3, <2>3
<1>8. CASE HasLeast(V \ {x})
  <2>1. PICK k \in V \ {x} : \A j \in V \ {x} : AtMost(k, j)
    BY <1>8
  <2>2. CASE AtMost(k, x)
    <3>1. \A j \in V : AtMost(k, j)
      BY <2>1, <2>2
    <3>2. HasLeast(V)
      BY <2>1, <3>1
    <3> QED  BY <1>3, <3>2
  <2>3. CASE AtMost(x, k)
    <3>1. ASSUME NEW j \in V PROVE AtMost(x, j)
      <4>1. CASE j = x
        BY <1>5, <4>1, Ordered
      <4>2. CASE j # x
        <5>1. AtMost(k, j)
          BY <2>1, <4>2
        <5> QED  BY <1>4, <1>5, <2>1, <2>3, <5>1, Ordered
      <4> QED  BY <4>1, <4>2
    <3>2. HasLeast(V)
      BY <1>4, <3>1
    <3> QED  BY <1>3, <3>2
  <2> QED  BY <1>4, <1>5, <2>1, <2>2, <2>3, Ordered
<1> QED  BY <1>6, <1>7, <1>8

\* A function of a finite set has finitely many values.
LEMMA ImageFinite ==
    ASSUME NEW U, IsFiniteSet(U), NEW f, DOMAIN f = U
    PROVE  IsFiniteSet({f[x] : x \in U})
<1>1. PICK T : T = {f[x] : x \in U}
  OBVIOUS
<1>2. [x \in U |-> f[x]] \in Surjection(U, T)
  BY <1>1 DEF Surjection
<1> QED  BY <1>1, <1>2, FS_Surjection

\* A weight that is eligible, or none.
LEMMA AdmittedIs ==
    ASSUME NEW desired \in Books, NEW rows, NEW L, IsLimits(L)
    PROVE  /\ Admitted(desired, rows, L) \in Books
           /\ \A a \in Assets :
                /\ rows[a] = NoRow \/ ~rows[a].tradable => Admitted(desired, rows, L)[a] = Zero
                /\ ~rows[a].shortable => AtMost(Zero, Admitted(desired, rows, L)[a])
<1>1. ASSUME NEW a \in Assets PROVE Clip(desired[a], L.position) \in Fractions
  <2>1. desired[a] \in Fractions /\ L.position \in Fractions
    BY AmountIs DEF Books, IsLimits
  <2> QED  BY <2>1, Typed DEF Clip
<1>2. ASSUME NEW a \in Assets
      PROVE  Admitted(desired, rows, L)[a] =
               IF Eligible(Clip(desired[a], L.position), rows[a]) THEN Clip(desired[a], L.position) ELSE Zero
  BY DEF Admitted
<1>3. Admitted(desired, rows, L) \in Books
  BY <1>1, Numbers DEF Admitted, Books, Unit
<1>4. ASSUME NEW a \in Assets, rows[a] = NoRow \/ ~rows[a].tradable
      PROVE  Admitted(desired, rows, L)[a] = Zero
  BY <1>2, <1>4 DEF Eligible
<1>5. ASSUME NEW a \in Assets, ~rows[a].shortable
      PROVE  AtMost(Zero, Admitted(desired, rows, L)[a])
  <2>1. PICK w : w = Clip(desired[a], L.position)
    OBVIOUS
  <2>2. CASE Eligible(w, rows[a])
    <3>1. ~Less(w, Zero)
      BY <1>5, <2>2 DEF Eligible
    <3> QED  BY <1>2, <2>1, <2>2, <3>1 DEF AtMost
  <2>3. CASE ~Eligible(w, rows[a])
    BY <1>2, <2>1, <2>3, Numbers DEF Unit
  <2> QED  BY <2>2, <2>3
<1> QED  BY <1>3, <1>4, <1>5

\* The part of the constructor that only scales.
Target(desired, rows, L) ==
    ScaleBeta(ScaleNet(ScaleGross(ScaleSectors(Admitted(desired, rows, L), L), L), L), L)

\* The target holds no more of an asset than was admitted (constrain_target_weights).
LEMMA TargetIs ==
    ASSUME BookAssumption, NEW desired \in Books, NEW rows, NEW L, IsLimits(L)
    PROVE  Below(Target(desired, rows, L), Admitted(desired, rows, L))
<1>1. PICK u : u = Admitted(desired, rows, L)
  OBVIOUS
<1>2. u \in Books
  BY <1>1, AdmittedIs
<1>3. PICK v : v = ScaleSectors(u, L)
  OBVIOUS
<1>4. Below(v, u) /\ v \in Books
  BY <1>2, <1>3, Scaled DEF Below
<1>5. PICK w : w = ScaleGross(v, L)
  OBVIOUS
<1>6. Below(w, v) /\ w \in Books
  BY <1>4, <1>5, Scaled DEF Below
<1>7. PICK x : x = ScaleNet(w, L)
  OBVIOUS
<1>8. Below(x, w) /\ x \in Books
  BY <1>6, <1>7, Scaled DEF Below
<1>9. PICK y : y = ScaleBeta(x, L)
  OBVIOUS
<1>10. Below(y, x)
  BY <1>8, <1>9, Scaled DEF Below
<1>11. Below(y, u)
  BY <1>2, <1>4, <1>6, <1>8, <1>10, BelowFurther
<1> QED  BY <1>1, <1>3, <1>5, <1>7, <1>9, <1>11 DEF Target

\* The constructor is the target, limited by turnover and participation, projected.
LEMMA ConstrainedIs ==
    ASSUME NEW desired, NEW rows, NEW current, NEW L, NEW value
    PROVE  Constrained(desired, rows, current, L, value)
             = Project(LimitParticipation(LimitTurnover(Target(desired, rows, L), current, L),
                                          current, rows, L, value), L)
BY EvaluatedIs DEF Constrained, Target

\* What bounds both ends bounds what is between.
LEMMA BetweenBounded ==
    ASSUME NEW c \in Fractions, NEW w \in Fractions, NEW t \in Fractions, Between(c, t, w),
           NEW b \in Fractions
    PROVE  /\ AtMost(b, c) /\ AtMost(b, w) => AtMost(b, t)
           /\ AtMost(c, b) /\ AtMost(w, b) => AtMost(t, b)
<1>1. CASE AtMost(c, w)
  <2>1. AtMost(c, t) /\ AtMost(t, w)
    BY <1>1 DEF Between
  <2> QED  BY <2>1, Ordered
<1>2. CASE AtMost(w, c)
  <2>1. AtMost(w, t) /\ AtMost(t, c)
    BY <1>2 DEF Between
  <2> QED  BY <2>1, Ordered
<1> QED  BY <1>1, <1>2, Ordered

\* The turnover limit moves each weight part of the way from the current book.
LEMMA TurnoverMoves ==
    ASSUME BookAssumption, NEW w \in Books, NEW current \in Books, NEW L, IsLimits(L)
    PROVE  /\ LimitTurnover(w, current, L) \in Books
           /\ \A a \in Assets : Between(current[a], LimitTurnover(w, current, L)[a], w[a])
<1>1. PICK k : k = Ratio(Distance(w, current), L.turnover)
  OBVIOUS
<1>2. k \in Unit
  BY <1>1, Measured, AmountIs, RatioHolds DEF IsLimits
<1>3. PICK v : v = LimitTurnover(w, current, L)
  OBVIOUS
<1>4. v = [a \in Assets |-> Plus(current[a], Times(Minus(w[a], current[a]), k))]
  BY <1>1, <1>3 DEF LimitTurnover
<1>5. ASSUME NEW a \in Assets PROVE v[a] \in Fractions /\ Between(current[a], v[a], w[a])
  <2>1. v[a] = Plus(current[a], Times(Minus(w[a], current[a]), k))
    BY <1>4
  <2>2. current[a] \in Fractions /\ w[a] \in Fractions
    BY DEF Books
  <2>3. PICK c, x : c = current[a] /\ x = w[a]
    OBVIOUS
  <2>4. /\ Plus(c, Times(Minus(x, c), k)) \in Fractions
        /\ Between(c, Plus(c, Times(Minus(x, c), k)), x)
    BY <1>2, <2>2, <2>3, PartOfTheWay
  <2> QED  BY <2>1, <2>3, <2>4
<1> QED  BY <1>3, <1>4, <1>5 DEF Books

IsRows(rows) == \A a \in Assets : rows[a] \in Rows

\* What a trade takes of the volume.
LEMMA ParticipationTyped ==
    ASSUME NEW v \in Books, NEW w \in Books, NEW rows, IsRows(rows), NEW value \in Amounts,
           NEW a \in Assets, rows[a].volume # Zero
    PROVE  Participation(v, w, a, rows, value) \in Amounts
<1>1. Size(Minus(w[a], v[a])) \in Amounts
  BY Typed, SizeIs DEF Books
<1>2. Times(Size(Minus(w[a], v[a])), value) \in Amounts
  BY <1>1, ProductTyped
<1>3. rows[a].volume \in Amounts
  BY DEF IsRows, Rows
<1> QED  BY <1>2, <1>3, PositiveIs, OverTyped, AmountIs DEF Participation

\* So does the participation limit.
LEMMA ParticipationMoves ==
    ASSUME BookAssumption, NEW w \in Books, NEW current \in Books, NEW L, IsLimits(L),
           NEW rows, IsRows(rows), NEW value \in Amounts
    PROVE  /\ LimitParticipation(w, current, rows, L, value) \in Books
           /\ \A a \in Assets : Between(current[a], LimitParticipation(w, current, rows, L, value)[a], w[a])
<1>1. PICK v : v = LimitParticipation(w, current, rows, L, value)
  OBVIOUS
<1>2. v = [a \in Assets |->
        IF w[a] = current[a] \/ rows[a].volume = Zero THEN current[a]
        ELSE LET k == Ratio(Participation(current, w, a, rows, value), L.participation)
             IN  Plus(current[a], Times(Minus(w[a], current[a]), k))]
  BY <1>1 DEF LimitParticipation
<1>3. ASSUME NEW a \in Assets PROVE v[a] \in Fractions /\ Between(current[a], v[a], w[a])
  <2>1. current[a] \in Fractions /\ w[a] \in Fractions
    BY DEF Books
  <2>2. CASE w[a] = current[a] \/ rows[a].volume = Zero
    <3>1. v[a] = current[a]
      BY <1>2, <2>2
    <3> QED  BY <2>1, <3>1, Ordered DEF Between
  <2>3. CASE ~(w[a] = current[a] \/ rows[a].volume = Zero)
    <3>1. PICK k : k = Ratio(Participation(current, w, a, rows, value), L.participation)
      OBVIOUS
    <3>2. k \in Unit
      BY <2>3, <3>1, ParticipationTyped, AmountIs, RatioHolds DEF IsLimits
    <3>3. v[a] = Plus(current[a], Times(Minus(w[a], current[a]), k))
      BY <1>2, <2>3, <3>1
    <3>4. PICK c, x : c = current[a] /\ x = w[a]
      OBVIOUS
    <3>5. /\ Plus(c, Times(Minus(x, c), k)) \in Fractions
          /\ Between(c, Plus(c, Times(Minus(x, c), k)), x)
      BY <2>1, <3>2, <3>4, PartOfTheWay
    <3> QED  BY <3>3, <3>4, <3>5
  <2> QED  BY <2>2, <2>3
<1> QED  BY <1>1, <1>2, <1>3 DEF Books

Ratios(w, L) ==
    {Ratio(Size(w[a]), L.position) : a \in Assets}
    \cup {Ratio(SectorGross(w, SectorOf[a]), L.sector) : a \in Assets}
    \cup {Ratio(Gross(w), L.gross), Ratio(Size(Net(w)), L.net), Ratio(Size(Beta(w)), L.beta)}

\* The projection scales the whole book by the least of the ratios.
LEMMA ProjectScales ==
    ASSUME BookAssumption, NEW w \in Books, NEW L, IsLimits(L)
    PROVE  \E k \in Unit : Project(w, L) = Scale(w, k) /\ \A j \in Ratios(w, L) : AtMost(k, j)
<1>1. /\ Gross(w) \in Fractions /\ Size(Net(w)) \in Fractions /\ Size(Beta(w)) \in Fractions
      /\ \A a \in Assets : Size(w[a]) \in Fractions /\ SectorGross(w, SectorOf[a]) \in Fractions
  BY Measured, SizeIs, AmountIs DEF Books
<1>2. Ratios(w, L) \in SUBSET Unit
  BY <1>1, RatioHolds DEF Ratios, IsLimits
<1>3. IsFiniteSet(Ratios(w, L))
  <2> DEFINE f == [a \in Assets |-> Ratio(Size(w[a]), L.position)]
             g == [a \in Assets |-> Ratio(SectorGross(w, SectorOf[a]), L.sector)]
  <2>1. IsFiniteSet(Assets)
    BY DEF BookAssumption
  <2>2. DOMAIN f = Assets /\ DOMAIN g = Assets
    OBVIOUS
  <2>3. Ratios(w, L) = ({f[a] : a \in Assets} \cup {g[a] : a \in Assets})
          \cup (({Ratio(Gross(w), L.gross)} \cup {Ratio(Size(Net(w)), L.net)})
                  \cup {Ratio(Size(Beta(w)), L.beta)})
    BY DEF Ratios
  <2> HIDE DEF f, g
  <2>4. IsFiniteSet({f[a] : a \in Assets}) /\ IsFiniteSet({g[a] : a \in Assets})
    BY <2>1, <2>2, ImageFinite
  <2>5. IsFiniteSet({f[a] : a \in Assets} \cup {g[a] : a \in Assets})
    BY <2>4, FS_Union
  <2>6. PICK x, y, z : x = Ratio(Gross(w), L.gross) /\ y = Ratio(Size(Net(w)), L.net)
                       /\ z = Ratio(Size(Beta(w)), L.beta)
    OBVIOUS
  <2>7. IsFiniteSet({x} \cup {y})
    BY FS_Singleton, FS_Union
  <2>8. IsFiniteSet(({x} \cup {y}) \cup {z})
    BY <2>7, FS_Singleton, FS_Union
  <2>9. PICK S, T : S = {f[a] : a \in Assets} \cup {g[a] : a \in Assets} /\ T = ({x} \cup {y}) \cup {z}
    OBVIOUS
  <2>10. IsFiniteSet(S \cup T)
    BY <2>5, <2>8, <2>9, FS_Union
  <2> QED  BY <2>3, <2>6, <2>9, <2>10
<1>4. Ratios(w, L) # {}
  BY DEF Ratios
<1>5. Unit \subseteq Fractions
  BY DEF Unit
<1>6. PICK m \in Ratios(w, L) : \A j \in Ratios(w, L) : AtMost(m, j)
  BY <1>2, <1>3, <1>4, <1>5, LeastThere
<1>7. PICK k : k = CHOOSE i \in Ratios(w, L) : \A j \in Ratios(w, L) : ~Less(j, i)
  OBVIOUS
<1>8. k \in Ratios(w, L) /\ \A j \in Ratios(w, L) : ~Less(j, k)
  <2>1. \A j \in Ratios(w, L) : ~Less(j, m)
    BY <1>6 DEF AtMost
  <2> QED  BY <1>7, <2>1
<1>9. Project(w, L) = Scale(w, k)
  BY <1>7 DEF Project, Ratios
<1> QED  BY <1>2, <1>8, <1>9 DEF AtMost

-----------------------------------------------------------------------------
(* What scaling does to the measures of a book *)

\* Products keep the order.
LEMMA TimesKeeps ==
    ASSUME NEW x \in Fractions, NEW y \in Fractions, NEW k \in Amounts
    PROVE  AtMost(x, y) => AtMost(Times(x, k), Times(y, k))
<1>1. k \in Fractions /\ AtMost(Zero, k)
  BY AmountIs
<1>2. PICK d \in Nat, e \in Nat, n \in Int, m \in Int, r \in Int : WithFactor(x, y, k, d, e, n, m, r)
  BY <1>1, FactorThere
<1>3. /\ d * e \in Nat /\ d * e > 0 /\ 0 <= r
      /\ Is(Times(x, k), n * r, d * e) /\ Is(Times(y, k), m * r, d * e)
      /\ (AtMost(x, y) <=> n <= m)
  BY <1>1, <1>2 DEF WithFactor
<1>4. n <= m => n * r <= m * r
  <2>1. SUFFICES ASSUME n <= m PROVE n * r <= m * r
    OBVIOUS
  <2>2. (m - n) * r >= 0
    BY <1>3, <2>1
  <2>3. (m - n) * r = m * r - n * r
    OBVIOUS
  <2> QED  BY <2>2, <2>3
<1>5. PICK s, t : s = n * r /\ t = m * r
  OBVIOUS
<1>6. s \in Int /\ t \in Int
  BY <1>5
<1>7. AtMost(Times(x, k), Times(y, k)) <=> s <= t
  BY <1>3, <1>5, <1>6, IsCompared
<1> QED  BY <1>3, <1>4, <1>5, <1>7

\* A greater factor gives a greater product.
LEMMA FactorsKeep ==
    ASSUME NEW x \in Amounts, NEW j \in Fractions, NEW k \in Fractions
    PROVE  AtMost(j, k) => AtMost(Times(x, j), Times(x, k))
<1>1. x \in Fractions /\ AtMost(Zero, x)
  BY AmountIs
<1>2. PICK d \in Nat, e \in Nat, n \in Int, m \in Int, r \in Int : WithFactor(j, k, x, d, e, n, m, r)
  BY <1>1, FactorThere
<1>3. /\ d > 0 /\ e > 0 /\ e * d \in Nat /\ e * d > 0 /\ 0 <= r
      /\ Is(j, n, d) /\ Is(k, m, d) /\ Is(x, r, e)
      /\ (AtMost(j, k) <=> n <= m)
  BY <1>1, <1>2 DEF WithFactor
<1>4. Is(Times(x, j), r * n, e * d) /\ Is(Times(x, k), r * m, e * d)
  BY <1>3, IsTimes
<1>5. n <= m => r * n <= r * m
  <2>1. SUFFICES ASSUME n <= m PROVE r * n <= r * m
    OBVIOUS
  <2>2. r * (m - n) >= 0
    BY <1>3, <2>1
  <2>3. r * (m - n) = r * m - r * n
    OBVIOUS
  <2> QED  BY <2>2, <2>3
<1>6. PICK s, t : s = r * n /\ t = r * m
  OBVIOUS
<1>7. s \in Int /\ t \in Int
  BY <1>6
<1>8. AtMost(Times(x, j), Times(x, k)) <=> s <= t
  BY <1>3, <1>4, <1>6, <1>7, IsCompared
<1> QED  BY <1>3, <1>5, <1>6, <1>8

\* One is no factor.
LEMMA TimesOne ==
    ASSUME NEW x \in Fractions
    PROVE  AtMost(x, Times(x, One)) /\ AtMost(Times(x, One), x)
<1>1. x[1] \in Int /\ x[2] \in Nat /\ x[2] > 0 /\ Is(x, x[1], x[2]) /\ Is(One, 1, 1)
  BY Parts, IsItself, IsNumber
<1>2. Is(Times(x, One), x[1] * 1, x[2] * 1)
  BY <1>1, IsTimes
<1>3. x[1] * 1 = x[1] /\ x[2] * 1 = x[2]
  BY <1>1
<1> QED  BY <1>1, <1>2, <1>3, IsCompared

\* The size of a product, and of a difference from nothing.
LEMMA SizeTimes ==
    ASSUME NEW x \in Fractions, NEW k \in Amounts
    PROVE  AtMost(Size(Times(x, k)), Times(Size(x), k)) /\ AtMost(Times(Size(x), k), Size(Times(x, k)))
<1>1. k \in Fractions /\ AtMost(Zero, k)
  BY AmountIs
<1>2. PICK d \in Nat, e \in Nat, n \in Int, m \in Int, r \in Int : WithFactor(x, x, k, d, e, n, m, r)
  BY <1>1, FactorThere
<1>3. /\ d > 0 /\ e > 0 /\ d * e \in Nat /\ d * e > 0 /\ 0 <= r
      /\ Is(x, n, d) /\ Is(k, r, e) /\ Is(Times(x, k), n * r, d * e)
  BY <1>1, <1>2 DEF WithFactor
<1>4. PICK b, s : b = (IF n < 0 THEN -n ELSE n) /\ s = n * r
  OBVIOUS
<1>5. b \in Int /\ s \in Int /\ b * r \in Int
  BY <1>4
<1>6. Is(Size(x), b, d) /\ Is(Size(Times(x, k)), IF s < 0 THEN -s ELSE s, d * e)
  BY <1>3, <1>4, <1>5, IsSize
<1>7. Is(Times(Size(x), k), b * r, d * e)
  BY <1>3, <1>5, <1>6, IsTimes
<1>8. b * r = IF s < 0 THEN -s ELSE s
  <2>1. CASE n < 0
    <3>1. b * r = -s
      BY <1>4, <2>1
    <3>2. s <= 0
      BY <1>3, <1>4, <2>1
    <3> QED  BY <1>5, <3>1, <3>2
  <2>2. CASE ~(n < 0)
    <3>1. b * r = s
      BY <1>4, <2>2
    <3>2. s >= 0
      BY <1>3, <1>4, <2>2
    <3> QED  BY <1>5, <3>1, <3>2
  <2> QED  BY <2>1, <2>2
<1>9. PICK t : t = b * r
  OBVIOUS
<1>10. t \in Int /\ Is(Times(Size(x), k), t, d * e) /\ Is(Size(Times(x, k)), t, d * e)
  BY <1>5, <1>6, <1>7, <1>8, <1>9
<1> QED  BY <1>3, <1>10, IsCompared

\* What is left after taking nothing away compares as before.
LEMMA MinusNothing ==
    ASSUME NEW x \in Fractions
    PROVE  /\ Minus(x, Zero) \in Fractions /\ AtMost(x, Minus(x, Zero)) /\ AtMost(Minus(x, Zero), x)
           /\ AtMost(Size(x), Size(Minus(x, Zero))) /\ AtMost(Size(Minus(x, Zero)), Size(x))
<1>1. PICK n, d : n = x[1] /\ d = x[2]
  OBVIOUS
<1>2. n \in Int /\ d \in Nat /\ d > 0 /\ Is(x, n, d) /\ Is(Zero, 0, d)
  BY <1>1, Parts, IsItself, IsNumber
<1>3. Is(Minus(x, Zero), n - 0, d)
  BY <1>2, IsMinus
<1>4. Is(Minus(x, Zero), n, d)
  BY <1>2, <1>3
<1>5. PICK b : b = IF n < 0 THEN -n ELSE n
  OBVIOUS
<1>6. b \in Int /\ Is(Size(x), b, d) /\ Is(Size(Minus(x, Zero)), b, d)
  BY <1>2, <1>4, <1>5, IsSize
<1> QED  BY <1>2, <1>4, <1>6, IsCompared DEF Is

\* Part of the way from nothing.
LEMMA FromNothing ==
    ASSUME NEW w \in Fractions, NEW k \in Unit, NEW x, x = Plus(Zero, Times(Minus(w, Zero), k))
    PROVE  x \in Fractions /\ AtMost(Size(x), Times(Size(w), k))
<1>1. k \in Fractions /\ k \in Amounts /\ Zero \in Fractions
  BY AmountIs, Numbers DEF Unit
<1>2. PICK y : y = Times(Minus(w, Zero), k)
  OBVIOUS
<1>3. y \in Fractions /\ x = Plus(Zero, y)
  BY <1>1, <1>2, Typed
<1>4. x \in Fractions /\ AtMost(Size(x), Size(y))
  <2>1. PICK n, d : n = y[1] /\ d = y[2]
    OBVIOUS
  <2>2. n \in Int /\ d \in Nat /\ d > 0 /\ Is(y, n, d) /\ Is(Zero, 0, d)
    BY <1>3, <2>1, Parts, IsItself, IsNumber
  <2>3. Is(x, 0 + n, d)
    BY <1>3, <2>2, IsPlus
  <2>4. Is(x, n, d)
    BY <2>2, <2>3
  <2>5. PICK b : b = IF n < 0 THEN -n ELSE n
    OBVIOUS
  <2>6. b \in Int /\ Is(Size(x), b, d) /\ Is(Size(y), b, d)
    BY <2>2, <2>4, <2>5, IsSize
  <2> QED  BY <2>2, <2>4, <2>6, IsCompared DEF Is
<1>5. PICK z : z = Minus(w, Zero)
  OBVIOUS
<1>6. z \in Fractions /\ AtMost(Size(z), Size(w))
  BY <1>5, MinusNothing
<1>7. AtMost(Size(y), Times(Size(z), k))
  BY <1>1, <1>2, <1>5, <1>6, SizeTimes
<1>8. Size(z) \in Fractions /\ Size(w) \in Fractions
      /\ Size(y) \in Fractions /\ Size(x) \in Fractions
  BY <1>3, <1>4, <1>6, SizeIs, AmountIs
<1>9. AtMost(Times(Size(z), k), Times(Size(w), k))
  BY <1>1, <1>6, <1>8, TimesKeeps
<1>10. Times(Size(z), k) \in Fractions /\ Times(Size(w), k) \in Fractions
  BY <1>1, <1>8, Typed
<1>11. AtMost(Size(x), Times(Size(z), k))
  BY <1>4, <1>7, <1>8, <1>10, Ordered
<1> QED  BY <1>4, <1>8, <1>9, <1>10, <1>11, Ordered

\* What is cut down is no greater in size.
LEMMA ShrunkSize ==
    ASSUME NEW v \in Fractions, NEW w \in Fractions, Shrunk(v, w)
    PROVE  AtMost(Size(v), Size(w))
<1>1. PICK d \in Nat : d > 0 /\ \E n \in Int, m \in Int : Is(v, n, d) /\ Is(w, m, d)
  BY Common
<1>2. PICK n \in Int, m \in Int : Is(v, n, d) /\ Is(w, m, d)
  BY <1>1
<1>3. Is(Zero, 0, d)
  BY <1>1, IsNumber
<1>4. (0 <= n /\ n <= m) \/ (m <= n /\ n <= 0)
  BY <1>1, <1>2, <1>3, IsCompared DEF Shrunk
<1>5. PICK b, c : b = (IF n < 0 THEN -n ELSE n) /\ c = (IF m < 0 THEN -m ELSE m)
  OBVIOUS
<1>6. b \in Int /\ c \in Int /\ b <= c
  BY <1>4, <1>5
<1>7. Is(Size(v), b, d) /\ Is(Size(w), c, d)
  BY <1>1, <1>2, <1>5, IsSize
<1> QED  BY <1>1, <1>6, <1>7, IsCompared

\* Numbers that are each bounded by a multiple have their gross so bounded.
LEMMA GrossBounded ==
    ASSUME BookAssumption, NEW v \in Books, NEW w \in Books, NEW k \in Amounts,
           \A a \in Assets : AtMost(Size(v[a]), Times(Size(w[a]), k))
    PROVE  AtMost(Gross(v), Times(Gross(w), k))
<1> DEFINE f == [a \in Assets |-> Size(Minus(v[a], Flat[a]))]
           g == [a \in Assets |-> Size(Minus(w[a], Flat[a]))]
<1>1. IsFiniteSet(Assets) /\ k \in Fractions
  BY AmountIs DEF BookAssumption
<1>2. ASSUME NEW a \in Assets
      PROVE  f[a] \in Fractions /\ g[a] \in Fractions /\ AtMost(f[a], Times(g[a], k))
  <2>1. PICK x, y : x = v[a] /\ y = w[a]
    OBVIOUS
  <2>2. x \in Fractions /\ y \in Fractions /\ AtMost(Size(x), Times(Size(y), k))
    BY <2>1 DEF Books
  <2>3. f[a] = Size(Minus(x, Zero)) /\ g[a] = Size(Minus(y, Zero))
    BY <2>1 DEF Flat
  <2>4. PICK p, q : p = Size(Minus(x, Zero)) /\ q = Size(Minus(y, Zero))
    OBVIOUS
  <2>5. p \in Fractions /\ q \in Fractions /\ Size(x) \in Fractions /\ Size(y) \in Fractions
        /\ AtMost(p, Size(x)) /\ AtMost(Size(y), q)
    BY <2>2, <2>4, MinusNothing, SizeIs, AmountIs
  <2>6. AtMost(Times(Size(y), k), Times(q, k))
        /\ Times(Size(y), k) \in Fractions /\ Times(q, k) \in Fractions
    BY <1>1, <2>5, TimesKeeps, Typed
  <2>7. AtMost(p, Times(Size(y), k))
    BY <2>2, <2>5, <2>6, Ordered
  <2>8. AtMost(p, Times(q, k))
    BY <2>5, <2>6, <2>7, Ordered
  <2> QED  BY <2>3, <2>4, <2>5, <2>8
<1>3. f \in [Assets -> Fractions] /\ g \in [Assets -> Fractions]
  BY <1>2
<1>4. Gross(v) = Total(f) /\ Gross(w) = Total(g)
  BY DEF Gross, Distance
<1> HIDE DEF f, g
<1> QED  BY <1>1, <1>2, <1>3, <1>4, TotalBounded

\* A book with less of each asset has no greater gross.
LEMMA GrossShrinks ==
    ASSUME BookAssumption, NEW v \in Books, NEW w \in Books, Below(v, w)
    PROVE  AtMost(Gross(v), Gross(w))
<1>1. ASSUME NEW a \in Assets PROVE AtMost(Size(v[a]), Times(Size(w[a]), One))
  <2>1. v[a] \in Fractions /\ w[a] \in Fractions /\ Shrunk(v[a], w[a])
    BY DEF Below, Books
  <2>2. Size(v[a]) \in Fractions /\ Size(w[a]) \in Fractions /\ AtMost(Size(v[a]), Size(w[a]))
    BY <2>1, ShrunkSize, SizeIs, AmountIs
  <2>3. AtMost(Size(w[a]), Times(Size(w[a]), One)) /\ Times(Size(w[a]), One) \in Fractions
    BY <2>2, TimesOne, Typed, Numbers DEF Unit
  <2> QED  BY <2>2, <2>3, Ordered
<1>2. AtMost(Gross(v), Times(Gross(w), One))
  BY <1>1, GrossBounded, Numbers
<1>3. Gross(v) \in Fractions /\ Gross(w) \in Fractions
  BY Measured, AmountIs
<1>4. AtMost(Times(Gross(w), One), Gross(w)) /\ Times(Gross(w), One) \in Fractions
  BY <1>3, TimesOne, Typed, Numbers DEF Unit
<1> QED  BY <1>2, <1>3, <1>4, Ordered

\* A number that is a multiple of another, from both sides, has its size so.
LEMMA SizeOfMultiple ==
    ASSUME NEW x \in Fractions, NEW y \in Fractions, NEW k \in Amounts,
           AtMost(x, Times(y, k)), AtMost(Times(y, k), x)
    PROVE  AtMost(Size(x), Times(Size(y), k))
<1>1. k \in Fractions
  BY AmountIs
<1>2. PICK z : z = Times(y, k)
  OBVIOUS
<1>3. z \in Fractions /\ AtMost(x, z) /\ AtMost(z, x)
  BY <1>1, <1>2, Typed
<1>4. AtMost(Size(x), Size(z))
  <2>1. PICK d \in Nat : d > 0 /\ \E n \in Int, m \in Int : Is(x, n, d) /\ Is(z, m, d)
    BY <1>3, Common
  <2>2. PICK n \in Int, m \in Int : Is(x, n, d) /\ Is(z, m, d)
    BY <2>1
  <2>3. n = m
    BY <1>3, <2>1, <2>2, IsCompared
  <2>4. PICK b : b = IF n < 0 THEN -n ELSE n
    OBVIOUS
  <2>5. b \in Int /\ Is(Size(x), b, d) /\ Is(Size(z), b, d)
    BY <2>1, <2>2, <2>3, <2>4, IsSize
  <2> QED  BY <2>1, <2>5, IsCompared
<1>5. AtMost(Size(z), Times(Size(y), k))
  BY <1>2, SizeTimes
<1>6. Size(x) \in Fractions /\ Size(z) \in Fractions /\ Size(y) \in Fractions
  BY <1>3, SizeIs, AmountIs
<1> QED  BY <1>1, <1>4, <1>5, <1>6, Typed, Ordered

\* What is scaled by no more than the ratio of an exposure is within its limit.
LEMMA RatioSuffices ==
    ASSUME NEW o \in Amounts, NEW l \in Amounts, NEW k \in Fractions, AtMost(k, Ratio(o, l)),
           NEW m \in Fractions, AtMost(m, Times(o, k))
    PROVE  AtMost(m, l)
<1>1. o \in Fractions /\ l \in Fractions /\ Ratio(o, l) \in Fractions
      /\ AtMost(Times(o, Ratio(o, l)), l)
  BY AmountIs, RatioHolds DEF Unit
<1>2. AtMost(Times(o, k), Times(o, Ratio(o, l)))
  BY <1>1, FactorsKeep
<1>3. Times(o, k) \in Fractions /\ Times(o, Ratio(o, l)) \in Fractions
  BY <1>1, Typed
<1>4. AtMost(m, Times(o, Ratio(o, l)))
  BY <1>2, <1>3, Ordered
<1> QED  BY <1>1, <1>3, <1>4, Ordered

-----------------------------------------------------------------------------
(* From a flat book every request is cut down to one that can be reached *)

\* A book scaled by no more than each of its ratios is within the limits of exposure.
LEMMA ScaledIsWithin ==
    ASSUME BookAssumption, NEW w \in Books, NEW L, IsLimits(L), NEW k \in Unit,
           \A j \in Ratios(w, L) : AtMost(k, j)
    PROVE  WithinExposure(Scale(w, k), L)
<1>1. k \in Fractions /\ k \in Amounts
  BY AmountIs DEF Unit
<1>2. PICK v : v = Scale(w, k)
  OBVIOUS
<1>3. v \in Books /\ \A a \in Assets : v[a] = Times(w[a], k) /\ w[a] \in Fractions
  BY <1>1, <1>2, Typed DEF Scale, Books
<1>4. ASSUME NEW a \in Assets PROVE ~Less(L.position, Size(v[a]))
  <2>1. Ratio(Size(w[a]), L.position) \in Ratios(w, L)
    BY DEF Ratios
  <2>2. Size(w[a]) \in Amounts /\ Size(v[a]) \in Fractions
        /\ AtMost(Size(v[a]), Times(Size(w[a]), k))
    BY <1>1, <1>3, SizeIs, SizeTimes, AmountIs DEF Books
  <2>3. AtMost(k, Ratio(Size(w[a]), L.position)) /\ L.position \in Amounts
    BY <2>1 DEF IsLimits
  <2>4. AtMost(Size(v[a]), L.position)
    BY <1>1, <2>2, <2>3, RatioSuffices
  <2> QED  BY <2>4 DEF AtMost
<1>5. ASSUME NEW a \in Assets PROVE ~Less(L.sector, SectorGross(v, SectorOf[a]))
  <2>1. PICK s : s = SectorOf[a]
    OBVIOUS
  <2>2. Ratio(SectorGross(w, s), L.sector) \in Ratios(w, L)
    BY <2>1 DEF Ratios
  <2> DEFINE x == [b \in Assets |-> IF SectorOf[b] = s THEN v[b] ELSE Zero]
             y == [b \in Assets |-> IF SectorOf[b] = s THEN w[b] ELSE Zero]
  <2>3. x \in Books /\ y \in Books
    BY <1>3, Numbers DEF Books, Unit
  <2>4. ASSUME NEW b \in Assets PROVE AtMost(Size(x[b]), Times(Size(y[b]), k))
    <3>1. CASE SectorOf[b] = s
      <4>1. AtMost(Size(Times(w[b], k)), Times(Size(w[b]), k))
        BY <1>1, <1>3, SizeTimes
      <4> QED  BY <1>3, <3>1, <4>1
    <3>2. CASE SectorOf[b] # s
      <4>1. Size(Zero) = Zero /\ Zero \in Fractions
        BY Numbers, SizeIs DEF Unit
      <4>2. Times(Zero, k) = Zero
        BY <4>1, ScaledDown
      <4>3. AtMost(Zero, Zero)
        BY Numbers DEF Unit
      <4> QED  BY <3>2, <4>1, <4>2, <4>3
    <3> QED  BY <3>1, <3>2
  <2>5. SectorGross(v, s) = Gross(x) /\ SectorGross(w, s) = Gross(y)
    BY DEF SectorGross
  <2> HIDE DEF x, y
  <2>6. AtMost(SectorGross(v, s), Times(SectorGross(w, s), k))
    BY <1>1, <2>3, <2>4, <2>5, GrossBounded
  <2>7. SectorGross(w, s) \in Amounts /\ SectorGross(v, s) \in Fractions
    BY <1>3, Measured, AmountIs
  <2>8. AtMost(k, Ratio(SectorGross(w, s), L.sector)) /\ L.sector \in Amounts
    BY <2>2 DEF IsLimits
  <2>9. AtMost(SectorGross(v, s), L.sector)
    BY <1>1, <2>6, <2>7, <2>8, RatioSuffices
  <2> QED  BY <2>1, <2>9 DEF AtMost
<1>6. ~Less(L.gross, Gross(v))
  <2>1. AtMost(k, Ratio(Gross(w), L.gross)) /\ L.gross \in Amounts
    BY DEF Ratios, IsLimits
  <2>2. \A a \in Assets : AtMost(Size(v[a]), Times(Size(w[a]), k))
    BY <1>1, <1>3, SizeTimes
  <2>3. AtMost(Gross(v), Times(Gross(w), k))
    BY <1>1, <1>3, <2>2, GrossBounded
  <2>4. Gross(w) \in Amounts /\ Gross(v) \in Fractions
    BY <1>3, Measured, AmountIs
  <2>5. AtMost(Gross(v), L.gross)
    BY <1>1, <2>1, <2>3, <2>4, RatioSuffices
  <2> QED  BY <2>5 DEF AtMost
<1>7. ASSUME NEW f \in Books, NEW g \in Books, NEW l \in Amounts, AtMost(k, Ratio(Size(Total(g)), l)),
             \A a \in Assets : AtMost(f[a], Times(g[a], k)) /\ AtMost(Times(g[a], k), f[a])
      PROVE  ~Less(l, Size(Total(f)))
  <2>1. IsFiniteSet(Assets)
    BY DEF BookAssumption
  <2>2. Total(f) \in Fractions /\ Total(g) \in Fractions
    BY <2>1, TotalTyped DEF Books
  <2>3. AtMost(Total(f), Times(Total(g), k)) /\ AtMost(Times(Total(g), k), Total(f))
    BY <1>1, <1>7, <2>1, TotalBounded DEF Books
  <2>4. AtMost(Size(Total(f)), Times(Size(Total(g)), k))
    BY <1>1, <2>2, <2>3, SizeOfMultiple
  <2>5. Size(Total(g)) \in Amounts /\ Size(Total(f)) \in Fractions
    BY <2>2, SizeIs, AmountIs
  <2>6. AtMost(Size(Total(f)), l)
    BY <1>1, <1>7, <2>4, <2>5, RatioSuffices
  <2> QED  BY <2>6 DEF AtMost
<1>8. ~Less(L.net, Size(Net(v)))
  <2>1. AtMost(k, Ratio(Size(Net(w)), L.net)) /\ L.net \in Amounts
    BY DEF Ratios, IsLimits
  <2>2. ASSUME NEW a \in Assets PROVE AtMost(v[a], Times(w[a], k)) /\ AtMost(Times(w[a], k), v[a])
    <3>1. v[a] \in Fractions /\ v[a] = Times(w[a], k)
      BY <1>3 DEF Books
    <3> QED  BY <3>1, Ordered
  <2> QED  BY <1>3, <1>7, <2>1, <2>2 DEF Net
<1>9. ~Less(L.beta, Size(Beta(v)))
  <2> DEFINE f == [a \in Assets |-> Times(v[a], BetaOf[a])]
             g == [a \in Assets |-> Times(w[a], BetaOf[a])]
  <2>1. AtMost(k, Ratio(Size(Total(g)), L.beta)) /\ L.beta \in Amounts
    BY DEF Ratios, IsLimits, Beta
  <2>2. ASSUME NEW a \in Assets
        PROVE  /\ f[a] \in Fractions /\ g[a] \in Fractions
               /\ AtMost(f[a], Times(g[a], k)) /\ AtMost(Times(g[a], k), f[a])
    <3>1. PICK x, b : x = w[a] /\ b = BetaOf[a]
      OBVIOUS
    <3>2. x \in Fractions /\ b \in Fractions
      BY <3>1 DEF Books, BookAssumption
    <3>3. f[a] = Times(Times(x, k), b) /\ g[a] = Times(x, b)
      BY <1>3, <3>1
    <3>4. PICK n, d, m, e, r, h : n = x[1] /\ d = x[2] /\ m = b[1] /\ e = b[2] /\ r = k[1] /\ h = k[2]
      OBVIOUS
    <3>5. /\ n \in Int /\ d \in Nat /\ d > 0 /\ Is(x, n, d) /\ m \in Int /\ e \in Nat /\ e > 0 /\ Is(b, m, e)
          /\ r \in Int /\ h \in Nat /\ h > 0 /\ Is(k, r, h)
      BY <1>1, <3>2, <3>4, Parts, IsItself
    <3>6. /\ n * r \in Int /\ d * h \in Nat /\ d * h > 0 /\ Is(Times(x, k), n * r, d * h)
          /\ n * m \in Int /\ d * e \in Nat /\ d * e > 0 /\ Is(Times(x, b), n * m, d * e)
      BY <3>5, IsTimes
    <3>7. /\ Is(Times(Times(x, k), b), (n * r) * m, (d * h) * e)
          /\ Is(Times(Times(x, b), k), (n * m) * r, (d * e) * h)
      BY <3>5, <3>6, IsTimes
    <3>8. PICK p, q : p = (n * r) * m /\ q = (d * h) * e
      OBVIOUS
    <3>9. p \in Int /\ q \in Nat /\ q > 0 /\ (n * m) * r = p /\ (d * e) * h = q
      BY <3>5, <3>6, <3>8
    <3>10. Is(Times(Times(x, k), b), p, q) /\ Is(Times(Times(x, b), k), p, q)
      BY <3>7, <3>8, <3>9
    <3>11. /\ AtMost(Times(Times(x, k), b), Times(Times(x, b), k))
           /\ AtMost(Times(Times(x, b), k), Times(Times(x, k), b))
      BY <3>9, <3>10, IsCompared
    <3> QED  BY <3>3, <3>6, <3>10, <3>11 DEF Is
  <2>3. f \in Books /\ g \in Books
    BY <2>2 DEF Books
  <2>4. Beta(v) = Total(f)
    BY DEF Beta
  <2> HIDE DEF f, g
  <2> QED  BY <1>7, <2>1, <2>2, <2>3, <2>4
<1> QED  BY <1>2, <1>4, <1>5, <1>6, <1>8, <1>9 DEF WithinExposure

\* A quantity bounded by a multiple of another takes no more than that multiple of what
\* the other takes of a volume.
LEMMA ShareBounded ==
    ASSUME NEW A \in Fractions, NEW B \in Fractions, NEW k \in Fractions, AtMost(A, Times(B, k)),
           NEW value \in Amounts, NEW vol \in Fractions, Less(Zero, vol)
    PROVE  AtMost(Over(Times(A, value), vol), Times(Over(Times(B, value), vol), k))
<1>1. value \in Fractions /\ AtMost(Zero, value)
  BY AmountIs
<1>2. PICK d \in Nat, e \in Nat, m \in Int, n \in Int, r \in Int : WithFactor(B, A, k, d, e, m, n, r)
  BY FactorThere
<1>3. /\ d > 0 /\ e > 0 /\ d * e \in Nat /\ d * e > 0 /\ Is(B, m, d) /\ Is(A, n, d) /\ Is(k, r, e)
      /\ Is(A, n * e, d * e) /\ Is(Times(B, k), m * r, d * e)
  BY <1>2 DEF WithFactor
<1>4. n * e <= m * r
  <2>1. PICK s, t : s = n * e /\ t = m * r
    OBVIOUS
  <2>2. s \in Int /\ t \in Int
    BY <2>1
  <2> QED  BY <1>3, <2>1, <2>2, IsCompared
<1>5. PICK h \in Nat : h > 0 /\ \E i \in Int, j \in Int : Is(value, i, h) /\ Is(vol, j, h)
  BY <1>1, Common
<1>6. PICK i \in Int, j \in Int : Is(value, i, h) /\ Is(vol, j, h)
  BY <1>5
<1>7. 0 <= i /\ 0 < j
  BY <1>1, <1>5, <1>6, IsNumber, IsCompared, LessIs
<1>8. /\ n * i \in Int /\ m * i \in Int /\ d * h \in Nat /\ d * h > 0
      /\ j * d \in Nat /\ j * d > 0 /\ h * d = d * h
  BY <1>3, <1>5, <1>7
<1>9. Is(Times(A, value), n * i, d * h)
      /\ Is(Times(B, value), m * i, d * h) /\ Is(vol, j * d, d * h)
  BY <1>3, <1>5, <1>6, <1>8, IsTimes, IsExpanded
<1>10. Is(Over(Times(A, value), vol), n * i, j * d) /\ Is(Over(Times(B, value), vol), m * i, j * d)
  BY <1>8, <1>9, IsOver
<1>11. /\ Is(Over(Times(A, value), vol), (n * i) * e, (j * d) * e)
       /\ Is(Times(Over(Times(B, value), vol), k), (m * i) * r, (j * d) * e)
  BY <1>3, <1>8, <1>10, IsExpanded, IsTimes
<1>12. (n * i) * e <= (m * i) * r
  <2>1. (n * i) * e = (n * e) * i /\ (m * i) * r = (m * r) * i
    OBVIOUS
  <2>2. PICK s, t : s = n * e /\ t = m * r
    OBVIOUS
  <2>3. s \in Int /\ t \in Int /\ s <= t
    BY <1>4, <2>2
  <2>4. (t - s) * i >= 0 /\ (t - s) * i = t * i - s * i
    BY <1>7, <2>3
  <2>5. s * i <= t * i
    BY <2>3, <2>4
  <2> QED  BY <2>1, <2>2, <2>5
<1>13. PICK p, q, u : p = (n * i) * e /\ q = (m * i) * r /\ u = (j * d) * e
  OBVIOUS
<1>14. p \in Int /\ q \in Int /\ u \in Nat /\ u > 0
  BY <1>3, <1>8, <1>13
<1> QED  BY <1>11, <1>12, <1>13, <1>14, IsCompared

\* A trade from a flat book that is bounded by a multiple of another takes no more than
\* that multiple of the volume.
LEMMA ParticipationBounded ==
    ASSUME NEW v \in Books, NEW w \in Books, NEW rows, IsRows(rows), NEW value \in Amounts,
           NEW a \in Assets, rows[a].volume # Zero, NEW k \in Amounts,
           AtMost(Size(v[a]), Times(Size(w[a]), k))
    PROVE  AtMost(Participation(Flat, v, a, rows, value),
                  Times(Participation(Flat, w, a, rows, value), k))
<1>1. PICK A, B, vol : A = Size(Minus(v[a], Zero)) /\ B = Size(Minus(w[a], Zero)) /\ vol = rows[a].volume
  OBVIOUS
<1>2. v[a] \in Fractions /\ w[a] \in Fractions /\ k \in Fractions /\ value \in Fractions
      /\ vol \in Amounts /\ vol \in Fractions /\ Less(Zero, vol) /\ AtMost(Zero, value)
  BY <1>1, AmountIs, PositiveIs DEF Books, IsRows, Rows
<1>3. A \in Fractions /\ B \in Fractions /\ AtMost(A, Times(B, k))
  <2>1. PICK x, y : x = v[a] /\ y = w[a]
    OBVIOUS
  <2>2. x \in Fractions /\ y \in Fractions /\ AtMost(Size(x), Times(Size(y), k))
    BY <1>2, <2>1
  <2>3. A \in Fractions /\ B \in Fractions /\ Size(x) \in Fractions /\ Size(y) \in Fractions
        /\ AtMost(A, Size(x)) /\ AtMost(Size(y), B)
    BY <1>1, <2>1, <2>2, MinusNothing, SizeIs, AmountIs
  <2>4. AtMost(Times(Size(y), k), Times(B, k))
        /\ Times(Size(y), k) \in Fractions /\ Times(B, k) \in Fractions
    BY <1>2, <2>3, TimesKeeps, Typed
  <2>5. AtMost(A, Times(Size(y), k))
    BY <2>2, <2>3, <2>4, Ordered
  <2> QED  BY <2>3, <2>4, <2>5, Ordered
<1>4. AtMost(Over(Times(A, value), vol), Times(Over(Times(B, value), vol), k))
  BY <1>2, <1>3, ShareBounded
<1>5. /\ Participation(Flat, v, a, rows, value) = Over(Times(A, value), vol)
      /\ Participation(Flat, w, a, rows, value) = Over(Times(B, value), vol)
  BY <1>1 DEF Participation, Flat
<1> QED  BY <1>4, <1>5

\* From a flat book the turnover limit leaves no more than it allows.
LEMMA TurnoverKept ==
    ASSUME BookAssumption, NEW t \in Books, NEW L, IsLimits(L)
    PROVE  AtMost(Gross(LimitTurnover(t, Flat, L)), L.turnover)
<1>1. PICK k, l : k = Ratio(Gross(t), L.turnover) /\ l = LimitTurnover(t, Flat, L)
  OBVIOUS
<1>2. Gross(t) \in Amounts /\ Gross(t) \in Fractions
      /\ L.turnover \in Amounts /\ L.turnover \in Fractions
  BY Measured, AmountIs DEF IsLimits
<1>3. k \in Unit /\ k \in Fractions /\ k \in Amounts /\ AtMost(Times(Gross(t), k), L.turnover)
  BY <1>1, <1>2, RatioHolds, AmountIs DEF Unit
<1>4. l = [a \in Assets |-> Plus(Zero, Times(Minus(t[a], Zero), k))]
  BY <1>1 DEF LimitTurnover, Gross, Flat
<1>5. ASSUME NEW a \in Assets PROVE l[a] \in Fractions /\ AtMost(Size(l[a]), Times(Size(t[a]), k))
  <2>1. PICK x, y : x = l[a] /\ y = t[a]
    OBVIOUS
  <2>2. y \in Fractions /\ x = Plus(Zero, Times(Minus(y, Zero), k))
    BY <1>4, <2>1 DEF Books
  <2> QED  BY <1>3, <2>1, <2>2, FromNothing
<1>6. l \in Books
  BY <1>4, <1>5 DEF Books
<1>7. AtMost(Gross(l), Times(Gross(t), k))
  BY <1>3, <1>5, <1>6, GrossBounded
<1>8. Gross(l) \in Fractions /\ Times(Gross(t), k) \in Fractions
  BY <1>2, <1>3, <1>6, Measured, AmountIs, Typed
<1> QED  BY <1>1, <1>2, <1>3, <1>7, <1>8, Ordered

\* From a flat book the participation limit only cuts, to trades within their
\* share of a volume that is there.
LEMMA ParticipationKept ==
    ASSUME BookAssumption, NEW l \in Books, NEW rows, IsRows(rows), NEW L, IsLimits(L),
           NEW value \in Amounts, NEW r, r = LimitParticipation(l, Flat, rows, L, value)
    PROVE  /\ Below(r, l)
           /\ \A a \in Assets : r[a] # Zero =>
                /\ rows[a].volume # Zero
                /\ AtMost(Participation(Flat, r, a, rows, value), L.participation)
<1>1. Flat \in Books /\ Zero \in Fractions /\ \A a \in Assets : Flat[a] = Zero
  BY Measured, Numbers DEF Flat, Unit
<1>2. r \in Books /\ \A a \in Assets : Between(Zero, r[a], l[a])
  <2>1. /\ LimitParticipation(l, Flat, rows, L, value) \in Books
        /\ \A a \in Assets : Between(Flat[a], LimitParticipation(l, Flat, rows, L, value)[a], l[a])
    BY <1>1, ParticipationMoves
  <2> QED  BY <1>1, <2>1
<1>3. Below(r, l)
  <2>1. ASSUME NEW a \in Assets PROVE Shrunk(r[a], l[a])
    <3>1. AtMost(Zero, l[a]) \/ AtMost(l[a], Zero)
      BY <1>1, Ordered DEF Books
    <3> QED  BY <1>2, <3>1 DEF Between, Shrunk
  <2> QED  BY <1>2, <2>1 DEF Below
<1>4. ASSUME NEW a \in Assets, r[a] # Zero
      PROVE  /\ rows[a].volume # Zero
             /\ AtMost(Participation(Flat, r, a, rows, value), L.participation)
  <2>1. r[a] = IF l[a] = Zero \/ rows[a].volume = Zero THEN Zero
               ELSE LET k == Ratio(Participation(Flat, l, a, rows, value), L.participation)
                    IN  Plus(Zero, Times(Minus(l[a], Zero), k))
    BY <1>1 DEF LimitParticipation
  <2>2. PICK p, k : p = Participation(Flat, l, a, rows, value) /\ k = Ratio(p, L.participation)
    OBVIOUS
  <2>3. rows[a].volume # Zero /\ r[a] = Plus(Zero, Times(Minus(l[a], Zero), k))
    BY <1>4, <2>1, <2>2
  <2>4. p \in Amounts /\ p \in Fractions /\ L.participation \in Amounts
        /\ L.participation \in Fractions
    BY <1>1, <2>2, <2>3, ParticipationTyped, AmountIs DEF IsLimits
  <2>5. k \in Unit /\ k \in Fractions /\ k \in Amounts /\ AtMost(Times(p, k), L.participation)
    BY <2>2, <2>4, RatioHolds, AmountIs DEF Unit
  <2>6. AtMost(Size(r[a]), Times(Size(l[a]), k))
    <3>1. PICK x, y : x = r[a] /\ y = l[a]
      OBVIOUS
    <3>2. y \in Fractions /\ x = Plus(Zero, Times(Minus(y, Zero), k))
      BY <2>3, <3>1 DEF Books
    <3> QED  BY <2>5, <3>1, <3>2, FromNothing
  <2>7. AtMost(Participation(Flat, r, a, rows, value), Times(p, k))
    BY <1>2, <2>2, <2>3, <2>5, <2>6, ParticipationBounded
  <2>8. Participation(Flat, r, a, rows, value) \in Fractions /\ Times(p, k) \in Fractions
    BY <1>1, <1>2, <2>3, <2>4, <2>5, ParticipationTyped, AmountIs, Typed
  <2> QED  BY <2>3, <2>4, <2>5, <2>7, <2>8, Ordered
<1> QED  BY <1>3, <1>4

\* A book below one that takes no more than its share takes no more either.
LEMMA BelowKept ==
    ASSUME NEW v \in Books, NEW w \in Books, Below(v, w), Flat \in Books, NEW rows, IsRows(rows),
           NEW value \in Amounts, NEW a \in Assets, rows[a].volume # Zero, NEW l \in Fractions,
           AtMost(Participation(Flat, w, a, rows, value), l)
    PROVE  AtMost(Participation(Flat, v, a, rows, value), l)
<1>1. PICK x, y : x = v[a] /\ y = w[a]
  OBVIOUS
<1>2. x \in Fractions /\ y \in Fractions /\ Shrunk(x, y)
  BY <1>1 DEF Books, Below
<1>3. Size(x) \in Fractions /\ Size(y) \in Fractions /\ AtMost(Size(x), Size(y))
  BY <1>2, ShrunkSize, SizeIs, AmountIs
<1>4. AtMost(Size(y), Times(Size(y), One)) /\ Times(Size(y), One) \in Fractions
  BY <1>3, TimesOne, Typed, Numbers DEF Unit
<1>5. AtMost(Size(v[a]), Times(Size(w[a]), One))
  BY <1>1, <1>3, <1>4, Ordered
<1>6. PICK p, q : p = Participation(Flat, v, a, rows, value) /\ q = Participation(Flat, w, a, rows, value)
  OBVIOUS
<1>7. AtMost(p, Times(q, One))
  BY <1>5, <1>6, ParticipationBounded, Numbers
<1>8. p \in Fractions /\ q \in Fractions
  BY <1>6, ParticipationTyped, AmountIs
<1>9. AtMost(Times(q, One), q) /\ Times(q, One) \in Fractions
  BY <1>8, TimesOne, Typed, Numbers DEF Unit
<1> QED  BY <1>6, <1>7, <1>8, <1>9, Ordered

\* From a flat book the constructor gives a book that passes the checks at its end
\* (constrain_target_weights).
LEMMA FlatReached ==
    ASSUME BookAssumption, NEW desired \in Books, NEW rows, IsRows(rows), NEW L, IsLimits(L),
           NEW value \in Amounts
    PROVE  /\ Constrained(desired, rows, Flat, L, value) \in Books
           /\ Reachable(Constrained(desired, rows, Flat, L, value), rows, Flat, L, value)
<1>1. PICK t : t = Target(desired, rows, L)
  OBVIOUS
<1>2. t \in Books
  BY <1>1, AdmittedIs, TargetIs DEF Below
<1>3. Flat \in Books /\ \A a \in Assets : Flat[a] = Zero
  BY Measured DEF Flat
<1>4. PICK l : l = LimitTurnover(t, Flat, L)
  OBVIOUS
<1>5. l \in Books /\ AtMost(Gross(l), L.turnover)
  BY <1>2, <1>3, <1>4, TurnoverMoves, TurnoverKept
<1>6. PICK r : r = LimitParticipation(l, Flat, rows, L, value)
  OBVIOUS
<1>7. /\ Below(r, l) /\ r \in Books
      /\ \A a \in Assets : r[a] # Zero =>
           rows[a].volume # Zero /\ AtMost(Participation(Flat, r, a, rows, value), L.participation)
  <2>1. /\ Below(r, l)
        /\ \A a \in Assets : r[a] # Zero =>
             /\ rows[a].volume # Zero
             /\ AtMost(Participation(Flat, r, a, rows, value), L.participation)
    BY <1>5, <1>6, ParticipationKept
  <2> QED  BY <2>1 DEF Below
<1>8. PICK k \in Unit : Project(r, L) = Scale(r, k) /\ \A j \in Ratios(r, L) : AtMost(k, j)
  BY <1>7, ProjectScales
<1>9. PICK p : p = Scale(r, k)
  OBVIOUS
<1>10. p = Constrained(desired, rows, Flat, L, value)
  BY <1>1, <1>4, <1>6, <1>8, <1>9, ConstrainedIs
<1>11. WithinExposure(p, L)
  BY <1>7, <1>8, <1>9, ScaledIsWithin
<1>12. Below(p, r) /\ p \in Books /\ \A a \in Assets : r[a] = Zero => p[a] = Zero
  <2> DEFINE f == [a \in Assets |-> k]
  <2>1. f \in [Assets -> Unit] /\ p = [a \in Assets |-> Times(r[a], f[a])]
    BY <1>9 DEF Scale
  <2>2. \A a \in Assets : p[a] = Times(r[a], k) /\ r[a] \in Fractions
    BY <1>7, <1>9 DEF Scale, Books
  <2> HIDE DEF f
  <2>3. Below(p, r)
    BY <1>7, <2>1, EachScaled
  <2> QED  BY <1>8, <2>2, <2>3, ScaledDown DEF Below
<1>13. ~Less(L.turnover, Distance(p, Flat))
  <2>1. AtMost(Gross(p), Gross(r)) /\ AtMost(Gross(r), Gross(l))
    BY <1>5, <1>7, <1>12, GrossShrinks
  <2>2. Gross(p) \in Fractions /\ Gross(r) \in Fractions
        /\ Gross(l) \in Fractions /\ L.turnover \in Fractions
    BY <1>5, <1>7, <1>12, Measured, AmountIs DEF IsLimits
  <2>3. AtMost(Gross(p), Gross(l))
    BY <2>1, <2>2, Ordered
  <2>4. AtMost(Gross(p), L.turnover)
    BY <1>5, <2>2, <2>3, Ordered
  <2> QED  BY <2>4 DEF Gross, AtMost
<1>14. ASSUME NEW a \in Assets, p[a] # Flat[a]
       PROVE  rows[a].volume # Zero /\ ~Less(L.participation, Participation(Flat, p, a, rows, value))
  <2>1. r[a] # Zero
    BY <1>3, <1>12, <1>14
  <2>2. rows[a].volume # Zero /\ AtMost(Participation(Flat, r, a, rows, value), L.participation)
    BY <1>7, <2>1
  <2>3. L.participation \in Fractions
    BY AmountIs DEF IsLimits
  <2>4. AtMost(Participation(Flat, p, a, rows, value), L.participation)
    BY <1>3, <1>7, <1>12, <2>2, <2>3, BelowKept
  <2> QED  BY <2>2, <2>4 DEF AtMost
<1> QED  BY <1>10, <1>11, <1>12, <1>13, <1>14 DEF Reachable

-----------------------------------------------------------------------------
(* The types of the book *)

Moves == {r \in Fractions : Less(Negative(One), r)}

TypedBook ==
    /\ positions \in Books /\ equity \in Amounts
    /\ meta \in [Assets -> Rows] /\ returns \in [Assets -> Moves]

\* What the constructor gives is a book.
LEMMA ConstrainedTyped ==
    ASSUME BookAssumption, NEW desired \in Books, NEW rows, IsRows(rows), NEW L, IsLimits(L),
           NEW current \in Books, NEW value \in Amounts
    PROVE  Constrained(desired, rows, current, L, value) \in Books
<1>1. PICK t : t = Target(desired, rows, L)
  OBVIOUS
<1>2. t \in Books
  BY <1>1, AdmittedIs, TargetIs DEF Below
<1>3. PICK l : l = LimitTurnover(t, current, L)
  OBVIOUS
<1>4. l \in Books
  BY <1>2, <1>3, TurnoverMoves
<1>5. PICK r : r = LimitParticipation(l, current, rows, L, value)
  OBVIOUS
<1>6. r \in Books
  BY <1>4, <1>5, ParticipationMoves
<1>7. PICK k \in Unit : Project(r, L) = Scale(r, k)
  BY <1>6, ProjectScales
<1>8. Scale(r, k) \in Books
  BY <1>6, Typed DEF Scale, Books, Unit
<1> QED  BY <1>1, <1>3, <1>5, <1>7, <1>8, ConstrainedIs

\* The limits of an entry are limits too.
LEMMA EntryLimitsAre ==
    ASSUME BookAssumption
    PROVE  /\ IsLimits(Limits) /\ IsLimits(EntryLimits)
           /\ Less(Zero, Plus(Fraction(2, 1), Buffer)) /\ Less(Zero, Plus(One, Buffer))
           /\ Plus(Fraction(2, 1), Buffer) \in Fractions /\ Plus(One, Buffer) \in Fractions
<1>1. IsLimits(Limits)
  BY DEF IsLimits, BookAssumption
<1>2. Buffer \in Fractions /\ AtMost(Zero, Buffer)
  BY AmountIs DEF BookAssumption
<1>3. PICK b, d : b = Buffer[1] /\ d = Buffer[2]
  OBVIOUS
<1>4. b \in Int /\ d \in Nat /\ d > 0 /\ Is(Buffer, b, d) /\ Is(Zero, 0, d) /\ Is(One, d, d)
  BY <1>2, <1>3, Parts, IsItself, IsNumber
<1>5. 0 <= b
  BY <1>2, <1>4, IsCompared
<1>6. 2 \in Int /\ 1 \in Nat /\ 1 > 0 /\ Is(Fraction(2, 1), 2, 1)
  BY IsFraction
<1>7. Is(Fraction(2, 1), 2 * d, 1 * d) /\ 1 * d = d
  BY <1>4, <1>6, IsExpanded
<1>8. PICK x, p, q : x = Fraction(2, 1) /\ p = 2 * d + b /\ q = d + b
  OBVIOUS
<1>9. /\ Is(x, 2 * d, d) /\ 2 * d \in Int /\ d \in Int
      /\ p \in Int /\ q \in Int /\ ~(p <= 0) /\ ~(q <= 0)
  BY <1>4, <1>5, <1>7, <1>8
<1>10. Is(Plus(x, Buffer), 2 * d + b, d) /\ Is(Plus(One, Buffer), d + b, d)
  <2>1. Is(Plus(x, Buffer), 2 * d + b, d)
    BY <1>4, <1>9, IsPlus
  <2>2. Is(Plus(One, Buffer), d + b, d)
    BY <1>4, <1>9, IsPlus
  <2> QED  BY <2>1, <2>2
<1>11. PICK m, n : m = Plus(Fraction(2, 1), Buffer) /\ n = Plus(One, Buffer)
  OBVIOUS
<1>12. m \in Fractions /\ n \in Fractions /\ Less(Zero, m) /\ Less(Zero, n)
  <2>1. Is(m, p, d) /\ Is(n, q, d)
    BY <1>8, <1>10, <1>11
  <2>2. 0 \in Int /\ (AtMost(m, Zero) <=> p <= 0) /\ (AtMost(n, Zero) <=> q <= 0)
    BY <1>4, <1>9, <2>1, IsCompared
  <2> QED  BY <1>9, <2>1, <2>2, LessIs DEF Is
<1>13. IsLimits(EntryLimits)
  <2>1. CASE horizon # 1
    BY <1>1, <2>1 DEF EntryLimits
  <2>2. CASE horizon = 1
    <3>1. EntryLimits = [Limits EXCEPT !.turnover = Over(@, m), !.participation = Over(@, n)]
      BY <1>11, <2>2 DEF EntryLimits
    <3>2. Over(Limits.turnover, m) \in Amounts /\ Over(Limits.participation, n) \in Amounts
      BY <1>1, <1>12, OverTyped, AmountIs DEF IsLimits
    <3>3. /\ EntryLimits.position = Limits.position /\ EntryLimits.gross = Limits.gross
          /\ EntryLimits.net = Limits.net /\ EntryLimits.sector = Limits.sector
          /\ EntryLimits.beta = Limits.beta
          /\ EntryLimits.turnover = Over(Limits.turnover, m)
          /\ EntryLimits.participation = Over(Limits.participation, n)
      BY <3>1 DEF BookAssumption
    <3> QED  BY <1>1, <3>2, <3>3 DEF IsLimits
  <2> QED  BY <2>1, <2>2
<1> QED  BY <1>1, <1>11, <1>12, <1>13

\* What the market shows, what is wished for and what is selected.
LEMMA InputsTyped ==
    ASSUME BookAssumption
    PROVE  /\ NoRow \in Rows /\ Shown \subseteq [Assets -> Rows] /\ Predicted \subseteq [Assets -> Rows]
           /\ [Assets -> Wishes] \subseteq Books
           /\ \A score, ranked : Selected(score, ranked, Limits) \in Books
           /\ [Assets -> Returns] \subseteq [Assets -> Moves]
<1>1. NoRow \in Rows
  BY Numbers DEF NoRow, Rows
<1>2. Shown \subseteq [Assets -> Rows]
  BY DEF Shown, BookAssumption
<1>3. Predicted \subseteq [Assets -> Rows]
  BY <1>2 DEF Predicted
<1>4. [Assets -> Wishes] \subseteq Books
  BY DEF BookAssumption, Books
<1>5. ASSUME NEW score, NEW ranked PROVE Selected(score, ranked, Limits) \in Books
  <2>1. Limits.position \in Fractions
        /\ Negative(Limits.position) \in Fractions /\ Zero \in Fractions
    BY EntryLimitsAre, AmountIs, Typed, Numbers DEF IsLimits, Unit
  <2> QED  BY <2>1 DEF Selected, Books
<1>6. \A r \in Returns : r \in Moves
  BY DEF BookAssumption, Moves
<1> QED  BY <1>1, <1>2, <1>3, <1>4, <1>5, <1>6

\* A book after a move of the market, and what the move leaves of the value.
LEMMA MoveTyped ==
    ASSUME BookAssumption, NEW w \in Books, NEW move \in [Assets -> Moves]
    PROVE  /\ Drift(w, move) \in Books
           /\ Total([a \in Assets |-> Times(w[a], move[a])]) \in Fractions
<1> DEFINE f == [a \in Assets |-> Times(w[a], move[a])]
<1>1. \A a \in Assets : move[a] \in Fractions /\ w[a] \in Fractions
  BY DEF Moves, Books
<1>2. f \in [Assets -> Fractions]
  BY <1>1, Typed
<1> HIDE DEF f
<1>3. Total(f) \in Fractions
  BY <1>2, TotalTyped DEF BookAssumption
<1>4. PICK g : g = Plus(One, Total(f))
  OBVIOUS
<1>5. g \in Fractions /\ One \in Fractions
  BY <1>3, <1>4, Typed, Numbers DEF Unit
<1>6. Drift(w, move) = IF Less(Zero, g)
                       THEN [a \in Assets |-> Over(Times(w[a], Plus(One, move[a])), g)]
                       ELSE Flat
  BY <1>4 DEF Drift, f
<1>7. CASE Less(Zero, g)
  <2>1. ASSUME NEW a \in Assets PROVE Over(Times(w[a], Plus(One, move[a])), g) \in Fractions
    BY <1>1, <1>5, <1>7, Typed, OverTyped
  <2> QED  BY <1>3, <1>6, <1>7, <2>1 DEF Books, f
<1>8. CASE ~Less(Zero, g)
  BY <1>3, <1>6, <1>8, Measured DEF f
<1> QED  BY <1>7, <1>8

\* The value of the book after a return is an amount (rebalance, mark_to_market).
LEMMA GrownTyped ==
    ASSUME equity \in Amounts, NEW r \in Fractions
    PROVE  Grown(r) \in Amounts
<1>1. Plus(One, r) \in Fractions /\ Zero \in Fractions /\ Zero \in Amounts
  BY Typed, Numbers DEF Unit
<1>2. Greatest(Zero, Plus(One, r)) \in Amounts
  BY <1>1, Ordered, LessIs, AmountIs DEF Greatest
<1> QED  BY <1>2, ProductTyped DEF Grown

\* An event of the right types that is persisted, or fails to be, keeps them.
LEMMA PersistTypes ==
    ASSUME TypedBook, NEW e, e.equity \in Amounts, NEW weights \in Books,
           NEW rows \in [Assets -> Rows], Persist(e, weights, rows), UNCHANGED returns
    PROVE  TypedBook' /\ outcome' \in {"done", "raised"}
BY DEF TypedBook, Persist, Applied, AppendFails, book

-----------------------------------------------------------------------------
(* The exit of the same day *)

\* Nothing has no multiple and no share.
LEMMA OfNothing ==
    ASSUME NEW u \in Fractions, NEW g \in Fractions, Less(Zero, g)
    PROVE  Over(Times(Zero, u), g) = Zero
<1>1. PICK d \in Nat : d > 0 /\ \E i \in Int, m \in Int : Is(u, i, d) /\ Is(g, m, d)
  BY Common
<1>2. PICK i \in Int, m \in Int : Is(u, i, d) /\ Is(g, m, d)
  BY <1>1
<1>3. Is(Zero, 0, d) /\ 0 \in Int /\ d * d \in Nat /\ d * d > 0
  BY <1>1, IsNumber
<1>4. m > 0 /\ m \in Nat
  BY <1>1, <1>2, <1>3, IsCompared, LessIs
<1>5. Is(Times(Zero, u), 0 * i, d * d)
  BY <1>1, <1>2, <1>3, IsTimes
<1>6. 0 * i = 0
  BY <1>2
<1>7. Times(Zero, u) = Zero
  BY <1>3, <1>5, <1>6, IsZero
<1>8. Is(Over(Zero, g), 0, m)
  BY <1>1, <1>2, <1>3, <1>4, IsOver
<1> QED  BY <1>4, <1>7, <1>8, IsZero

\* A weight after a move, against the bound of the move.
LEMMA MovedBounded ==
    ASSUME NEW x \in Fractions, NEW u \in Amounts, NEW q \in Fractions, AtMost(u, q),
           NEW g \in Fractions, Less(Zero, g)
    PROVE  AtMost(Size(Over(Times(x, u), g)), Times(Size(x), Over(q, g)))
<1>1. u \in Fractions /\ AtMost(Zero, u)
  BY AmountIs
<1>2. PICK d \in Nat : d > 0 /\ \E n \in Int, i \in Int, j \in Int, m \in Int :
              Is(x, n, d) /\ Is(u, i, d) /\ Is(q, j, d) /\ Is(g, m, d)
  BY <1>1, CommonFour
<1>3. PICK n \in Int, i \in Int, j \in Int, m \in Int :
              Is(x, n, d) /\ Is(u, i, d) /\ Is(q, j, d) /\ Is(g, m, d)
  BY <1>2
<1>4. Is(Zero, 0, d) /\ 0 <= i /\ i <= j /\ m > 0 /\ m \in Nat
  BY <1>1, <1>2, <1>3, IsNumber, IsCompared, LessIs
<1>5. PICK b, s, t, dd, md : b = (IF n < 0 THEN -n ELSE n) /\ s = n * i /\ t = b * j
                            /\ dd = d * d /\ md = m * d
  OBVIOUS
<1>6. /\ b \in Int /\ 0 <= b /\ s \in Int /\ t \in Int /\ dd \in Nat /\ dd > 0 /\ md \in Nat /\ md > 0
      /\ d * m = md
  BY <1>2, <1>4, <1>5
<1>7. Is(Times(x, u), s, dd) /\ Is(g, md, dd)
  BY <1>2, <1>3, <1>4, <1>5, <1>6, IsTimes, IsExpanded
<1>8. Is(Over(Times(x, u), g), s, md)
  BY <1>6, <1>7, IsOver
<1>9. Is(Size(Over(Times(x, u), g)), IF s < 0 THEN -s ELSE s, md)
  BY <1>6, <1>8, IsSize
<1>10. Is(Size(x), b, d) /\ Is(Over(q, g), j, m)
  BY <1>2, <1>3, <1>4, <1>5, IsSize, IsOver
<1>11. Is(Times(Size(x), Over(q, g)), b * j, d * m)
  BY <1>2, <1>4, <1>6, <1>10, IsTimes
<1>12. (IF s < 0 THEN -s ELSE s) <= t
  <2>1. b * i <= b * j
    <3>1. b * (j - i) >= 0
      BY <1>4, <1>6
    <3>2. b * (j - i) = b * j - b * i
      BY <1>6
    <3> QED  BY <1>6, <3>1, <3>2
  <2>2. s <= b * i /\ -s <= b * i
    <3>1. n * i <= b * i /\ (-n) * i <= b * i
      <4>1. (b - n) * i >= 0 /\ (b + n) * i >= 0
        BY <1>4, <1>5, <1>6
      <4>2. (b - n) * i = b * i - n * i /\ (b + n) * i = b * i + n * i /\ (-n) * i = -(n * i)
        BY <1>6
      <4>3. PICK p, r : p = b * i /\ r = n * i
        OBVIOUS
      <4>4. p \in Int /\ r \in Int
        BY <1>6, <4>3
      <4> QED  BY <4>1, <4>2, <4>3, <4>4
    <3>2. (-n) * i = -s
      BY <1>5
    <3> QED  BY <1>5, <3>1, <3>2
  <2>3. PICK p : p = b * i
    OBVIOUS
  <2>4. p \in Int
    BY <1>6, <2>3
  <2> QED  BY <1>5, <1>6, <2>1, <2>2, <2>3, <2>4
<1>13. (IF s < 0 THEN -s ELSE s) \in Int
  BY <1>6
<1> QED  BY <1>5, <1>6, <1>9, <1>11, <1>12, <1>13, IsCompared

\* What is divided and multiplied again.
LEMMA OverTimes ==
    ASSUME NEW x \in Fractions, NEW y \in Fractions, NEW g \in Fractions, Less(Zero, g)
    PROVE  AtMost(Times(Times(x, Over(y, g)), g), Times(x, y))
<1>1. PICK d \in Nat : d > 0 /\ \E n \in Int, i \in Int, j \in Int, m \in Int :
              Is(x, n, d) /\ Is(x, i, d) /\ Is(y, j, d) /\ Is(g, m, d)
  BY CommonFour
<1>2. PICK n \in Int, i \in Int, j \in Int, m \in Int :
              Is(x, n, d) /\ Is(x, i, d) /\ Is(y, j, d) /\ Is(g, m, d)
  BY <1>1
<1>3. Is(Zero, 0, d) /\ m > 0 /\ m \in Nat
  BY <1>1, <1>2, IsNumber, IsCompared, LessIs
<1>4. PICK s, dm, dd : s = n * j /\ dm = d * m /\ dd = d * d
  OBVIOUS
<1>5. s \in Int /\ dm \in Nat /\ dm > 0 /\ dd \in Nat /\ dd > 0
  BY <1>1, <1>3, <1>4
<1>6. Is(Over(y, g), j, m) /\ Is(Times(x, y), s, dd)
  BY <1>1, <1>2, <1>3, <1>4, IsOver, IsTimes
<1>7. Is(Times(x, Over(y, g)), s, dm)
  BY <1>1, <1>2, <1>3, <1>4, <1>6, IsTimes
<1>8. Is(Times(Times(x, Over(y, g)), g), s * m, dm * d) /\ Is(Times(x, y), s * m, dd * m)
  BY <1>1, <1>2, <1>3, <1>5, <1>6, <1>7, IsTimes, IsExpanded
<1>9. dm * d = dd * m /\ s * m \in Int /\ dd * m \in Nat /\ dd * m > 0
  BY <1>1, <1>3, <1>4, <1>5
<1>10. PICK p, q : p = s * m /\ q = dd * m
  OBVIOUS
<1> QED  BY <1>8, <1>9, <1>10, IsCompared

\* What is at most a share is within the whole when multiplied.
LEMMA OverBounds ==
    ASSUME NEW x \in Fractions, NEW l \in Fractions, NEW q \in Fractions, Less(Zero, q),
           AtMost(x, Over(l, q))
    PROVE  AtMost(Times(x, q), l)
<1>1. PICK d \in Nat : d > 0 /\ \E n \in Int, i \in Int, j \in Int, m \in Int :
              Is(x, n, d) /\ Is(x, i, d) /\ Is(l, j, d) /\ Is(q, m, d)
  BY CommonFour
<1>2. PICK n \in Int, i \in Int, j \in Int, m \in Int :
              Is(x, n, d) /\ Is(x, i, d) /\ Is(l, j, d) /\ Is(q, m, d)
  BY <1>1
<1>3. Is(Zero, 0, d) /\ m > 0 /\ m \in Nat
  BY <1>1, <1>2, IsNumber, IsCompared, LessIs
<1>4. PICK s, t, dm, dd : s = n * m /\ t = j * d /\ dm = d * m /\ dd = d * d
  OBVIOUS
<1>5. /\ s \in Int /\ t \in Int /\ dm \in Nat /\ dm > 0 /\ dd \in Nat /\ dd > 0 /\ m * d = dm
  BY <1>1, <1>3, <1>4
<1>6. Is(Over(l, q), j, m)
  BY <1>1, <1>2, <1>3, IsOver
<1>7. Is(Over(l, q), t, dm) /\ Is(x, s, dm)
  BY <1>1, <1>2, <1>3, <1>4, <1>5, <1>6, IsExpanded
<1>8. s <= t
  BY <1>5, <1>7, IsCompared
<1>9. Is(Times(x, q), s, dd) /\ Is(l, t, dd)
  BY <1>1, <1>2, <1>3, <1>4, IsTimes, IsExpanded
<1> QED  BY <1>5, <1>8, <1>9, IsCompared

\* The trade of the entry and the most that the one of the exit can be.
LEMMA RoundTrip ==
    ASSUME NEW x \in Fractions, NEW b \in Fractions
    PROVE  AtMost(Plus(x, Times(x, Plus(One, b))), Times(x, Plus(Fraction(2, 1), b)))
<1>1. PICK d \in Nat : d > 0 /\ \E n \in Int, i \in Int : Is(x, n, d) /\ Is(b, i, d)
  BY Common
<1>2. PICK n \in Int, i \in Int : Is(x, n, d) /\ Is(b, i, d)
  BY <1>1
<1>3. d \in Int /\ Is(One, d, d) /\ Is(Fraction(2, 1), 2, 1) /\ 2 \in Int /\ 1 \in Nat
  BY <1>1, IsNumber, IsFraction
<1>4. Is(Fraction(2, 1), 2 * d, 1 * d)
  BY <1>1, <1>3, IsExpanded
<1>5. 1 * d = d /\ 2 * d \in Int
  BY <1>1
<1>6. PICK two : two = Fraction(2, 1)
  OBVIOUS
<1>7. Is(two, 2 * d, d)
  BY <1>4, <1>5, <1>6
<1>8. Is(Plus(One, b), d + i, d)
  BY <1>1, <1>2, <1>3, IsPlus
<1>9. Is(Plus(two, b), 2 * d + i, d)
  BY <1>1, <1>2, <1>5, <1>7, IsPlus
<1>10. PICK u, v, dd : u = d + i /\ v = 2 * d + i /\ dd = d * d
  OBVIOUS
<1>11. u \in Int /\ v \in Int /\ dd \in Nat /\ dd > 0
  BY <1>1, <1>2, <1>10
<1>12. Is(Times(x, Plus(One, b)), n * u, dd)
       /\ Is(Times(x, Plus(two, b)), n * v, dd) /\ Is(x, n * d, dd)
  BY <1>1, <1>2, <1>8, <1>9, <1>10, <1>11, IsTimes, IsExpanded
<1>13. n * u \in Int /\ n * v \in Int /\ n * d \in Int
  BY <1>1, <1>11
<1>14. Is(Plus(x, Times(x, Plus(One, b))), n * d + n * u, dd)
  BY <1>11, <1>12, <1>13, IsPlus
<1>15. n * d + n * u = n * v
  <2>1. n * (d + i) = n * d + n * i /\ n * (2 * d + i) = n * d + n * d + n * i
    BY <1>1
  <2> QED  BY <1>10, <1>13, <2>1
<1>16. PICK p : p = n * v
  OBVIOUS
<1>17. Is(Plus(x, Times(x, Plus(One, b))), p, dd) /\ Is(Times(x, Plus(two, b)), p, dd) /\ p \in Int
  BY <1>12, <1>13, <1>14, <1>15, <1>16
<1> QED  BY <1>6, <1>11, <1>17, IsCompared

\* A move above -1 and no higher than the buffer.
LEMMA MoveBounded ==
    ASSUME NEW r \in Moves, NEW b \in Fractions, AtMost(r, b)
    PROVE  Plus(One, r) \in Amounts /\ AtMost(Plus(One, r), Plus(One, b))
<1>1. r \in Fractions /\ Less(Negative(One), r)
  BY DEF Moves
<1>2. PICK d \in Nat : d > 0 /\ \E n \in Int, i \in Int : Is(r, n, d) /\ Is(b, i, d)
  BY <1>1, Common
<1>3. PICK n \in Int, i \in Int : Is(r, n, d) /\ Is(b, i, d)
  BY <1>2
<1>4. d \in Int /\ Is(One, d, d) /\ Is(Zero, 0, d) /\ -d \in Int /\ Is(Negative(One), -d, d)
  BY <1>2, IsNumber, IsNegative
<1>5. Is(Plus(One, r), d + n, d) /\ Is(Plus(One, b), d + i, d)
  BY <1>2, <1>3, <1>4, IsPlus
<1>6. n <= i /\ -d < n
  BY <1>1, <1>2, <1>3, <1>4, IsCompared, LessIs
<1>7. PICK s, t : s = d + n /\ t = d + i
  OBVIOUS
<1>8. s \in Int /\ t \in Int /\ s <= t /\ 0 <= s
  BY <1>2, <1>6, <1>7
<1>9. Is(Plus(One, r), s, d) /\ Is(Plus(One, b), t, d) /\ 0 \in Int
  BY <1>5, <1>7
<1>10. AtMost(Zero, Plus(One, r)) /\ AtMost(Plus(One, r), Plus(One, b))
  BY <1>2, <1>4, <1>8, <1>9, IsCompared
<1> QED  BY <1>9, <1>10, AmountIs DEF Is

\* A sum is no greater than one with a greater part.
LEMMA PlusKeeps ==
    ASSUME NEW x \in Fractions, NEW y \in Fractions, NEW z \in Fractions, AtMost(y, z)
    PROVE  AtMost(Plus(x, y), Plus(x, z))
<1>1. PICK d \in Nat : d > 0 /\ \E n \in Int, i \in Int, j \in Int, m \in Int :
              Is(x, n, d) /\ Is(x, i, d) /\ Is(y, j, d) /\ Is(z, m, d)
  BY CommonFour
<1>2. PICK n \in Int, i \in Int, j \in Int, m \in Int :
              Is(x, n, d) /\ Is(x, i, d) /\ Is(y, j, d) /\ Is(z, m, d)
  BY <1>1
<1>3. j <= m
  BY <1>1, <1>2, IsCompared
<1>4. Is(Plus(x, y), n + j, d) /\ Is(Plus(x, z), n + m, d)
  BY <1>1, <1>2, IsPlus
<1>5. PICK s, t : s = n + j /\ t = n + m
  OBVIOUS
<1>6. s \in Int /\ t \in Int /\ s <= t
  BY <1>3, <1>5
<1> QED  BY <1>1, <1>4, <1>5, <1>6, IsCompared

\* After moves no higher than the buffer, an entry that was reachable within the limits
\* of a round trip is left within those of the day.
LEMMA ExitWithin ==
    ASSUME BookAssumption, TypedBook, horizon = 1,
           Reachable(positions, meta, Flat, EntryLimits, equity),
           \A a \in Assets : AtMost(returns[a], Buffer),
           NEW growth,
           growth = Greatest(Zero, Plus(One, Total([a \in Assets |->
                                                      Times(positions[a], returns[a])]))),
           NEW leaving, leaving = Drift(positions, returns)
    PROVE  /\ ~Less(Limits.turnover, Plus(Gross(positions), Times(Gross(leaving), growth)))
           /\ \A a \in Assets : leaving[a] # Zero =>
                ~Less(Limits.participation,
                      Over(Times(Times(Size(leaving[a]), growth), equity), meta[a].volume))
<1>1. PICK p, r, q, h, g :
        /\ p = positions /\ r = returns /\ q = Plus(One, Buffer) /\ h = Plus(Fraction(2, 1), Buffer)
        /\ g = Plus(One, Total([a \in Assets |-> Times(positions[a], returns[a])]))
  OBVIOUS
<1>2. /\ p \in Books /\ r \in [Assets -> Moves] /\ equity \in Amounts /\ meta \in [Assets -> Rows]
      /\ Flat \in Books /\ IsFiniteSet(Assets) /\ IsRows(meta)
  BY <1>1, Measured DEF TypedBook, BookAssumption, IsRows
<1>3. /\ q \in Fractions /\ Less(Zero, q) /\ h \in Fractions /\ Less(Zero, h)
      /\ Zero \in Fractions /\ One \in Fractions
  BY <1>1, EntryLimitsAre, Numbers DEF Unit
<1>4. q \in Amounts
  BY <1>3, Ordered, AmountIs
<1>5. /\ Limits.turnover \in Fractions /\ Limits.participation \in Fractions /\ Buffer \in Fractions
  BY EntryLimitsAre, AmountIs DEF IsLimits, BookAssumption
<1>6. g \in Fractions /\ leaving \in Books
  BY <1>1, <1>2, <1>3, MoveTyped, Typed
<1>7. /\ growth = IF Less(Zero, g) THEN g ELSE Zero
      /\ leaving = IF Less(Zero, g)
                   THEN [a \in Assets |-> Over(Times(p[a], Plus(One, r[a])), g)] ELSE Flat
  BY <1>1 DEF Greatest, Drift
<1>8. growth \in Amounts /\ growth \in Fractions
  BY <1>3, <1>6, <1>7, Ordered, AmountIs, Numbers
<1>9. ASSUME NEW a \in Assets PROVE Plus(One, r[a]) \in Amounts /\ AtMost(Plus(One, r[a]), q)
  <2>1. r[a] \in Moves /\ AtMost(r[a], Buffer)
    BY <1>1, <1>2
  <2> QED  BY <1>1, <1>5, <2>1, MoveBounded
<1>10. ASSUME Less(Zero, g), NEW a \in Assets
       PROVE  AtMost(Size(leaving[a]), Times(Size(p[a]), Over(q, g)))
  <2>1. PICK x, u : x = p[a] /\ u = Plus(One, r[a])
    OBVIOUS
  <2>2. x \in Fractions /\ u \in Amounts /\ AtMost(u, q)
    BY <1>2, <1>9, <2>1 DEF Books
  <2>3. leaving[a] = Over(Times(x, u), g)
    BY <1>7, <1>10, <2>1
  <2> QED  BY <1>3, <1>6, <1>10, <2>1, <2>2, <2>3, MovedBounded
<1>11. Gross(p) \in Amounts /\ Gross(p) \in Fractions
       /\ Gross(leaving) \in Amounts /\ Gross(leaving) \in Fractions
       /\ Gross(Flat) \in Amounts /\ Gross(Flat) \in Fractions
  BY <1>2, <1>6, Measured, AmountIs
<1>12. AtMost(Times(Gross(leaving), growth), Times(Gross(p), q))
  <2>1. CASE Less(Zero, g)
    <3>1. PICK k : k = Over(q, g)
      OBVIOUS
    <3>2. k \in Amounts /\ k \in Fractions /\ g \in Amounts /\ growth = g
      BY <1>3, <1>4, <1>6, <1>7, <1>8, <2>1, <3>1, OverTyped, AmountIs
    <3>3. AtMost(Gross(leaving), Times(Gross(p), k))
      BY <1>2, <1>6, <1>10, <2>1, <3>1, <3>2, GrossBounded
    <3>4. Times(Gross(p), k) \in Fractions /\ Times(Gross(p), q) \in Fractions
      BY <1>3, <1>11, <3>2, Typed
    <3>5. AtMost(Times(Gross(leaving), g), Times(Times(Gross(p), k), g))
      BY <1>11, <3>2, <3>3, <3>4, TimesKeeps
    <3>6. AtMost(Times(Times(Gross(p), k), g), Times(Gross(p), q))
      BY <1>3, <1>6, <1>11, <2>1, <3>1, OverTimes
    <3>7. Times(Gross(leaving), g) \in Fractions /\ Times(Times(Gross(p), k), g) \in Fractions
      BY <1>6, <1>11, <3>4, Typed
    <3> QED  BY <3>2, <3>4, <3>5, <3>6, <3>7, Ordered
  <2>2. CASE ~Less(Zero, g)
    <3>1. growth = Zero /\ leaving = Flat
      BY <1>7, <2>2
    <3>2. Below(Flat, p)
      <4>1. ASSUME NEW a \in Assets PROVE Shrunk(Flat[a], p[a])
        <5>1. Flat[a] = Zero /\ p[a] \in Fractions
          BY <1>2 DEF Flat, Books
        <5> QED  BY <1>3, <5>1, Ordered DEF Shrunk
      <4> QED  BY <1>2, <4>1 DEF Below
    <3>3. AtMost(Gross(Flat), Gross(p))
      BY <1>2, <3>2, GrossShrinks
    <3>4. AtMost(Times(Gross(Flat), q), Times(Gross(p), q))
      BY <1>4, <1>11, <3>3, TimesKeeps
    <3>5. AtMost(Times(Gross(Flat), Zero), Times(Gross(Flat), q))
      BY <1>3, <1>11, Ordered, FactorsKeep
    <3>6. /\ Times(Gross(Flat), Zero) \in Fractions /\ Times(Gross(Flat), q) \in Fractions
          /\ Times(Gross(p), q) \in Fractions
      BY <1>3, <1>11, Typed
    <3> QED  BY <3>1, <3>4, <3>5, <3>6, Ordered
  <2> QED  BY <2>1, <2>2
<1>13. /\ AtMost(Gross(p), Over(Limits.turnover, h))
       /\ \A a \in Assets : p[a] # Zero =>
            /\ meta[a].volume # Zero
            /\ AtMost(Participation(Flat, p, a, meta, equity), Over(Limits.participation, q))
  <2>1. /\ EntryLimits.turnover = Over(Limits.turnover, h)
        /\ EntryLimits.participation = Over(Limits.participation, q)
    BY <1>1 DEF EntryLimits, BookAssumption
  <2>2. \A a \in Assets : Flat[a] = Zero
    BY DEF Flat
  <2> QED  BY <1>1, <2>1, <2>2 DEF Reachable, Gross, AtMost
<1>14. AtMost(Plus(Gross(p), Times(Gross(leaving), growth)), Limits.turnover)
  <2>1. PICK x, t, e : x = Gross(p) /\ t = Times(Gross(leaving), growth) /\ e = Times(x, q)
    OBVIOUS
  <2>2. x \in Fractions /\ t \in Fractions /\ e \in Fractions /\ AtMost(t, e)
    BY <1>3, <1>8, <1>11, <1>12, <2>1, Typed
  <2>3. AtMost(Plus(x, t), Plus(x, e))
    BY <2>2, PlusKeeps
  <2>4. AtMost(Plus(x, e), Times(x, h))
    BY <1>1, <1>5, <2>1, <2>2, RoundTrip
  <2>5. AtMost(Times(x, h), Limits.turnover)
    BY <1>3, <1>5, <1>13, <2>1, <2>2, OverBounds
  <2>6. Plus(x, t) \in Fractions /\ Plus(x, e) \in Fractions /\ Times(x, h) \in Fractions
    BY <1>3, <2>2, Typed
  <2>7. AtMost(Plus(x, t), Times(x, h))
    BY <2>3, <2>4, <2>6, Ordered
  <2>8. AtMost(Plus(x, t), Limits.turnover)
    BY <1>5, <2>5, <2>6, <2>7, Ordered
  <2> QED  BY <2>1, <2>8
<1>15. ASSUME NEW a \in Assets, leaving[a] # Zero
       PROVE  AtMost(Over(Times(Times(Size(leaving[a]), growth), equity), meta[a].volume),
                     Limits.participation)
  <2>1. Less(Zero, g) /\ growth = g
    BY <1>7, <1>15 DEF Flat
  <2>2. PICK x, y, u, k : x = p[a] /\ y = leaving[a] /\ u = Plus(One, r[a]) /\ k = Over(q, g)
    OBVIOUS
  <2>3. /\ x \in Fractions /\ y \in Fractions /\ u \in Fractions /\ k \in Amounts /\ k \in Fractions
        /\ y = Over(Times(x, u), g) /\ g \in Amounts
    BY <1>2, <1>3, <1>4, <1>6, <1>7, <1>8, <1>9, <2>1, <2>2, OverTyped, AmountIs DEF Books
  <2>4. x # Zero
    BY <1>6, <1>15, <2>1, <2>2, <2>3, OfNothing
  <2>5. PICK vol, A, B : vol = meta[a].volume /\ A = Times(Size(y), g) /\ B = Size(Minus(x, Zero))
    OBVIOUS
  <2>6. vol \in Fractions /\ Less(Zero, vol)
    BY <1>2, <1>13, <2>2, <2>4, <2>5, PositiveIs, AmountIs DEF Rows
  <2>7. Size(x) \in Fractions /\ Size(y) \in Fractions
        /\ B \in Fractions /\ A \in Fractions /\ AtMost(Size(x), B)
    BY <1>6, <2>3, <2>5, SizeIs, MinusNothing, Typed, AmountIs
  <2>8. AtMost(A, Times(B, q))
    <3>1. AtMost(Size(y), Times(Size(x), k))
      BY <1>10, <2>1, <2>2
    <3>2. AtMost(A, Times(Times(Size(x), k), g))
      BY <2>3, <2>5, <2>7, <3>1, TimesKeeps, Typed
    <3>3. AtMost(Times(Times(Size(x), k), g), Times(Size(x), q))
      BY <1>3, <1>6, <2>1, <2>2, <2>7, OverTimes
    <3>4. AtMost(Times(Size(x), q), Times(B, q))
      BY <1>4, <2>7, TimesKeeps
    <3>5. /\ Times(Times(Size(x), k), g) \in Fractions /\ Times(Size(x), q) \in Fractions
          /\ Times(B, q) \in Fractions
      BY <1>3, <1>6, <2>3, <2>7, Typed
    <3>6. AtMost(A, Times(Size(x), q))
      BY <2>7, <3>2, <3>3, <3>5, Ordered
    <3> QED  BY <2>7, <3>4, <3>5, <3>6, Ordered
  <2>9. AtMost(Over(Times(A, equity), vol), Times(Over(Times(B, equity), vol), q))
    BY <1>2, <1>3, <2>6, <2>7, <2>8, ShareBounded
  <2>10. AtMost(Over(Times(B, equity), vol), Over(Limits.participation, q))
    <3>1. Participation(Flat, p, a, meta, equity) = Over(Times(B, equity), vol)
      BY <2>2, <2>5 DEF Participation, Flat
    <3> QED  BY <1>13, <2>2, <2>4, <3>1
  <2>11. equity \in Fractions /\ Times(A, equity) \in Fractions /\ Times(B, equity) \in Fractions
    BY <1>2, <2>7, Typed, AmountIs
  <2>12. /\ Over(Times(A, equity), vol) \in Fractions /\ Over(Times(B, equity), vol) \in Fractions
    BY <2>6, <2>11, OverTyped
  <2>13. AtMost(Times(Over(Times(B, equity), vol), q), Limits.participation)
    BY <1>3, <1>5, <2>10, <2>12, OverBounds
  <2>14. Times(Over(Times(B, equity), vol), q) \in Fractions
    BY <1>3, <2>12, Typed
  <2>15. AtMost(Over(Times(A, equity), vol), Limits.participation)
    BY <1>5, <2>9, <2>12, <2>13, <2>14, Ordered
  <2> QED  BY <2>1, <2>2, <2>5, <2>15
<1> QED  BY <1>1, <1>14, <1>15 DEF AtMost

-----------------------------------------------------------------------------
(* Every step *)

\* What was entered with is reachable with an exit of the same day held back for.
EntryKept == outcome = "entered" => Reachable(positions, meta, Flat, EntryLimits, equity)

KInv == TypedBook /\ FlatBookIsReached /\ BufferSuffices /\ EntryKept

\* A rebalance keeps the invariant: it refuses only a book that is not flat.
LEMMA RebalanceKeeps ==
    ASSUME BookAssumption, KInv, Rebalance
    PROVE  KInv'
<1>1. PICK t \in 0..MaxTime, desired \in [Assets -> Wishes], shown \in Shown :
        LET rows == [a \in Assets |-> IF shown[a] = NoRow THEN meta[a] ELSE shown[a]]
            used == [a \in Assets |-> IF positions[a] = Zero THEN shown[a] ELSE rows[a]]
            weights == Constrained(desired, used, positions, Limits, equity)
            cost == Times(CostRate, Distance(weights, positions))
        IN  IF t < last THEN Refuse("out_of_order")
            ELSE IF ~Reachable(weights, used, positions, Limits, equity) THEN Refuse("refused")
            ELSE Persist(RebalanceEvent(t, weights, cost), weights, rows)
  BY DEF Rebalance
<1> DEFINE rows == [a \in Assets |-> IF shown[a] = NoRow THEN meta[a] ELSE shown[a]]
           used == [a \in Assets |-> IF positions[a] = Zero THEN shown[a] ELSE rows[a]]
           weights == Constrained(desired, used, positions, Limits, equity)
           cost == Times(CostRate, Distance(weights, positions))
           e == RebalanceEvent(t, weights, cost)
<1>2. \/ Refuse("out_of_order")
      \/ ~Reachable(weights, used, positions, Limits, equity) /\ Refuse("refused")
      \/ Persist(e, weights, rows)
  BY <1>1, Zenon
<1>3. desired \in Books /\ shown \in [Assets -> Rows] /\ positions \in Books /\ equity \in Amounts
      /\ meta \in [Assets -> Rows]
  BY InputsTyped DEF KInv, TypedBook
<1>4. rows \in [Assets -> Rows] /\ IsRows(used)
  BY <1>3 DEF IsRows
<1>5. UNCHANGED <<user, horizon, returns>>
  BY DEF Rebalance
<1> HIDE DEF used
<1>6. weights \in Books
  BY <1>3, <1>4, ConstrainedTyped, EntryLimitsAre
<1> HIDE DEF weights
<1>7. Negative(cost) \in Fractions
  <2>1. Distance(weights, positions) \in Fractions /\ CostRate \in Fractions
    BY <1>3, <1>6, Measured, AmountIs DEF BookAssumption
  <2> QED  BY <2>1, Typed
<1> HIDE DEF cost, rows
<1>8. e.equity \in Amounts
  BY <1>3, <1>7, GrownTyped DEF RebalanceEvent
<1> HIDE DEF e
<1>9. CASE Persist(e, weights, rows)
  <2>1. TypedBook' /\ outcome' \in {"done", "raised"}
    BY <1>4, <1>5, <1>6, <1>8, <1>9, PersistTypes DEF KInv
  <2> QED  BY <2>1 DEF KInv, FlatBookIsReached, BufferSuffices, EntryKept
<1>10. CASE Refuse("out_of_order")
  BY <1>5, <1>10 DEF KInv, TypedBook, Refuse, book, FlatBookIsReached, BufferSuffices, EntryKept
<1>11. CASE ~Reachable(weights, used, positions, Limits, equity) /\ Refuse("refused")
  <2>1. positions # Flat
    BY <1>3, <1>4, <1>11, FlatReached, EntryLimitsAre DEF weights
  <2> QED  BY <1>5, <1>11, <2>1
           DEF KInv, TypedBook, Refuse, book, FlatBookIsReached, BufferSuffices, EntryKept
<1> QED  BY <1>2, <1>9, <1>10, <1>11

\* A mark to market keeps it.
LEMMA MarkKeeps ==
    ASSUME BookAssumption, KInv, MarkToMarket
    PROVE  KInv'
<1>1. PICK t \in 0..MaxTime, move \in [Assets -> Returns] :
        LET gross == Total([a \in Assets |-> Times(positions[a], move[a])])
        IN  IF t < last THEN Refuse("out_of_order")
            ELSE Persist(MarkEvent(t, gross), Drift(positions, move), meta)
  BY DEF MarkToMarket
<1> DEFINE gross == Total([a \in Assets |-> Times(positions[a], move[a])])
           e == MarkEvent(t, gross)
           weights == Drift(positions, move)
<1>2. Refuse("out_of_order") \/ Persist(e, weights, meta)
  BY <1>1, Zenon
<1>3. /\ move \in [Assets -> Moves] /\ positions \in Books /\ equity \in Amounts
      /\ meta \in [Assets -> Rows]
  BY InputsTyped DEF KInv, TypedBook
<1>4. UNCHANGED <<user, horizon, returns>>
  BY DEF MarkToMarket
<1>5. weights \in Books /\ gross \in Fractions
  BY <1>3, MoveTyped
<1> HIDE DEF gross, weights
<1>6. e.equity \in Amounts
  BY <1>3, <1>5, GrownTyped DEF MarkEvent
<1> HIDE DEF e
<1>7. CASE Persist(e, weights, meta)
  <2>1. TypedBook' /\ outcome' \in {"done", "raised"}
    BY <1>3, <1>4, <1>5, <1>6, <1>7, PersistTypes DEF KInv
  <2> QED  BY <2>1 DEF KInv, FlatBookIsReached, BufferSuffices, EntryKept
<1>8. CASE Refuse("out_of_order")
  BY <1>4, <1>8 DEF KInv, TypedBook, Refuse, book, FlatBookIsReached, BufferSuffices, EntryKept
<1> QED  BY <1>2, <1>7, <1>8

\* An entry, which starts from a flat book, is never refused.
LEMMA EnterKeeps ==
    ASSUME BookAssumption, KInv, Enter
    PROVE  KInv'
<1>1. PICK score \in Scores, ranked \in SUBSET Assets, rows \in Predicted :
        LET weights == Constrained(Selected(score, ranked, Limits), rows, Flat, EntryLimits, equity)
        IN  IF ~Reachable(weights, rows, Flat, EntryLimits, equity)
            THEN outcome' = "refused" /\ UNCHANGED <<positions, meta>>
            ELSE outcome' = "entered" /\ positions' = weights /\ meta' = rows
  BY DEF Enter
<1>2. /\ Selected(score, ranked, Limits) \in Books /\ rows \in [Assets -> Rows]
      /\ equity \in Amounts /\ IsRows(rows)
  BY InputsTyped DEF KInv, TypedBook, IsRows
<1>3. PICK weights : weights = Constrained(Selected(score, ranked, Limits), rows, Flat, EntryLimits, equity)
  OBVIOUS
<1>4. weights \in Books /\ Reachable(weights, rows, Flat, EntryLimits, equity)
  BY <1>2, <1>3, FlatReached, EntryLimitsAre
<1>5. outcome' = "entered" /\ positions' = weights /\ meta' = rows
  BY <1>1, <1>3, <1>4
<1>6. equity' = equity /\ horizon' = horizon /\ returns' \in [Assets -> Moves]
  BY InputsTyped DEF Enter
<1>7. EntryLimits' = EntryLimits
  BY <1>6 DEF EntryLimits
<1>8. EntryKept'
  BY <1>4, <1>5, <1>6, <1>7 DEF EntryKept
<1> QED  BY <1>2, <1>4, <1>5, <1>6, <1>8 DEF KInv, TypedBook, FlatBookIsReached, BufferSuffices

\* An exit of the same day is refused only when an asset rose by more than the buffer.
LEMMA ExitKeeps ==
    ASSUME BookAssumption, KInv, Exit
    PROVE  KInv'
<1> DEFINE gross == Total([a \in Assets |-> Times(positions[a], returns[a])])
           growth == Greatest(Zero, Plus(One, gross))
           leaving == Drift(positions, returns)
           traded == Times(Gross(leaving), growth)
           turnover == IF horizon = 1 THEN Plus(Gross(positions), traded) ELSE Gross(leaving)
           cost == Times(CostRate, Plus(Gross(positions), traded))
           share(a) == Over(Times(Times(Size(leaving[a]), growth), equity), meta[a].volume)
<1>1. \/ /\ \/ \E a \in Assets : leaving[a] # Zero /\ Less(Limits.participation, share(a))
            \/ Less(Limits.turnover, turnover)
         /\ outcome' = "exit_refused" /\ UNCHANGED <<positions, equity, last>>
      \/ /\ outcome' = "done" /\ positions' = Flat /\ last' = last + 1
         /\ equity' = Grown(Minus(gross, cost))
  BY Zenon DEF Exit
<1>2. /\ outcome = "entered" /\ UNCHANGED <<horizon, meta, returns>>
  BY DEF Exit
<1>3. /\ positions \in Books /\ returns \in [Assets -> Moves] /\ equity \in Amounts
      /\ meta \in [Assets -> Rows] /\ Flat \in Books
  BY Measured DEF KInv, TypedBook
<1>4. gross \in Fractions /\ leaving \in Books
  BY <1>3, MoveTyped
<1>5. CASE outcome' = "exit_refused"
  <2>1. /\ \/ \E a \in Assets : leaving[a] # Zero /\ Less(Limits.participation, share(a))
           \/ Less(Limits.turnover, turnover)
        /\ UNCHANGED <<positions, equity>>
    BY <1>1, <1>5, Zenon
  <2>2. ASSUME horizon = 1 PROVE \E a \in Assets : Less(Buffer, returns[a])
    <3> SUFFICES ASSUME \A a \in Assets : AtMost(returns[a], Buffer) PROVE FALSE
      BY DEF AtMost
    <3>1. Reachable(positions, meta, Flat, EntryLimits, equity)
      BY <1>2 DEF KInv, EntryKept
    <3>2. /\ ~Less(Limits.turnover, Plus(Gross(positions), Times(Gross(leaving), growth)))
          /\ \A a \in Assets : leaving[a] # Zero =>
               ~Less(Limits.participation,
                     Over(Times(Times(Size(leaving[a]), growth), equity), meta[a].volume))
      BY <2>2, <3>1, ExitWithin DEF KInv
    <3>3. turnover = Plus(Gross(positions), Times(Gross(leaving), growth))
      BY <2>2
    <3> HIDE DEF turnover, leaving, growth
    <3> QED  BY <2>1, <3>2, <3>3
  <2> HIDE DEF gross, growth, leaving, traded, turnover, cost, share
  <2> QED  BY <1>2, <1>3, <1>5, <2>1, <2>2 DEF KInv, TypedBook, FlatBookIsReached, BufferSuffices, EntryKept
<1>6. CASE /\ outcome' = "done" /\ positions' = Flat /\ last' = last + 1
           /\ equity' = Grown(Minus(gross, cost))
  <2>1. growth \in Fractions /\ Gross(leaving) \in Fractions /\ Gross(positions) \in Fractions
        /\ CostRate \in Fractions
    <3>1. Plus(One, gross) \in Fractions /\ Zero \in Fractions
      BY <1>4, Typed, Numbers DEF Unit
    <3>2. growth \in Fractions
      BY <3>1, Typed
    <3> HIDE DEF growth, gross, leaving
    <3> QED  BY <1>3, <1>4, <3>2, Measured, AmountIs DEF BookAssumption
  <2> HIDE DEF gross, growth, leaving
  <2>2. Minus(gross, cost) \in Fractions
    <3>1. traded \in Fractions
      BY <2>1, Typed
    <3>2. Plus(Gross(positions), traded) \in Fractions
      BY <2>1, <3>1, Typed
    <3>3. cost \in Fractions
      BY <2>1, <3>2, Typed
    <3> QED  BY <1>4, <3>3, Typed
  <2>3. equity' \in Amounts
    BY <1>3, <1>6, <2>2, GrownTyped
  <2> HIDE DEF traded, cost, share, turnover
  <2> QED  BY <1>2, <1>3, <1>6, <2>3 DEF KInv, TypedBook, FlatBookIsReached, BufferSuffices, EntryKept
<1> HIDE DEF gross, growth, leaving, traded, turnover, cost, share
<1> QED  BY <1>1, <1>5, <1>6

\* The intents of the pipeline start from a flat book too.
LEMMA IntentsKeep ==
    ASSUME BookAssumption, KInv, PaperIntents
    PROVE  KInv'
<1>1. PICK t \in 0..MaxTime, score \in Scores, ranked \in SUBSET Assets, rows \in Predicted :
        LET weights == Constrained(Selected(score, ranked, Limits), rows, Flat, EntryLimits, equity)
            e == IntentsEvent(t, weights)
        IN  IF ~Reachable(weights, rows, Flat, EntryLimits, equity) THEN Refuse("refused")
            ELSE \/ Accepts(e) /\ Written(e, weights) /\ outcome' = "done" /\ UNCHANGED <<book, torn>>
                 \/ AppendFails(e, weights) /\ UNCHANGED book
  BY DEF PaperIntents
<1>2. /\ Selected(score, ranked, Limits) \in Books /\ rows \in [Assets -> Rows]
      /\ equity \in Amounts /\ IsRows(rows)
  BY InputsTyped DEF KInv, TypedBook, IsRows
<1>3. Reachable(Constrained(Selected(score, ranked, Limits), rows, Flat, EntryLimits, equity),
                rows, Flat, EntryLimits, equity)
  BY <1>2, FlatReached, EntryLimitsAre
<1>4. outcome' \in {"done", "raised"} /\ UNCHANGED book
  BY <1>1, <1>3 DEF AppendFails
<1>5. UNCHANGED <<user, horizon, returns>>
  BY DEF PaperIntents
<1> QED  BY <1>4, <1>5 DEF KInv, TypedBook, FlatBookIsReached, BufferSuffices, EntryKept, book

\* In every run the books are of their types, no request from a flat book is refused,
\* what is entered can be reached within the limits of a round trip, and its exit is
\* refused only after a rise above the buffer (constrain_target_weights,
\* round_trip_entry_constraints).
THEOREM BooksAreSound == Spec => []KInv
<1>1. Init => KInv
  <2> SUFFICES ASSUME Init PROVE KInv
    OBVIOUS
  <2>1. Flat \in Books /\ One \in Amounts /\ Zero \in Fractions /\ NoRow \in Rows
    BY Measured, Numbers, InputsTyped, BookAssumption DEF Unit
  <2>2. Zero \in Moves
    <3>1. 1 \in Nat /\ 1 > 0 /\ 1 \in Int /\ 0 \in Int /\ -1 \in Int
      OBVIOUS
    <3>2. Is(Zero, 0, 1) /\ Is(One, 1, 1)
      BY <3>1, IsNumber
    <3>3. Is(Negative(One), -1, 1)
      BY <3>1, <3>2, IsNegative
    <3>4. AtMost(Zero, Negative(One)) <=> 0 <= -1
      BY <3>1, <3>2, <3>3, IsCompared
    <3> QED  BY <2>1, <3>4, LessIs DEF Moves
  <2> QED  BY <2>1, <2>2 DEF Init, KInv, TypedBook, FlatBookIsReached, BufferSuffices, EntryKept
<1>2. KInv /\ [Next]_vars => KInv'
  <2> SUFFICES ASSUME KInv, [Next]_vars PROVE KInv'
    OBVIOUS
  <2>1. CASE Rebalance
    BY <2>1, RebalanceKeeps, BookAssumption
  <2>2. CASE MarkToMarket
    BY <2>2, MarkKeeps, BookAssumption
  <2>3. CASE PaperIntents
    BY <2>3, IntentsKeep, BookAssumption
  <2>4. CASE Enter
    BY <2>4, EnterKeeps, BookAssumption
  <2>5. CASE Exit
    BY <2>5, ExitKeeps, BookAssumption
  <2>6. CASE UNCHANGED vars
    <3>1. /\ positions' = positions /\ equity' = equity /\ meta' = meta /\ returns' = returns
          /\ outcome' = outcome /\ horizon' = horizon
      BY <2>6 DEF vars, book
    <3>2. EntryLimits' = EntryLimits
      BY <3>1 DEF EntryLimits
    <3> QED  BY <3>1, <3>2 DEF KInv, TypedBook, FlatBookIsReached, BufferSuffices, EntryKept
  <2> QED  BY <2>1, <2>2, <2>3, <2>4, <2>5, <2>6 DEF Next
<1> QED  BY <1>1, <1>2, PTL DEF Spec

\* In every run weights are fractions, values and volumes are never below nothing, and
\* no asset has lost its whole value (PaperSimulator, drift_weights).
THEOREM BooksAreTyped == Spec => []TypedBook
BY BooksAreSound, PTL DEF KInv

\* From a flat book every request is cut down to one that passes every check, whatever
\* the participation limit did to a hedge (constrain_target_weights,
\* _homogeneous_exposure_scale).
THEOREM FlatBooksAreReached == Spec => []FlatBookIsReached
BY BooksAreSound, PTL DEF KInv

\* A round trip within one session is never refused at its exit unless an asset rose by
\* more than the buffer held back for it (round_trip_entry_constraints).
THEOREM BuffersSuffice == Spec => []BufferSuffices
BY BooksAreSound, PTL DEF KInv

-----------------------------------------------------------------------------
(* What may not be bought or sold short *)

\* The weight the constructor gives stays within what bounds both the book and what
\* was admitted.
LEMMA WeightBounded ==
    ASSUME BookAssumption, NEW desired \in Books, NEW rows, IsRows(rows), NEW L, IsLimits(L),
           NEW current \in Books, NEW value \in Amounts, NEW a \in Assets,
           NEW w, w = Constrained(desired, rows, current, L, value)[a]
    PROVE  /\ ~rows[a].shortable => AtMost(Least(current[a], Zero), w)
           /\ rows[a] = NoRow \/ ~rows[a].tradable =>
                AtMost(w, Greatest(current[a], Zero)) /\ AtMost(Least(current[a], Zero), w)
<1>1. PICK u, t, l, r : /\ u = Admitted(desired, rows, L) /\ t = Target(desired, rows, L)
                        /\ l = LimitTurnover(t, current, L)
                        /\ r = LimitParticipation(l, current, rows, L, value)
  OBVIOUS
<1>2. /\ u \in Books /\ Below(t, u) /\ t \in Books
      /\ (rows[a] = NoRow \/ ~rows[a].tradable => u[a] = Zero)
      /\ (~rows[a].shortable => AtMost(Zero, u[a]))
  BY <1>1, AdmittedIs, TargetIs DEF Below
<1>3. l \in Books /\ Between(current[a], l[a], t[a])
  BY <1>1, <1>2, TurnoverMoves
<1>4. r \in Books /\ Between(current[a], r[a], l[a])
  BY <1>1, <1>3, ParticipationMoves
<1>5. PICK k \in Unit : Project(r, L) = Scale(r, k)
  BY <1>4, ProjectScales
<1>6. w = Times(r[a], k)
  BY <1>1, <1>5, ConstrainedIs DEF Scale
<1>7. PICK c, x, y, z, v : c = current[a] /\ x = u[a] /\ y = t[a] /\ z = l[a] /\ v = r[a]
  OBVIOUS
<1>8. /\ c \in Fractions /\ x \in Fractions /\ y \in Fractions /\ z \in Fractions /\ v \in Fractions
      /\ Zero \in Fractions /\ Shrunk(y, x) /\ Between(c, z, y) /\ Between(c, v, z)
  BY <1>2, <1>3, <1>4, <1>7, Numbers DEF Books, Below, Unit
<1>9. w \in Fractions /\ Shrunk(w, v)
  BY <1>6, <1>7, <1>8, ScaledDown
<1>10. PICK lo, hi : lo = Least(c, Zero) /\ hi = Greatest(c, Zero)
  OBVIOUS
<1>11. /\ lo \in Fractions /\ hi \in Fractions
       /\ AtMost(lo, c) /\ AtMost(lo, Zero) /\ AtMost(c, hi) /\ AtMost(Zero, hi)
  BY <1>8, <1>10, Typed, Ordered, LessIs DEF Least, Greatest
<1>12. ASSUME AtMost(Zero, x) PROVE AtMost(lo, w)
  <2>1. AtMost(Zero, y)
    BY <1>8, <1>12, Ordered, ShrunkKeeps
  <2>2. AtMost(lo, y)
    BY <1>8, <1>11, <2>1, Ordered
  <2>3. AtMost(lo, z)
    BY <1>8, <1>11, <2>2, BetweenBounded
  <2>4. AtMost(lo, v)
    BY <1>8, <1>11, <2>3, BetweenBounded
  <2> QED  BY <1>8, <1>9, <1>11, <2>4, Ordered DEF Shrunk
<1>13. ASSUME AtMost(x, Zero) PROVE AtMost(w, hi)
  <2>1. AtMost(y, Zero)
    BY <1>8, <1>13, Ordered, ShrunkKeeps
  <2>2. AtMost(y, hi)
    BY <1>8, <1>11, <2>1, Ordered
  <2>3. AtMost(z, hi)
    BY <1>8, <1>11, <2>2, BetweenBounded
  <2>4. AtMost(v, hi)
    BY <1>8, <1>11, <2>3, BetweenBounded
  <2> QED  BY <1>8, <1>9, <1>11, <2>4, Ordered DEF Shrunk
<1>14. AtMost(Zero, Zero)
  BY <1>8, Ordered
<1> QED  BY <1>2, <1>7, <1>10, <1>12, <1>13, <1>14

\* Through all the scaling, an asset that may not be traded only loses weight towards
\* nothing and one that cannot be borrowed goes no further short than it was
\* (_eligibility_reasons, constrain_target_weights).
THEOREM IneligibleIsOnlyUnwound == Spec => IneligibleOnlyUnwinds
<1> DEFINE Unwound ==
        \A a \in Assets :
            /\ ~meta'[a].tradable =>
                  /\ ~Less(Greatest(positions[a], Zero), positions'[a])
                  /\ ~Less(positions'[a], Least(positions[a], Zero))
            /\ ~meta'[a].shortable => ~Less(positions'[a], Least(positions[a], Zero))
<1>1. ASSUME BInv, KInv, [Next]_vars, Rebalanced PROVE Unwound
  <2>1. CASE UNCHANGED vars
    BY <1>1, <2>1 DEF vars, book, Rebalanced
  <2>2. CASE Next
    <3>1. PICK used : \E shown \in Shown :
            /\ \A a \in Assets :
                  /\ meta'[a] = IF shown[a] = NoRow THEN meta[a] ELSE shown[a]
                  /\ used[a] = IF positions[a] = Zero THEN shown[a] ELSE meta'[a]
            /\ \E desired \in [Assets -> Wishes] :
                  positions' = Constrained(desired, used, positions, Limits, equity)
      BY <1>1, <2>2, TakenIsConstrained
    <3>2. PICK shown \in Shown :
            /\ \A a \in Assets :
                  /\ meta'[a] = IF shown[a] = NoRow THEN meta[a] ELSE shown[a]
                  /\ used[a] = IF positions[a] = Zero THEN shown[a] ELSE meta'[a]
            /\ \E desired \in [Assets -> Wishes] :
                  positions' = Constrained(desired, used, positions, Limits, equity)
      BY <3>1
    <3>3. PICK desired \in [Assets -> Wishes] :
            positions' = Constrained(desired, used, positions, Limits, equity)
      BY <3>2
    <3>4. /\ positions \in Books /\ equity \in Amounts /\ meta \in [Assets -> Rows]
          /\ shown \in [Assets -> Rows] /\ desired \in Books
      BY <1>1, BookAssumption, InputsTyped DEF KInv, TypedBook
    <3>5. IsRows(used)
      BY <3>2, <3>4 DEF IsRows
    <3>6. ASSUME NEW a \in Assets
          PROVE  /\ ~meta'[a].shortable => ~used[a].shortable
                 /\ ~meta'[a].tradable => used[a] = NoRow \/ ~used[a].tradable
      <4>1. used[a] = meta'[a] \/ used[a] = NoRow
        BY <3>2
      <4>2. ~NoRow.shortable
        BY DEF NoRow
      <4> QED  BY <4>1, <4>2
    <3>7. ASSUME NEW a \in Assets
          PROVE  /\ ~used[a].shortable => AtMost(Least(positions[a], Zero), positions'[a])
                 /\ used[a] = NoRow \/ ~used[a].tradable =>
                      /\ AtMost(positions'[a], Greatest(positions[a], Zero))
                      /\ AtMost(Least(positions[a], Zero), positions'[a])
      BY <3>3, <3>4, <3>5, BookAssumption, EntryLimitsAre, WeightBounded
    <3> QED  BY <3>6, <3>7 DEF AtMost
  <2> QED  BY <1>1, <2>1, <2>2
<1>2. BInv /\ KInv /\ [Next]_vars => [Rebalanced => Unwound]_vars
  BY <1>1
<1> HIDE DEF Unwound
<1>3. Spec => [][Rebalanced => Unwound]_vars
  BY <1>2, BookInvariance, BooksAreSound, PTL DEF Spec
<1> QED  BY <1>3 DEF Unwound, IneligibleOnlyUnwinds
=============================================================================
