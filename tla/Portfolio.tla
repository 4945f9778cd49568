----------------------------- MODULE Portfolio -----------------------------
(***************************************************************************)
(* Target weights under limits (constrain_target_weights): the steps that  *)
(* cut a requested book down to what eligibility, exposure, turnover and   *)
(* participation allow, in the order of the code, and the checks at its    *)
(* end. Numbers are exact fractions; the code's tolerances are zero.       *)
(***************************************************************************)
EXTENDS Integers, Functions

CONSTANTS
    Assets,
    SectorOf, BetaOf    \* of an asset

-----------------------------------------------------------------------------
(* Fractions: numerator and denominator, lowest terms, denominator positive *)

Fraction(n, d) ==
    LET gcd[p \in Nat \X Nat] == IF p[2] = 0 THEN p[1] ELSE gcd[<<p[2], p[1] % p[2]>>]
        c == gcd[<<IF n < 0 THEN -n ELSE n, d>>]
    IN  <<n \div c, d \div c>>
\* Zero has one form.
Fractions == {x \in Int \X (Nat \ {0}) : x[1] = 0 => x[2] = 1}
Zero == <<0, 1>>
One == <<1, 1>>
Plus(x, y) == Fraction(x[1] * y[2] + y[1] * x[2], x[2] * y[2])
Negative(x) == <<-x[1], x[2]>>
Minus(x, y) == Plus(x, Negative(y))
Times(x, y) == Fraction(x[1] * y[1], x[2] * y[2])
\* y is positive.
Over(x, y) == Fraction(x[1] * y[2], x[2] * y[1])
Less(x, y) == x[1] * y[2] < y[1] * x[2]
Size(x) == IF x[1] < 0 THEN Negative(x) ELSE x
\* A limit, a volume or a value is never negative.
Amounts == {x \in Fractions : ~Less(x, Zero)}
Least(x, y) == IF Less(y, x) THEN y ELSE x
Greatest(x, y) == IF Less(x, y) THEN y ELSE x
Total(f) == FoldFunction(Plus, Zero, f)

-----------------------------------------------------------------------------
(* Books: an asset that is not held has weight zero *)

Flat == [a \in Assets |-> Zero]
Scale(w, k) == [a \in Assets |-> Times(w[a], k)]
Distance(v, w) == Total([a \in Assets |-> Size(Minus(v[a], w[a]))])

\* A market row, as conservative_risk_estimates leaves it; its volume is the
\* decision-time dollar volume, Zero when there is none.
Rows == [volume : Amounts, tradable : BOOLEAN, shortable : BOOLEAN]
NoRow == [volume |-> Zero, tradable |-> FALSE, shortable |-> FALSE]

\* calculate_exposures
Gross(w) == Distance(w, Flat)
Net(w) == Total(w)
Beta(w) == Total([a \in Assets |-> Times(w[a], BetaOf[a])])
SectorGross(w, s) == Gross([a \in Assets |-> IF SectorOf[a] = s THEN w[a] ELSE Zero])

\* constraint_violations
WithinExposure(w, L) ==
    /\ \A a \in Assets : ~Less(L.position, Size(w[a])) /\ ~Less(L.sector, SectorGross(w, SectorOf[a]))
    /\ ~Less(L.gross, Gross(w)) /\ ~Less(L.net, Size(Net(w))) /\ ~Less(L.beta, Size(Beta(w)))

Participation(v, w, a, rows, equity) ==
    Over(Times(Size(Minus(w[a], v[a])), equity), rows[a].volume)

-----------------------------------------------------------------------------
(* The steps of constrain_target_weights *)

\* Mutant of Eligible: whether a short can be borrowed is not asked.
EligibleToBuy(w, row) == row # NoRow /\ row.tradable
\* _eligibility_reasons
Eligible(w, row) == row # NoRow /\ row.tradable /\ (Less(w, Zero) => row.shortable)

Clip(x, limit) == Greatest(Negative(limit), Least(limit, x))
Admitted(desired, rows, L) ==
    [a \in Assets |->
        LET w == Clip(desired[a], L.position) IN IF Eligible(w, rows[a]) THEN w ELSE Zero]

\* What brings an observed exposure within its limit.
Ratio(observed, limit) == IF Less(limit, observed) THEN Over(limit, observed) ELSE One

\* _scale_sector_weights
ScaleSectors(w, L) ==
    [a \in Assets |-> Times(w[a], Ratio(SectorGross(w, SectorOf[a]), L.sector))]
ScaleGross(w, L) == Scale(w, Ratio(Gross(w), L.gross))
ScaleBeta(w, L) == Scale(w, Ratio(Size(Beta(w)), L.beta))

\* _scale_net_weights: the heavier side alone is cut, down to the other side
\* and the limit.
ScaleNet(w, L) ==
    LET long == Total([a \in Assets |-> Greatest(w[a], Zero)])
        short == Total([a \in Assets |-> Greatest(Negative(w[a]), Zero)])
    IN  IF Less(L.net, Minus(long, short))
        THEN [a \in Assets |-> IF Less(Zero, w[a])
                               THEN Times(w[a], Ratio(long, Plus(L.net, short))) ELSE w[a]]
        ELSE IF Less(L.net, Minus(short, long))
        THEN [a \in Assets |-> IF Less(w[a], Zero)
                               THEN Times(w[a], Ratio(short, Plus(L.net, long))) ELSE w[a]]
        ELSE w

\* Mutant of LimitTurnover: the book is cut, and not the trade.
LimitTurnoverOfBook(w, current, L) == Scale(w, Ratio(Distance(w, current), L.turnover))
\* Part of the way from the current book.
LimitTurnover(w, current, L) ==
    LET k == Ratio(Distance(w, current), L.turnover)
    IN  [a \in Assets |-> Plus(current[a], Times(Minus(w[a], current[a]), k))]

\* Each trade by itself is cut to its share of the volume; none without volume.
LimitParticipation(w, current, rows, L, equity) ==
    [a \in Assets |->
        IF w[a] = current[a] \/ rows[a].volume = Zero THEN current[a]
        ELSE LET k == Ratio(Participation(current, w, a, rows, equity), L.participation)
             IN  Plus(current[a], Times(Minus(w[a], current[a]), k))]

\* Mutant of Project: the book is left as the participation limit made it.
ProjectNothing(w, L) == w
\* _homogeneous_exposure_scale: what that did to a hedge is mended by scaling
\* the whole book towards cash.
Project(w, L) ==
    LET ratios == {Ratio(Size(w[a]), L.position) : a \in Assets}
                  \cup {Ratio(SectorGross(w, SectorOf[a]), L.sector) : a \in Assets}
                  \cup {Ratio(Gross(w), L.gross), Ratio(Size(Net(w)), L.net),
                        Ratio(Size(Beta(w)), L.beta)}
    IN  Scale(w, CHOOSE k \in ratios : \A j \in ratios : ~Less(j, k))

\* The value of w, which TLC computes once.
Evaluated(w) == CHOOSE v \in {w} : v = w

Constrained(desired, rows, current, L, equity) ==
    LET admitted == Evaluated(Admitted(desired, rows, L))
        sectors == Evaluated(ScaleSectors(admitted, L))
        gross == Evaluated(ScaleGross(sectors, L))
        net == Evaluated(ScaleNet(gross, L))
        target == Evaluated(ScaleBeta(net, L))
        limited == Evaluated(LimitTurnover(target, current, L))
        traded == Evaluated(LimitParticipation(limited, current, rows, L, equity))
    IN  Evaluated(Project(traded, L))

\* The checks after the projection, that raise.
Reachable(w, rows, current, L, equity) ==
    /\ ~Less(L.turnover, Distance(w, current))
    /\ \A a \in Assets : w[a] # current[a] =>
          /\ rows[a].volume # Zero
          /\ ~Less(L.participation, Participation(current, w, a, rows, equity))
    /\ WithinExposure(w, L)

-----------------------------------------------------------------------------
\* construct_portfolio: full weight for each of the best, with the sign of its
\* score.
Selected(score, ranked, L) ==
    [a \in Assets |-> IF a \notin ranked THEN Zero
                      ELSE IF score[a] > 0 THEN L.position ELSE Negative(L.position)]

\* drift_weights, after a return of the whole book above -1.
Drift(w, returns) ==
    LET growth == Plus(One, Total([a \in Assets |-> Times(w[a], returns[a])]))
    IN  IF Less(Zero, growth)
        THEN [a \in Assets |-> Over(Times(w[a], Plus(One, returns[a])), growth)]
        ELSE Flat
=============================================================================
