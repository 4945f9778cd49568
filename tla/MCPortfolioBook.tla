-------------------------- MODULE MCPortfolioBook --------------------------
(* Values of the constants of PortfolioBook for TLC. *)
EXTENDS PortfolioBook

CONSTANTS a, b

OneSector == [x \in Assets |-> "sector"]
Betas == [x \in Assets |-> IF x = a THEN One ELSE Fraction(2, 1)]
SmallLimits ==
    [position |-> Fraction(1, 2), gross |-> One, net |-> Fraction(1, 4), sector |-> Fraction(3, 4),
     beta |-> Fraction(1, 2), turnover |-> Fraction(3, 4), participation |-> Fraction(1, 4)]
Tenth == Fraction(1, 10)
Row(volume, tradable, shortable) ==
    [volume |-> volume, tradable |-> tradable, shortable |-> shortable]
\* a is always liquid; b is liquid, thin, halted with or without volume, cannot be
\* borrowed, or has no row.
MarketRows == [x \in Assets |->
            IF x = a THEN {Row(Fraction(4, 1), TRUE, TRUE)}
            ELSE {Row(Fraction(4, 1), TRUE, TRUE), Row(Fraction(1, 4), TRUE, TRUE),
                  Row(Fraction(4, 1), FALSE, TRUE), Row(Zero, FALSE, TRUE), Row(Fraction(4, 1), TRUE, FALSE), NoRow}]
Weights == {Fraction(-1, 2), Zero, Fraction(1, 2)}
Moves == {Fraction(-1, 2), Zero, Tenth, One}
AnyFault == {"write"}
=============================================================================
