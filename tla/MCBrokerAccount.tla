-------------------------- MODULE MCBrokerAccount --------------------------
(* Values of the constants of BrokerAccount for TLC. *)
EXTENDS BrokerAccount, TLC

CONSTANTS p1, o1, o2, f1, real, test

\* Every order alone fits the daily limit of either config; two together fit
\* that of "test" only, the position limit of "real" only, and be open in "test" only.
NotionalOfEach == [c \in OrderIds |-> 2]
DailyLimits == [g \in Configs |-> IF g = real THEN 3 ELSE 4]
QuantityOfEach == [b \in BrokerIds |-> 2]
PositionLimits == [g \in Configs |-> IF g = real THEN 4 ELSE 3]
OpenLimits == [g \in Configs |-> IF g = real THEN 1 ELSE 2]
OnlyItself == [c \in OrderIds |-> {c}]

Symmetry == Permutations(OrderIds)
=============================================================================
