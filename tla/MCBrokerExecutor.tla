-------------------------- MODULE MCBrokerExecutor --------------------------
(* Values of the constants of BrokerExecutor for TLC. *)
EXTENDS BrokerExecutor, TLC

CONSTANTS p1, p2, o1, o2, k1, k2, f1, real, test

\* Every order alone fits the daily limit of either config; two together fit
\* that of "test" only.
NotionalOfEach == [c \in OrderIds |-> 2]
DailyLimits == [g \in Configs |-> IF g = real THEN 3 ELSE 4]

\* Orders that differ in their symbol, and orders with the same fields.
OnlyItself == [c \in OrderIds |-> {c}]
AllAlike == [c \in OrderIds |-> BrokerIds]

\* Nothing distinguishes two processes, two orders or two cancellations.
Symmetry == Permutations(Procs) \cup Permutations(OrderIds) \cup Permutations(CancelIds)
=============================================================================
