--------------------------- MODULE BrokerAccount ---------------------------
(***************************************************************************)
(* The account limits of a submission's preflight (_preflight and          *)
(* _account_state), on top of BrokerExecutor: orders are filled in part or *)
(* whole at any time, the preflight reads the open orders first and the    *)
(* positions after them, and nothing is read again before the order is     *)
(* sent, although orders that are older may be filled or end meanwhile.    *)
(*                                                                         *)
(* Orders are buys of one symbol, and a quantity stands for its notional.  *)
(***************************************************************************)
EXTENDS BrokerExecutor

CONSTANTS
    Quantity,       \* of a broker order
    Holding,        \* the position before the first order
    MaxPosition,    \* max_position_quantity_per_symbol of a config
    MaxOpen         \* max_open_orders of a config

ASSUME AccountAssumption ==
    /\ Quantity \in [BrokerIds -> Nat \ {0}] /\ Holding \in Nat
    /\ MaxPosition \in [Configs -> Nat] /\ MaxOpen \in [Configs -> Nat]

VARIABLES
    filled,     \* CumQty of a broker order
    read        \* read[p]: what the preflight of p has read of the orders

accountVars == <<vars, filled, read>>

-----------------------------------------------------------------------------
Open(b) == book[b].state \in {"working", "cancelling"}
\* _pending_buy_quantity, of some of the orders.
Pending(orders) == MapThenSumSet(LAMBDA b : Quantity[b] - filled[b], {b \in orders : Open(b)})
\* LeavesQty of the symbol's positions, but for what orders left out added.
Position(orders) == Holding + MapThenSumSet(LAMBDA b : filled[b], orders)

NoRead == [done |-> FALSE, placed |-> {}, pending |-> 0, open |-> 0]

AccountInit == Init /\ filled = [b \in BrokerIds |-> 0] /\ read = [p \in Procs |-> NoRead]

\* _account_state: the orders.
ReadOrders(p) ==
    /\ At(p, {"submit"}, "preflight") /\ read[p] = NoRead
    /\ read' = [read EXCEPT ![p] =
                   [done |-> TRUE, placed |-> {b \in BrokerIds : book[b].state # "none"},
                    pending |-> Pending(BrokerIds), open |-> Cardinality({b \in BrokerIds : Open(b)})]]
    /\ UNCHANGED <<vars, filled>>

\* Mutant of Admits: orders that are still open are not counted.
AdmitsByPosition(p) ==
    /\ read[p].done /\ read[p].open < MaxOpen[op[p].cfg]
    /\ Position(BrokerIds) + Quantity[op[p].id] <= MaxPosition[op[p].cfg]
\* The positions, and the limits on what the orders read before would add.
Admits(p) ==
    /\ read[p].done /\ read[p].open < MaxOpen[op[p].cfg]
    /\ Position(BrokerIds) + read[p].pending + Quantity[op[p].id] <= MaxPosition[op[p].cfg]

FillsInPart(b) ==
    /\ Open(b) /\ filled[b] + 1 < Quantity[b]
    /\ filled' = [filled EXCEPT ![b] = @ + 1]
    /\ UNCHANGED <<vars, read>>

\* Orders that end other than by a cancellation: filled, or expired.
Ends(b) == book[b].state # "done" /\ book'[b].state = "done" /\ book'[b].cancelled = book[b].cancelled

\* What a step of the executor or of the broker is in the account.
AccountStep ==
    /\ \A p \in Procs : At(p, {"submit"}, "preflight") /\ op'[p].step = "attempt" => Admits(p)
    /\ read' = [p \in Procs |-> IF op'[p].kind = "submit" THEN read[p] ELSE NoRead]
    /\ LET ended == {b \in BrokerIds : Ends(b)}
       IN  filled' \in {f \in [BrokerIds -> UNION {0..Quantity[b] : b \in BrokerIds}] :
                           \A b \in BrokerIds : IF b \in ended THEN f[b] \in filled[b]..Quantity[b]
                                                ELSE f[b] = filled[b]}

AccountNext ==
    \/ \E p \in Procs : ReadOrders(p)
    \/ \E b \in BrokerIds : FillsInPart(b)
    \/ Next /\ AccountStep

AccountSpec == AccountInit /\ [][AccountNext]_accountVars

-----------------------------------------------------------------------------
(* Properties *)

\* An order is sent only where, with all that is held, open or on its way of the
\* adapter's orders and of those at the broker when the orders were read, it stays
\* within the limits of its config, whatever was filled or ended in between
\* (_preflight, _account_state).
OrdersFitTheAccount ==
    [][\A p \in Procs : At(p, {"submit"}, "transport") /\ op'[p].step = "await" =>
          LET c == op[p].id
              known == read[p].placed \cup OrderIds
              flying == {d \in OrderIds : request[d].state = "sent"}
          IN  /\ Position(known) + Pending(known) + MapThenSumSet(LAMBDA d : Quantity[d], flying)
                    + Quantity[c] <= MaxPosition[op[p].cfg]
              /\ Cardinality({b \in known : Open(b)} \cup flying) < MaxOpen[op[p].cfg]]_accountVars
=============================================================================
