--------------------------- MODULE PortfolioBook ---------------------------
(***************************************************************************)
(* The users of the portfolio constructor. The paper simulator carries a   *)
(* book from one rebalance to the next, marks it to market, and writes     *)
(* each event to its ledger before it takes effect; the write may fail     *)
(* before or after its bytes are there. The pipeline writes the intents of *)
(* its last decision to a ledger of the same kind. The backtest enters     *)
(* from a flat book, leaves at the horizon, and checks both trades.        *)
(***************************************************************************)
EXTENDS Portfolio, Sequences, FiniteSets

CONSTANTS
    Users,          \* subset of {"paper", "intents", "backtest"}
    Limits,         \* PortfolioConstraints
    Buffer,         \* same_day_exit_notional_buffer
    Horizons,
    CostRate,       \* cost of a unit of turnover
    RowsOf,         \* RowsOf[a]: rows the market may show; NoRow for none
    Wishes,         \* target weights of an intent
    Returns,        \* of an asset, above -1
    MaxTime, MaxEvents, Faults

ASSUME BookAssumption ==
    /\ Users \subseteq {"paper", "intents", "backtest"} /\ Horizons \subseteq Nat \ {0}
    /\ MaxTime \in Nat /\ MaxEvents \in Nat /\ Faults \subseteq {"write"}
    /\ IsFiniteSet(Assets) /\ BetaOf \in [Assets -> Fractions]
    /\ Limits \in [position : Amounts, gross : Amounts, net : Amounts, sector : Amounts,
                   beta : Amounts, turnover : Amounts, participation : Amounts]
    /\ Buffer \in Amounts /\ CostRate \in Fractions /\ Wishes \subseteq Fractions
    /\ \A a \in Assets : RowsOf[a] \subseteq Rows
    /\ \A r \in Returns : r \in Fractions /\ Less(Negative(One), r)

VARIABLES
    user, horizon,
    positions, equity, meta, last,  \* of the simulator, or of the replay
    returns,    \* of the assets until the horizon, which the labels hold
    seen,       \* sequence numbers of the events the simulator keeps
    ledger,     \* events.jsonl
    torn,       \* its last line is incomplete
    outcome,    \* of the last operation
    history     \* a history variable, of which the code has nothing and which no
                \* step reads: the books before and after each line of the ledger

book == <<positions, equity, meta, last, seen>>
vars == <<user, horizon, book, returns, ledger, torn, outcome, history>>

Init ==
    /\ user \in Users /\ horizon \in Horizons
    /\ positions = Flat /\ equity = One /\ meta = [a \in Assets |-> NoRow] /\ last = 0
    /\ returns = [a \in Assets |-> Zero]
    /\ seen = {} /\ ledger = <<>> /\ torn = FALSE /\ outcome = "none" /\ history = <<>>

\* equity * max(0, 1 + r)
Grown(r) == Times(equity, Greatest(Zero, Plus(One, r)))

Scores == [Assets -> {-1, 1}]
Shown == {r \in [Assets -> UNION {RowsOf[a] : a \in Assets}] : \A a \in Assets : r[a] \in RowsOf[a]}
\* A prediction has its row.
Predicted == {r \in Shown : \A a \in Assets : r[a] # NoRow}

-----------------------------------------------------------------------------
(* The paper simulator *)

\* What the events say. That of a rebalance has its trades, of the assets whose
\* weight it changes; that of a mark has no weights and no moves of assets.
RebalanceEvent(t, weights, cost) ==
    [kind |-> "rebalance", at |-> t, cost_return |-> cost, equity |-> Grown(Negative(cost)),
     trades |-> [a \in {x \in Assets : weights[x] # positions[x]} |->
                    [previous |-> positions[a], target |-> weights[a]]]]
MarkEvent(t, gross) ==
    [kind |-> "mark", at |-> t, gross_return |-> gross, equity |-> Grown(gross)]
IntentsEvent(t, weights) == [kind |-> "intents", at |-> t, intents |-> weights]

\* The assignments after the event was persisted.
Applied(e, weights, rows) ==
    /\ positions' = weights /\ equity' = e.equity /\ last' = e.at /\ meta' = rows
    /\ seen' = seen \cup {Len(ledger) + 1}

\* PaperEventLedger.append: the replay of what is there, the order of times, the
\* line. The event moves the book to weights.
Accepts(e) == ~torn /\ \A i \in DOMAIN ledger : ledger[i].at <= e.at
Written(e, weights) ==
    /\ ledger' = Append(ledger, e)
    /\ history' = Append(history, [before |-> positions, after |-> weights])
AppendFails(e, weights) ==
    /\ \/ ~Accepts(e) /\ UNCHANGED <<ledger, torn, history>>
       \/ "write" \in Faults /\ Accepts(e)
          /\ \/ UNCHANGED <<ledger, torn, history>>
             \/ torn' = TRUE /\ UNCHANGED <<ledger, history>>
             \/ Written(e, weights) /\ torn' = torn
    /\ outcome' = "raised"

\* Mutant of Persist: the simulator takes the event over, then writes it.
PersistAfterwards(e, weights, rows) ==
    /\ Applied(e, weights, rows)
    /\ \/ Accepts(e) /\ Written(e, weights) /\ torn' = torn /\ outcome' = "done"
       \/ AppendFails(e, weights)
\* _persist_event, then the assignments that follow it.
Persist(e, weights, rows) ==
    \/ /\ Accepts(e) /\ Written(e, weights) /\ torn' = torn
       /\ Applied(e, weights, rows) /\ outcome' = "done"
    \/ AppendFails(e, weights) /\ UNCHANGED book

Refuse(why) == outcome' = why /\ UNCHANGED <<book, ledger, torn, history>>

Rebalance ==
    /\ user = "paper" /\ Len(ledger) < MaxEvents
    /\ \E t \in 0..MaxTime, desired \in [Assets -> Wishes], shown \in Shown :
          LET rows == [a \in Assets |-> IF shown[a] = NoRow THEN meta[a] ELSE shown[a]]
              \* The last row of an asset that is held stands in for a missing one.
              used == [a \in Assets |-> IF positions[a] = Zero THEN shown[a] ELSE rows[a]]
              weights == Constrained(desired, used, positions, Limits, equity)
              cost == Times(CostRate, Distance(weights, positions))
          IN  IF t < last THEN Refuse("out_of_order")
              ELSE IF ~Reachable(weights, used, positions, Limits, equity) THEN Refuse("refused")
              ELSE Persist(RebalanceEvent(t, weights, cost), weights, rows)
    /\ UNCHANGED <<user, horizon, returns>>

MarkToMarket ==
    /\ user = "paper" /\ Len(ledger) < MaxEvents
    /\ \E t \in 0..MaxTime, move \in [Assets -> Returns] :
          LET gross == Total([a \in Assets |-> Times(positions[a], move[a])])
          IN  IF t < last THEN Refuse("out_of_order")
              ELSE Persist(MarkEvent(t, gross), Drift(positions, move), meta)
    /\ UNCHANGED <<user, horizon, returns>>

-----------------------------------------------------------------------------
(* The backtest *)

\* Mutant of EntryLimits: nothing is held back for the exit of the same day.
EntryLimitsWhole == Limits
\* round_trip_entry_constraints
EntryLimits ==
    IF horizon # 1 THEN Limits
    ELSE [Limits EXCEPT !.turnover = Over(@, Plus(Fraction(2, 1), Buffer)),
                        !.participation = Over(@, Plus(One, Buffer))]

Enter ==
    /\ user = "backtest" /\ outcome \in {"none", "done"} /\ last < MaxTime
    /\ \E score \in Scores, ranked \in SUBSET Assets, rows \in Predicted :
          LET weights == Constrained(Selected(score, ranked, Limits), rows, Flat, EntryLimits, equity)
          IN  IF ~Reachable(weights, rows, Flat, EntryLimits, equity)
              THEN outcome' = "refused" /\ UNCHANGED <<positions, meta>>
              ELSE outcome' = "entered" /\ positions' = weights /\ meta' = rows
    /\ returns' \in [Assets -> Returns]
    /\ UNCHANGED <<user, horizon, equity, last, seen, ledger, torn, history>>

\* The exit at the horizon: the drifted weights, their participation in the
\* volume of the decision, and the turnover of the day they are traded on.
Exit ==
    /\ user = "backtest" /\ outcome = "entered"
    /\ LET gross == Total([a \in Assets |-> Times(positions[a], returns[a])])
           growth == Greatest(Zero, Plus(One, gross))
           leaving == Drift(positions, returns)
           \* in the value of the start of the period
           traded == Times(Gross(leaving), growth)
           turnover == IF horizon = 1 THEN Plus(Gross(positions), traded) ELSE Gross(leaving)
           cost == Times(CostRate, Plus(Gross(positions), traded))
           share(a) == Over(Times(Times(Size(leaving[a]), growth), equity), meta[a].volume)
       IN  IF \/ \E a \in Assets : leaving[a] # Zero /\ Less(Limits.participation, share(a))
              \/ Less(Limits.turnover, turnover)
           THEN outcome' = "exit_refused" /\ UNCHANGED <<positions, equity, last>>
           ELSE /\ outcome' = "done" /\ positions' = Flat /\ last' = last + 1
                /\ equity' = Grown(Minus(gross, cost))
    /\ UNCHANGED <<user, horizon, meta, returns, seen, ledger, torn, history>>

-----------------------------------------------------------------------------
(* The pipeline *)

\* PipelineExecution.paper: what the last decision would enter with, as intents.
PaperIntents ==
    /\ user = "intents" /\ ledger = <<>> /\ ~torn
    /\ \E t \in 0..MaxTime, score \in Scores, ranked \in SUBSET Assets, rows \in Predicted :
          LET weights == Constrained(Selected(score, ranked, Limits), rows, Flat, EntryLimits, equity)
              e == IntentsEvent(t, weights)
          IN  IF ~Reachable(weights, rows, Flat, EntryLimits, equity) THEN Refuse("refused")
              ELSE \/ Accepts(e) /\ Written(e, weights) /\ outcome' = "done" /\ UNCHANGED <<book, torn>>
                   \/ AppendFails(e, weights) /\ UNCHANGED book
    /\ UNCHANGED <<user, horizon, returns>>

Next == Rebalance \/ MarkToMarket \/ PaperIntents \/ Enter \/ Exit
Spec == Init /\ [][Next]_vars

-----------------------------------------------------------------------------
(* Properties *)

\* From a flat book every request is cut down to one that can be reached: what
\* the participation limit does to a hedge is mended without a refusal
\* (constrain_target_weights, construction.py:204).
FlatBookIsReached == outcome = "refused" => positions # Flat

\* A round trip within one session is never refused at its exit unless an asset
\* has risen by more than the buffer held back for it
\* (round_trip_entry_constraints, docs/backtesting.md:63).
BufferSuffices ==
    outcome = "exit_refused" /\ horizon = 1 => \E a \in Assets : Less(Buffer, returns[a])

\* Every market row has the volume for twice the position limit.
Deep(rows) ==
    \A a \in Assets : ~Less(Times(Limits.participation, rows[a].volume),
                           Times(Times(Fraction(2, 1), Limits.position), equity))

\* What a refusal of a rebalance says of itself, that participation is the cause, is
\* so for a book within its exposure limits: where no trade has to be cut for lack of
\* volume every request can be reached, whatever cannot be traded or borrowed
\* (constrain_target_weights, construction.py:199, 216, 223). It is asked where the
\* bound admits one more event.
OnlyVolumeRefuses ==
    user = "paper" /\ Len(ledger) < MaxEvents /\ WithinExposure(positions, Limits) =>
        \A desired \in [Assets -> Wishes], rows \in Predicted :
            Deep(rows) => Reachable(Constrained(desired, rows, positions, Limits, equity),
                                    rows, positions, Limits, equity)

Rebalanced == Len(ledger') > Len(ledger) /\ ledger'[Len(ledger')].kind = "rebalance"
              /\ positions' # positions

\* What may not be bought is only sold, and what cannot be borrowed is not sold
\* short, through all the scaling (_eligibility_reasons).
IneligibleOnlyUnwinds ==
    [][Rebalanced =>
        \A a \in Assets :
            /\ ~meta'[a].tradable =>
                  /\ ~Less(Greatest(positions[a], Zero), positions'[a])
                  /\ ~Less(positions'[a], Least(positions[a], Zero))
            /\ ~meta'[a].shortable => ~Less(positions'[a], Least(positions[a], Zero))]_vars

\* The last event of those seen, the book it left and the value of that book.
LastOf(events) == CHOOSE j \in events \cup {0} : \A k \in events \cup {0} : k <= j
BookAfter(i) == IF i = 0 THEN Flat ELSE history[i].after
ValueAfter(i) == IF i = 0 THEN One ELSE ledger[i].equity

\* A line of a rebalance or a mark, and the move it stands for, go on from a book of
\* that value: they start from it, the value grows by the return or the cost, and a
\* rebalance lists each weight it changes with what it was.
GoesOn(line, move, weights, value) ==
    LET change == IF line.kind = "mark" THEN line.gross_return ELSE Negative(line.cost_return)
    IN  /\ move.before = weights
        /\ line.equity = Times(value, Greatest(Zero, Plus(One, change)))
        /\ line.kind = "rebalance" =>
              \A a \in Assets :
                  IF a \in DOMAIN line.trades
                  THEN line.trades[a] = [previous |-> weights[a], target |-> move.after[a]]
                  ELSE move.after[a] = weights[a]

\* The book, its value and its time are those the last event seen left.
BookIsLastSeen ==
    LET now == LastOf(seen)
    IN  /\ seen \subseteq DOMAIN ledger
        /\ positions = BookAfter(now) /\ equity = ValueAfter(now)
        /\ now # 0 => last = ledger[now].at

\* Every line, the one whose write was reported as failed too, goes on from the last
\* line seen before it, and is dated no earlier than the one above it.
LinesFollow ==
    \A i \in DOMAIN ledger :
        LET from == LastOf({j \in seen : j < i})
        IN  /\ GoesOn(ledger[i], history[i], BookAfter(from), ValueAfter(from))
            /\ i > 1 => ledger[i - 1].at <= ledger[i].at

\* The simulator never runs ahead of its ledger nor falls behind what it has seen
\* written, and what it writes goes on from what it has seen written, whichever writes
\* failed and whether or not they left a line (_persist_event, rebalance,
\* mark_to_market).
BookIsPersisted == user = "paper" => BookIsLastSeen /\ LinesFollow
=============================================================================
