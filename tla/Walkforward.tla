---------------------------- MODULE Walkforward ----------------------------
(***************************************************************************)
(* Time in a research run: when a session is decided, what a feature row   *)
(* may know, when an outcome is known, what each training snapshot has     *)
(* learnt from, how development is kept apart from the final holdout, and  *)
(* which round trips the backtest makes; and the reveal of a reserved      *)
(* interval with the model that development froze. Each stage of the       *)
(* pipeline is a step, and so is every decision of the training.           *)
(*                                                                         *)
(* Prices, scores and weights are left out. A row is an asset in a session.*)
(***************************************************************************)
EXTENDS Integers, Sequences, FiniteSets

CONSTANTS
    Assets,
    Slowest,        \* sessions of the data: 1..Slowest
    ScopeEnds,      \* sessions that may end a development-only scope
    Cutoffs,        \* when its information may end
    RevealEnds,     \* sessions that may end the reserved decisions and their outcomes
    Delays,         \* how long after the close a bar may be delivered
    MaxLate,        \* at most so many bars are late
    Horizons, Embargoes, Periods, TextTimes,
    Modes           \* of PipelineExecutionScope

Sessions == 1..Slowest

\* Four units a day: the open, the close two units later.
Open(s) == 4 * s
Close(s) == 4 * s + 2
Never == Close(2 * Slowest + 4)

ASSUME MarketAssumption ==
    /\ Slowest \in Nat \ {0} /\ 0 \in Delays /\ Delays \subseteq Nat /\ MaxLate \in Nat
    /\ Horizons \subseteq Nat \ {0} /\ Embargoes \subseteq Nat /\ Periods \subseteq Nat \ {0}
    /\ IsFiniteSet(Assets) /\ ScopeEnds \cup RevealEnds \subseteq Sessions
    \* Never is later than every time of the run.
    /\ Cutoffs \subseteq 0..(Never - 1) /\ \A d \in Delays : Close(Slowest) + d < Never
    /\ TextTimes \subseteq Nat /\ Modes \subseteq {"standard", "development_only"}

VARIABLES
    first,      \* first[a]: session in which the asset begins to trade
    last,       \* last[a]: session of its last bar
    delay,      \* delay[<<a, s>>] of the bar
    textAt,     \* when a text of every asset is available
    conf,       \* horizon, embargo, periods; mode, start, end and cutoff of the scope;
                \* the end of the reserved outcomes
    stage,
    decided,    \* decided[s]: when the session is decided
    features, labels,   \* rows
    split,      \* decisions of the candidates; observed sessions and those of the holdout
    trained,    \* rows the running fit has seen
    snapshots,  \* of the walk-forward
    evaluation, \* development, purged and holdout sessions
    windows     \* sessions that open a round trip, of each backtest

data == <<first, last, delay, textAt, conf>>
vars == <<data, stage, decided, features, labels, split, trained, snapshots, evaluation, windows>>

\* validate_horizon_alignment, and the boundaries of the scopes.
Confs ==
    {c \in [horizon : Horizons, embargo : Embargoes, periods : Periods, mode : Modes,
            start : {0}, end : {Never} \cup {Close(s) : s \in ScopeEnds},
            cutoff : {Never} \cup Cutoffs, outcomes : {Never}] :
        /\ c.periods >= c.horizon
        /\ IF c.mode = "standard" THEN c.end = Never /\ c.cutoff = Never
           ELSE c.end < c.cutoff /\ c.cutoff # Never /\ \A p \in Periods : c.periods >= p}

Rows == Assets \X Sessions
NoEvaluation == [development |-> <<>>, purged |-> <<>>, holdout |-> <<>>]

Init ==
    /\ first \in [Assets -> {1, 2}] /\ \E a \in Assets : first[a] = 1
    /\ last \in [Assets -> {Slowest - 2, Slowest}] /\ \E a \in Assets : last[a] = Slowest
    /\ \E L \in {l \in SUBSET Rows : Cardinality(l) <= MaxLate} :
          \E d \in [L -> Delays \ {0}] : delay = [r \in Rows |-> IF r \in L THEN d[r] ELSE 0]
    /\ textAt \in TextTimes /\ conf \in Confs
    /\ stage = "ingested" /\ decided = <<>> /\ features = {} /\ labels = {} /\ trained = {}
    /\ split = [order |-> <<>>, observed |-> <<>>, pre |-> 0, start |-> Never, index |-> 0]
    /\ snapshots = <<>> /\ evaluation = NoEvaluation
    /\ windows = [development |-> <<>>, holdout |-> <<>>]

-----------------------------------------------------------------------------
(* The calendar and the bars *)

\* USEquityCalendar.next_open_decision_time: the first open not before t.
NextOpen(t) == (t + 3) \div 4
\* _label_session_closes: the first session that opens strictly after t.
EntrySession(t) == IF Open(NextOpen(t)) <= t THEN NextOpen(t) + 1 ELSE NextOpen(t)

\* _market_fetch_end: a scope with an end reads the sessions up to it, and those an
\* outcome of the last may need.
IsFetched(s) ==
    conf.end = Never \/ \E t \in Sessions : Close(t) <= conf.end /\ s <= t + conf.horizon + 1

HasBar(a, s) == s \in first[a]..last[a] /\ IsFetched(s)
Fetched == {s \in Sessions : \E a \in Assets : HasBar(a, s)}
Available(a, s) == Close(s) + delay[<<a, s>>]

\* Mutant of Decision: the session is decided when its first bar is there.
DecisionOnFirst(s) ==
    LET times == {Available(a, s) : a \in {b \in Assets : HasBar(b, s)}}
    IN  CHOOSE t \in times : \A u \in times : t <= u
\* market_decision_times_by_session: the slowest bar of the session.
Decision(s) ==
    LET times == {Available(a, s) : a \in {b \in Assets : HasBar(b, s)}}
    IN  CHOOSE t \in times : \A u \in times : u <= t

Raise == /\ stage' = "raised"
         /\ UNCHANGED <<decided, features, labels, split, trained, snapshots, evaluation, windows>>

\* The decisions advance strictly, or the run fails.
Decide ==
    /\ stage = "ingested" /\ UNCHANGED data
    /\ LET d == [s \in Fetched |-> Decision(s)]
       IN  IF \E s \in Fetched : s + 1 \in Fetched /\ d[s + 1] <= d[s] THEN Raise
           ELSE /\ decided' = d /\ stage' = "decided"
                /\ UNCHANGED <<features, labels, split, trained, snapshots, evaluation, windows>>

-----------------------------------------------------------------------------
(* Features and labels *)

\* _is_decision_timestamp
InScope(s) == conf.start <= decided[s] /\ decided[s] <= conf.end
Candidates == {r \in Rows : HasBar(r[1], r[2]) /\ InScope(r[2])}

\* build_features: bisect_left, the first decision not before the text.
TextDecision ==
    LET later == {s \in Fetched : decided[s] >= textAt}
    IN  IF later = {} THEN Never
        ELSE decided[CHOOSE s \in later : \A u \in later : s <= u]

\* _populate_text_features, by the time the signal is actionable.
UsesText(r) == TextDecision <= decided[r[2]]

BuildFeatures ==
    /\ stage = "decided" /\ features' = Candidates /\ stage' = "featured"
    /\ UNCHANGED <<data, decided, labels, split, trained, snapshots, evaluation, windows>>

\* build_label_rows: a label of one session exits at the close of its entry.
ExitSession(s) == EntrySession(decided[s]) + conf.horizon - 1
Complete(r) == \A s \in EntrySession(decided[r[2]])..ExitSession(r[2]) : HasBar(r[1], s)
\* label_available_at: when the exit session is decided.
KnownAt(r) == decided[ExitSession(r[2])]
\* An observed label has its return; the others are censored.
Observed(r) == r \in labels /\ Complete(r)
InSession(rows, s) == {r \in rows : r[2] = s}
SessionsOf(rows) == {r[2] : r \in rows}

\* _label_is_available_before
KnownBefore(r, t) == Complete(r) /\ Close(ExitSession(r[2])) < t /\ KnownAt(r) < t
\* Mutant of Retained: one asset of a session that is known keeps the session.
RetainedInPart ==
    {r \in features : \E q \in InSession(features, r[2]) : KnownBefore(q, conf.cutoff)}
\* _development_rows_before_information_cutoff
Retained == {r \in features : KnownBefore(r, conf.cutoff)}
SomeSessionInPart ==
    \E s \in SessionsOf(features) :
        InSession(Retained, s) \notin {{}, InSession(features, s)}

BuildLabels ==
    /\ stage = "featured" /\ UNCHANGED data
    /\ IF conf.mode = "development_only"
       THEN IF SomeSessionInPart \/ Retained = {} THEN Raise
            ELSE /\ features' = Retained /\ labels' = Retained /\ stage' = "labelled"
                 /\ UNCHANGED <<decided, split, trained, snapshots, evaluation, windows>>
       ELSE /\ labels' = Candidates /\ stage' = "labelled"
            /\ UNCHANGED <<decided, features, split, trained, snapshots, evaluation, windows>>

-----------------------------------------------------------------------------
(* Training *)

\* complete_label_cross_sections: a session is wholly observed, or wholly
\* censored, and then only because its outcome lies beyond the last decision.
CrossSectionsHold ==
    LET final == decided[CHOOSE s \in SessionsOf(features) :
                            \A t \in SessionsOf(features) : t <= s]
    IN  \A s \in SessionsOf(features) :
            LET group == InSession(features, s)
            IN  \/ \A r \in group : Observed(r)
                \/ /\ \A r \in group : ~Observed(r)
                   /\ Close(ExitSession(s)) > final

\* The i-th session is the one with i sessions up to it.
Ordered(sessions) ==
    [i \in 1..Cardinality(sessions) |->
        CHOOSE s \in sessions : Cardinality({t \in sessions : t <= s}) = i]
ObservedSessions == Ordered(SessionsOf({r \in features : Observed(r)}))
HoldoutPeriods == IF conf.mode = "development_only" THEN 0 ELSE conf.periods

\* chronological_holdout_split, of the sessions wholly observed; every candidate
\* session is a decision.
Split ==
    LET order == Ordered(SessionsOf(features))
        observed == ObservedSessions
        pre == Len(observed) - HoldoutPeriods
    IN  [order |-> order, observed |-> observed, pre |-> pre,
         start |-> IF HoldoutPeriods = 0 THEN Never ELSE decided[observed[pre + 1]],
         index |-> IF HoldoutPeriods = 0 THEN 0
                   ELSE CHOOSE i \in DOMAIN order : order[i] = observed[pre + 1]]

BeginTraining ==
    /\ stage = "labelled" /\ conf.mode # "holdout_evaluation" /\ UNCHANGED data
    /\ IF \/ ~CrossSectionsHold
          \/ HoldoutPeriods > 0 /\ HoldoutPeriods >= Len(ObservedSessions)
          \/ \E r \in features : Observed(r) /\ KnownAt(r) <= decided[r[2]]
       THEN Raise
       ELSE /\ split' = Split /\ stage' = "training"
            /\ UNCHANGED <<decided, features, labels, trained, snapshots, evaluation, windows>>

IsHoldout(i) == decided[split.order[i]] >= split.start
\* Mutant of Cutoff: the embargo is left out.
CutoffWithoutEmbargo(i) == decided[split.order[IF IsHoldout(i) THEN split.index ELSE i]]
\* effective_cutoff: embargo decisions back, of the first holdout decision in
\* the holdout.
Cutoff(i) ==
    LET j == (IF IsHoldout(i) THEN split.index ELSE i) - conf.embargo
    IN  decided[split.order[IF j < 1 THEN 1 ELSE j]]

Learns(r, t) == Observed(r) /\ decided[r[2]] < split.start /\ KnownAt(r) < t

TrainDecision ==
    /\ stage = "training" /\ Len(snapshots) < Len(split.order)
    /\ LET i == Len(snapshots) + 1
       IN  /\ trained' = trained \cup {r \in features : Learns(r, Cutoff(i))}
           /\ snapshots' = Append(snapshots, [session |-> split.order[i],
                                              rows |-> trained', frozen |-> IsHoldout(i)])
    /\ UNCHANGED <<data, stage, decided, features, labels, split, evaluation, windows>>

EndTraining ==
    /\ stage = "training" /\ Len(snapshots) = Len(split.order) /\ stage' = "trained"
    /\ UNCHANGED <<data, decided, features, labels, split, trained, snapshots, evaluation, windows>>

\* predict_with_model: the last snapshot that is not after the row; the rows it
\* has learnt, none before the first.
LearntFor(s) ==
    LET upTo == {i \in DOMAIN snapshots : decided[snapshots[i].session] <= decided[s]}
    IN  IF upTo = {} THEN {} ELSE snapshots[CHOOSE i \in upTo : \A j \in upTo : j <= i].rows

-----------------------------------------------------------------------------
(* Evaluation and backtest *)

PreHoldout == SubSeq(split.observed, 1, split.pre)
Holdout == SubSeq(split.observed, split.pre + 1, Len(split.observed))

\* Mutant of Development: only what overlaps is purged, wherever it is.
DevelopmentUnpurged == PreHoldout
\* evaluate_predictions: up to the first session not wholly known before the
\* holdout starts.
Development ==
    LET known(s) == \A r \in InSession(features, s) : Observed(r) /\ KnownAt(r) < split.start
        keeps == {n \in 0..Len(PreHoldout) : \A i \in 1..n : known(PreHoldout[i])}
    IN  SubSeq(PreHoldout, 1, CHOOSE n \in keeps : \A k \in keeps : k <= n)

Evaluate ==
    /\ stage = "trained" /\ UNCHANGED data
    /\ IF HoldoutPeriods > 0 /\ Development = <<>> THEN Raise
       ELSE /\ evaluation' = [development |-> Development,
                              purged |-> SubSeq(PreHoldout, Len(Development) + 1, Len(PreHoldout)),
                              holdout |-> Holdout]
            /\ stage' = "evaluated"
            /\ UNCHANGED <<decided, features, labels, split, trained, snapshots, windows>>

\* all_times[offset::horizon]
Every(times, offset) ==
    LET n == (Len(times) - offset + conf.horizon - 1) \div conf.horizon
    IN  [i \in 1..(IF n < 0 THEN 0 ELSE n) |-> times[offset + (i - 1) * conf.horizon + 1]]

\* Mutant of Offset: the holdout starts a replay of its own.
OffsetAtStart == 0
\* holdout_rebalance_offset: (-pre_holdout_periods) % horizon
Offset ==
    LET n == Len(evaluation.development) + Len(evaluation.purged)
    IN  (-n) % conf.horizon

\* Two runs of the engine; one in a development-only scope.
Backtest ==
    /\ stage = "evaluated" /\ stage' = "tested"
    /\ windows' = [development |-> Every(evaluation.development, 0),
                   holdout |-> IF HoldoutPeriods = 0 THEN <<>>
                               ELSE Every(evaluation.holdout, Offset)]
    /\ UNCHANGED <<data, decided, features, labels, split, trained, snapshots, evaluation>>

-----------------------------------------------------------------------------
(* The reveal *)

\* reveal_frozen_holdout: the pipeline again, in the scope of the reserved
\* decisions, which start where development's information ends. The frozen model
\* must hold no snapshot of them.
Reveal ==
    /\ stage = "tested" /\ conf.mode = "development_only"
    /\ UNCHANGED <<first, last, delay, textAt, split, trained, snapshots, evaluation, windows>>
    /\ \E end, outcomes \in RevealEnds :
          /\ conf.cutoff <= Close(end) /\ conf.cutoff < Close(outcomes)
          /\ conf' = [conf EXCEPT !.mode = "holdout_evaluation", !.start = conf.cutoff, !.cutoff = Never,
                                  !.end = Close(end), !.outcomes = Close(outcomes)]
          /\ decided' = <<>> /\ features' = {} /\ labels' = {}
          /\ stage' = IF \E i \in DOMAIN snapshots : decided[snapshots[i].session] >= conf.cutoff
                      THEN "raised" ELSE "ingested"

\* _select_complete_holdout_rows: sessions wholly observed, every outcome within
\* the reserved interval; the replay starts with the first.
RevealRows ==
    /\ stage = "labelled" /\ conf.mode = "holdout_evaluation" /\ UNCHANGED data
    /\ LET rows == {r \in features : Observed(r)}
       IN  IF \/ ~CrossSectionsHold \/ rows = {}
              \/ \E r \in rows : {Close(ExitSession(r[2])), KnownAt(r)}
                                  \ (conf.start..conf.outcomes) # {}
           THEN Raise
           ELSE /\ features' = rows /\ labels' = rows /\ stage' = "revealed"
                /\ windows' = [windows EXCEPT !.holdout = Every(Ordered(SessionsOf(rows)), 0)]
                /\ UNCHANGED <<decided, split, trained, snapshots, evaluation>>

Next == \/ Decide \/ BuildFeatures \/ BuildLabels \/ BeginTraining \/ TrainDecision
        \/ EndTraining \/ Evaluate \/ Backtest \/ Reveal \/ RevealRows

Spec == Init /\ [][Next]_vars

-----------------------------------------------------------------------------
(* Properties *)

\* A feature row knows nothing that was delivered after its decision: no bar of
\* any asset up to its session, and no text (market_decision_times_by_session,
\* build_feature_rows, docs/japan_baseline.md:97).
FeaturesAreKnown ==
    \A r \in features :
        /\ \A q \in Rows : HasBar(q[1], q[2]) /\ q[2] <= r[2] => Available(q[1], q[2]) <= decided[r[2]]
        /\ UsesText(r) => textAt <= decided[r[2]]

\* A prediction is made from outcomes that were known before its decision, with
\* the embargo's decisions between; the holdout is predicted from one set of them,
\* with no decision of the holdout and no outcome known in it (train_baselines,
\* predict_with_model).
SnapshotsAreCausal ==
    LET order == split.order
        held == {i \in DOMAIN order : decided[order[i]] >= split.start}
        start == CHOOSE i \in held : \A j \in held : i <= j
    IN  stage \in {"trained", "evaluated", "tested"} =>
            \A i \in DOMAIN order :
                LET from == (IF i \in held THEN start ELSE i) - conf.embargo
                IN  \A r \in LearntFor(order[i]) :
                        /\ KnownAt(r) < decided[order[i]]
                        /\ from >= 1 => KnownAt(r) < decided[order[from]]
                        /\ i \in held => /\ LearntFor(order[i]) = LearntFor(order[start])
                                         /\ decided[r[2]] < decided[order[start]]
                                         /\ KnownAt(r) < decided[order[start]]

\* Every outcome that development is judged by is known before the holdout is
\* decided, so is the exit of every development round trip, and nothing between
\* the two windows is lost but the sessions that are purged
\* (evaluate_predictions, PipelineExecution.backtest). The same of a holdout that
\* is revealed later: what its predictions have learnt was known, and what
\* development traded was sold, before its first decision, and no outcome of it
\* lies outside the reserved interval (reveal_frozen_holdout).
HoldoutIsApart ==
    /\ stage = "revealed" =>
        \A r \in features :
            /\ decided[r[2]] <= conf.end /\ Close(ExitSession(r[2])) <= conf.outcomes
            /\ \A q \in LearntFor(r[2]) : q[2] < r[2] /\ KnownAt(q) < decided[r[2]]
            /\ \A i \in DOMAIN windows.development :
                  Close(ExitSession(windows.development[i])) < Open(EntrySession(decided[r[2]]))
    /\ stage \in {"evaluated", "tested"} /\ evaluation.holdout # <<>> =>
        LET start == decided[evaluation.holdout[1]]
        IN  /\ \A i \in DOMAIN evaluation.development :
                  /\ KnownAt(<<CHOOSE a \in Assets : HasBar(a, evaluation.development[i]),
                               evaluation.development[i]>>) < start
                  /\ Close(ExitSession(evaluation.development[i])) < start
            /\ evaluation.development \o evaluation.purged \o evaluation.holdout
                  = split.observed
            /\ Len(evaluation.holdout) = conf.periods

\* In a development-only scope nothing is learnt, judged or traded that was not
\* known before the information cutoff, and sessions are kept whole
\* (_development_rows_before_information_cutoff).
DevelopmentIsBlind ==
    conf.mode = "development_only" /\ stage \notin {"ingested", "decided", "featured", "raised"} =>
        \A r \in features \cup trained :
            /\ decided[r[2]] <= conf.end /\ Complete(r)
            /\ Close(ExitSession(r[2])) < conf.cutoff /\ KnownAt(r) < conf.cutoff
            /\ \A a \in Assets : HasBar(a, r[2]) => <<a, r[2]>> \in features

Overlap(s, t) == s # t /\ Open(EntrySession(decided[s])) < Close(ExitSession(t))
                 /\ Open(EntrySession(decided[t])) < Close(ExitSession(s))

\* The replay of the holdout goes on in the phase of the development replay: the
\* round trips of both are every horizon-th observed session from the first, and
\* where every bar is delivered before the next open no position is carried from
\* one into the next (holdout_rebalance_offset, run_backtest).
ReplayKeepsPhase ==
    stage = "tested" =>
        LET all == split.observed
            place(s) == CHOOSE i \in DOMAIN all : all[i] = s
            opened == {windows.development[i] : i \in DOMAIN windows.development}
                      \cup {windows.holdout[i] : i \in DOMAIN windows.holdout}
        IN  /\ opened = {s \in {all[i] : i \in DOMAIN all} :
                            /\ (place(s) - 1) % conf.horizon = 0
                            /\ \A i \in DOMAIN evaluation.purged : s # evaluation.purged[i]}
            /\ (\A s \in Fetched : decided[s] < Open(s + 1)) => \A s, t \in opened : ~Overlap(s, t)

\* No position is carried from one round trip into the next
\* (docs/backtesting.md:36).
WindowsAreApart ==
    stage = "tested" =>
        \A i, j \in DOMAIN windows.development :
            ~Overlap(windows.development[i], windows.development[j])
=============================================================================
