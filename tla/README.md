# TLA+ models and proofs of maney

This directory holds TLA+ specifications of maney, the TLC configurations that
check them on small instances, and TLAPS proofs of the properties that matter
most. `PROJECT.json` indexes it: components, runs, the source lines each
definition stands for, hazards and theorems.

## The system

maney is a Japanese-equity research program (package `nlp_trader`) with three
kinds of state that outlive a process:

- **run artifacts** written by a data pipeline (text, signals, features, models,
  predictions, backtests), immutable once written;
- **append-only, hash-chained ledgers**: the study registry and the round ledgers
  of the research agents, the paper-trading ledger, the broker audit ledger;
- **the broker**: real cash orders at kabuStation, reached only through an
  explicitly enabled adapter that submits or cancels one order per command.

Commands are short processes started by an operator. They share nothing but
files; mutual exclusion is a nonblocking advisory lock that the operating system
frees when its holder ends. The behaviours that are hard to test are therefore a
process that ends between two durable steps, two commands interleaved, an answer
that is lost, a clock that moves, and a long sequence of legal commands.

### Inventory

| component | source | state | operations | what must be right |
|---|---|---|---|---|
| Live order executor | `broker/execution.py` | none of its own: reads and writes the four below | submit, cancel, preview, reconcile, resolve, engage, release | a mutation is sent at most once, after its attempt is durable; one undecided order; the daily limit; outcomes recorded are true; halting and releasing are safe |
| Order preflight limits | `broker/execution.py`, `contracts.py` | none: orders, positions, wallet and quotes read from the broker | `_account_state`, `_preflight` | what is sent fits the account as it is when it is sent |
| Broker audit ledger | `broker/audit.py`, `immutable/append.py` | `audit.jsonl`, hash-chained events | append, replay, unresolved ids, seen id, accepted notional of a date | append-only, ordered, one reader or writer; an incomplete line is an error, never skipped |
| Operation lock, state directory | `broker/state.py`, `immutable/locking.py` | `operation.lock`, `KILL_SWITCH` | acquire without waiting, free | one operation at a time, also after a crash |
| kabuS client | `broker/kabus.py` | API token in memory | one HTTP call per mutation, reads | no retry; whatever is not a clear acceptance is ambiguous |
| Broker configuration | `broker/config.py` | immutable values | validate, digest | the match window covers preflight and transport |
| Study registry | `research_agents/registry.py` | `research_events.jsonl`, folded into studies and holdout uses | register, reserve/complete attempt, verify, approve, start/fail/complete run, freeze, reserve/fail/complete reveal, external holdout, close | every event on the head its writer read; attempts within budget; one approval, one run completed at a time, one freeze; a holdout revealed once, ever |
| Holdout index, authority | `research_agents/holdouts.py`, `authority.py` | derived | overlap, load approval | a record on disk is used only if the registry agrees |
| Approvals | `research_agents/approvals.py` | `approval.json`, `candidate_config.json`, `freeze.json` | approve, freeze, load | registry event first, file after |
| Development and holdout execution | `experiment_execution.py`, `holdout_execution.py` | run directories | run, reveal | a failure is recorded; a reserved reveal stays spent; the reserved interval is read by nothing but the reveal |
| Agent runner | `research_agents/runner.py`, `ledger.py`, `tools.py`, `runtime.py` | run directory, round ledger | rounds of model call and tool calls, terminal artifact, verification, failure | bounded rounds, every round durable before the next, the attempt closed once, a final run can be replayed |
| Plan compiler, verifier, contracts | `research_agents/compiler.py`, `verifier.py`, `contracts.py`, ... | none | validate, compile, verify | what passes cites what the session was shown |
| Study commands, audit, index | `agent_study.py`, `research_agents/audit.py`, `index.py`, `views.py`, `cli.py` | none | compose the above | read-only audit |
| Pipeline, run lifecycle | `pipeline.py`, `research.py`, `reports.py` | run directories, `run.initial.json`, `run.final.json`, `run.failed.json` | capture, name, stages in dependency order, finalize, fail | a run works on what its manifest names, in directories of its own; a final manifest is whole |
| Data stores and ingestion | `data/` | content-addressed files | ingest, read, write features | write once; no row before it was available |
| LLM annotation, decision rounds | `nlp/llm_*.py`, `local_generation.py` | the annotation cache all runs share, attempt records and rounds of a run | look up, generate, store, bind | an answer is that of the model named; two runs agree on it; a generation is counted once |
| Text preprocessing and signals | `nlp/` | none | deduplicate, score | first availability wins |
| Features, labels, calendars | `features/build.py`, `market_timing.py`, `calendars.py` | none | build | nothing from after the decision |
| Models and evaluation | `models/` | model files | split, fit, predict | embargo and purge between what is learnt and what is judged |
| Backtest engine | `backtest/` | equity in memory | round trips, costs, metrics | round trips do not overlap; exits are possible |
| Portfolio construction | `portfolio/` | none | constrain target weights | the book it returns satisfies every limit, or it refuses |
| Paper simulator and ledger | `paper/` | `events.jsonl`, book in memory | rebalance, mark to market, append, replay | an event is written before it is applied |
| Templates, providers, schemas, CLI | the rest | none | expand, validate, parse | pure |

### Interactions

The executor is the only component that touches the broker. It holds
`operation.lock` for a whole command, and `audit.jsonl.lock` for each append or
replay, so that the second is free whenever the first is held by a live command.
The study components interact only through the registry: each command reads a
head hash, then appends an event on top of that head, each under its own lock;
files that describe an event are written after it.

A study goes through create, reserve-attempt, propose (a model session), approve,
run-development (the pipeline without the reserved interval), freeze-candidate
and reveal-holdout, each a command of its own that may be run by several
operators at once. A mutation of the registry takes the registry lock twice:
once to read the head, once to replay the file, compare the head, check the
transition, fold the file with the new event and append. Between the two, and
between two mutations of one command, anything can happen; the except clauses
then record a failure by another mutation.

A session of the research analyst is one command of a study (`propose`), which
calls the model and its tools in turn and appends a round for each call. The
pipeline is called by `maney` itself, by `run-development` and by
`reveal-holdout`; its runs share the configured input files, which an operator
may replace at any time, the directories in which runs choose their names, and
the cache of annotations. Within a run the stages hand each other rows and
times: features, labels, snapshots, predictions, books. The backtest, the paper
intents and the paper simulator all build their books with the one portfolio
constructor.

## Modules

| module | models | proofs |
|---|---|---|
| `BrokerLedger` | the events of `audit.jsonl` and the queries of `BrokerAuditLedger` | `BrokerExecutorProofs` |
| `BrokerExecutor` | `KabuSExecutor`, its lock, the marker file, the clock, and the broker as its environment | `BrokerExecutorProofs`, `BrokerVerdictProofs`, `BrokerLimitsProofs` |
| `OrderLifecycle` | what the executor promises of its mutations (abstract) | refined by `BrokerExecutor`: `BrokerExecutorProofs` |
| `BrokerAccount` | the account limits of the preflight, over `BrokerExecutor` and orders that are filled meanwhile | `BrokerLimitsProofs` |
| `StudyRegistry` | the events of `research_events.jsonl`, the projection, what every transition and the fold ask | `StudyExecutionProofs` |
| `StudyExecution` | the commands of a study as processes over one registry and artifact root | `StudyExecutionProofs` |
| `StudyLifecycle` | what the registry promises of a study and its holdout (abstract) | refined by `StudyExecution`: `StudyExecutionProofs` |
| `AgentSession` | one session of the analyst, write by write | `AgentSessionProofs` |
| `ResearchRuns` | runs of the pipeline over shared inputs, names and annotation cache | `ResearchRunsProofs` |
| `Walkforward` | what is known when: decisions, labels, snapshots, evaluation, round trips, the reveal | `WalkforwardProofs` |
| `Portfolio` | target weights under limits, as operators on books | |
| `PortfolioBook` | the paper simulator, the paper intents and the backtest's round trip, over `Portfolio` | `PortfolioBookProofs` |
| `MC...` | constant values for TLC, one module for each specification that is run | |

`BrokerAccount` extends `BrokerExecutor`, which uses `BrokerLedger`;
`StudyExecution` extends `StudyRegistry`; `AgentSession` refines the session that
`StudyExecution` has as one step into its writes; `PortfolioBook` extends
`Portfolio`. `OrderLifecycle` and `StudyLifecycle` are the abstract
specifications, instantiated with a refinement mapping at the end of
`BrokerExecutor` and `StudyExecution`.

### BrokerExecutor

State: `lock` is `operation.lock`; `op[p]` is where process `p` is in its
command, with what it has read; `ledger` and `torn` are `audit.jsonl` and whether
its last line is incomplete; `marker` is the `KILL_SWITCH` file (absent, created
but not wholly written, or valid) with a nonce; `clock` and `regress` are the
wall clock and the backward steps it has taken, so that `clock + regress` is the
monotonic clock and the broker's; `request`, `transports` and `book` are the
broker: what became of the one request of each client id, how many calls were
made for it, and the broker's orders.

A command is a sequence of actions cut at every durable write and every call to
the broker; what it reads and checks under the lock between two cuts is one
action. `submit_order` is `SubmitBegin`, `SubmitPreflight`, `SubmitAttempt`,
`SubmitRecheck` (or `SubmitRecheckFails`), `Transport`, then `MutationAccepted`
or `MutationUnknown`; `cancel_order` is `CancelBegin`, `CancelCandidate`,
`CancelAttempt`, then the same three; `reconcile` is `ReconcileRead`,
`ReconcileRecord`; `resolve_unknown` is `ResolveBegin`, `ResolveFreshRead`,
`ResolveRecord`; the kill switch is `EngageCreate`, `EngageWrite`,
`EngageRecord` and `ReleaseBegin`, `ReleaseRecord`, `ReleaseUnlink`. A read of
the broker's orders is dated when it has returned, and time may pass in between.

`Stop` ends any command at any of its steps: a failed check, a failed read and
the end of the process look the same from outside, and all free the lock.
`StopInAppend` ends it inside an append and leaves a torn line. A request
survives the process that made it. The broker takes a request, refuses or loses
it at any time less than `MaxFlight` after it was sent, and the caller may see
an ambiguous failure whatever the broker did.

Assumptions, each visible in the module:

- no time passes between the last check of a submission and the call
  (execution.py:411-426), nor between the attempt of a cancellation and its call;
  there the code looks at no clock (execution.py:531-533), so that a process held up
  at that place for longer than the match window is left out;
- a request reaches the broker in less than `MaxFlight`, the transport timeout;
  `WindowAssumption` is the relation config.py:171-176 enforces between the match
  window, the preflight and that timeout;
- one clock tick is one second, the granularity of the broker's times: the
  tolerance of one second in the matcher is one tick;
- the broker's clock is the adapter's monotonic clock; only the adapter's wall
  clock may step back;
- one config stands for one environment and one digest.

Left out: hash chaining, JSON, the sensitive-key filter, confirmations (an
operation is given the right one or is a `Stop`), the age of quotes and intents
and the price limits (a refusal by one of them is a `Stop`, or
`SubmitRecheckFails` once the attempt is recorded), and the instant at which a
reconciliation's read returned being earlier than the append that records it
(both are one step).

### BrokerAccount

`filled[b]` is the `CumQty` of a broker order, and `read[p]` what the preflight of
process `p` has read of the orders: which there were, how much of them was
pending and how many were open. `_account_state` reads the orders, then the
positions: `ReadOrders` is the first read, `Admits` the second together with the
limits, in the step that leaves the preflight. `FillsInPart` and the ends of
orders (`Ends`) happen between any two steps, also after the limits were checked.
A step of `BrokerExecutor` is a step here (`AccountStep`), and nothing about the
account is read again before the order is sent, as in the code. Orders are buys
of one symbol, and a quantity stands for its notional, so that the position and
the notional limits are one. Orders placed outside the adapter after its read
are not counted by the property, for the code cannot know them.

### StudyRegistry and StudyExecution

State: `study[s]` is the fold of the events of study `s`, `uses` the holdout-use
index, `length` the number of events, which stands for the hash of the head, and
`torn` says that the last line is incomplete. `lock` is the holder of the
registry's lock while it appends; `op[p]` is the command of process `p`, with its
step, the event it is to append, the head it expects and whether it is in its
except clause. `sessions`, `approvals` and `freezes` are the directories and
files the commands create; `reads[s]` counts how often the reserved data of `s`
was opened, a history variable that no action reads.

A mutation is `ReadHead`, `TakeTransition` (the lock, the head, the transition,
the fold), then `Appended` or `AppendFails`; `RefuseTransition` is everything
that raises instead, an event that regresses in time or does not satisfy its
contract included (registry.py:837-852), which ends as the others do. The lock does not wait: a process that finds it held, also
by one that only reads (`Contended`), raises. `Raised` is where an exception
takes a command: out of it, or into its except clause when the event is one its
try block appends (`Tried`). `AppendFails` covers a write of nothing, of some of
the line, and of all of it with a failing fsync; in the last case the event is
in the registry and the command acts as if it were not.

`propose` is `Propose`, `MakeRunDirectory`, `RunModel`, a completion,
`VerifyTerminal`, a verification, with `Recover` for its except clause;
`run-development` is `RunDevelopment`, a start, `MakeDevelopmentRoot`,
`RunPipeline`, a completion, with the same `Recover`; `reveal-holdout` is
`Reveal`, a reservation, `OpenHoldout`, `EvaluateHoldout`, a completion;
`approve` and `freeze` end in `WriteRecord`. A crash frees the lock and may leave
the line that was being written out of the file, in it, or torn.

Left out: hashes and lineage (an event binds its study, attempt or run number and
holdout; what must match what is compared by value), timestamps, the view bundle,
the compiled definition, the copy of the study's definition `create` writes, the
candidate config apart from `freeze.json`, and what the model session and the
pipelines compute. What a command reads before its first mutation is read in
one step: what it reads stays true, but for the state of the study, which the
transition checks again under the lock.

### AgentSession

`at` is where the host is; `handling` says that it is in its except clause;
`host` is what it counts and keeps in memory (step, calls, pages, reads, bytes,
rounds and results); `action` is the action parsed from the last answer. On disk
are `files` (requests, responses, tool requests, terminal artifact, verification,
summaries), `pages` (tool results), `rounds` and `torn` (the round ledger), and
`attempt` is what the registry holds.

`PrepareInputs`, then for every step `BeginStep`, `Generate`, and one of
`RejectAction` (not parsed, or a call too many), `RequestTool`, `CallTool`,
`RecordCall`, or `RecordTerminal`; then `WriteTerminal`, `CompleteAttempt`,
`VerifyTerminal`, `RecordVerification`, `WriteFinal`, `WriteSummary`. A failing
outcome is `FailAttempt`, `WriteFailed`, and any exception goes through `Raises`
to `Recover`, the except clause, once. The model answers any action at all, with
any citations; the gateway finds any of the evidence. A write may fail before or
after its bytes are there, an append also half way, a registry mutation may be
refused, or recorded and yet raise; a crash may come anywhere. `RoundsReplay` and
`StoredRunVerifies` are what `replay_agent_run` and `verify_stored_run` ask of a
stored run; the results it verifies with are those of the tool files by step, where
the code lists the directory of results (runner.py:809-812), which in a finished
run has a file for each of them and no other.

Left out: hashes (the number of rounds before a round stands for the previous
hash), tokens and time (the time limit is a choice to stop at the beginning of a
step), metrics and calculations in the verifier (a choice to pass or fail).

### ResearchRuns

`version[f]` is the version of each configured file, which `Edit` replaces;
versions only grow, since content decides. `owner[n]` holds who made which of the
four directories of name `n`; `cache` is `_cache/llm_annotations`, with whose
generation a record is, or that it is not whole. The rest belongs to a run:
`at`, what its manifest captured, its name and directories, the stages done and
the versions they read, its artifacts, what the annotator keeps in memory, its
attempt records, and its final manifest.

`Capture`, `ChooseName`, `MakeDirectory` (one directory at a time) and `Announce`
are `create_run_context` and what precedes the try block; `IngestMarket` and
`IngestText` compare the bytes they copied with the manifest; `Work` is every
other stage that reads and writes only under the run's own name; `annotate_text`
is `ConstructAnnotator`, `LookUp` (one request at a time), `CheckModel`,
`LoadModel`, `ConfirmModel`, `Generate` (one batch at a time), `OpenRecord`,
`FillRecord`, `AllStored` and `Bind`; `Finalize` and `FailRun` end a run. A stage
may raise with any of its files there. The order of stages is `DEPENDENCIES` and
the recursion of `PipelineExecution.run` (`Due`). A record that is there when it is
to be written is compared with the new one (llm_annotations.py:1019-1044); the model
takes them for different, since each has the latency of its own generation.

Left out: the shared cache of a transformer, which the documentation keeps out of
the manifests (docs/outputs.md:213); runs without annotation; the content of
artifacts.

### Walkforward

The data are a calendar of sessions, when every bar was delivered (`delay`), when
assets begin and end to trade, and a text; `conf` is the horizon, the embargo, the
length of the holdout and the scope. `Decide`, `BuildFeatures`, `BuildLabels`,
`BeginTraining`, one `TrainDecision` for each decision, `EndTraining`, `Evaluate`
and `Backtest` are the stages; `Reveal` and `RevealRows` are `reveal_frozen_holdout`,
which runs the pipeline again in the scope of the reserved decisions and predicts
with the snapshots that development left. `decided`, `features`, `labels`, `split`,
`snapshots`, `evaluation` and `windows` are what the stages hand on. A check that
raises leads to the stage "raised".

A day has four units of time, with the open and the close two apart, so that a bar
can be delivered at the close, between sessions, at the next open and at the next
close. The outcome interval of a reveal starts with its decisions. Left out:
prices, scores, fitting, weights, metrics; a development scope starts with the
data.

### Portfolio and PortfolioBook

`Constrained` is `constrain_target_weights`, step by step in the order of the code,
and `Reachable` the checks after its last step. Weights are exact fractions and the
tolerances of 1e-10 and 1e-12 are zero; short positions are allowed. A market row
is its dollar volume and whether it may be traded and borrowed.

`PortfolioBook` has the users. `Rebalance` and `MarkToMarket` are the paper
simulator: the last row of an asset that is held stands in for a missing one, the
event is appended (`Accepts`, `Written`, `AppendFails`), then `Applied`; `ledger`,
`torn` and `seen` are the file and the events the simulator knows it has written. An
event has the fields of the code that the properties are about: a rebalance its cost,
the value after it and the trades, which are the weights it changes with what they
were; a mark its gross return and the value after it, and neither weights nor the
moves of assets. The ledger alone therefore does not give the book, and the code says
that it is not to be inferred from it (docs/backtesting.md:147-148). `history` holds
the books before and after each line; it is a history variable that no step reads,
there so that the properties can relate lines to books.
`PaperIntents` is the pipeline's stage of that name. `Enter` and `Exit` are a
round trip of the backtest with the entry limits of a one-session horizon and the
checks of the exit. A cost is a rate of turnover.

## Runs

| run | instance | shows |
|---|---|---|
| `BrokerOrders` | `BrokerAccount`: one process at a time, two orders of two shares, two configs with different daily, position and open-order limits, fills in part or whole at any time, the wall clock steps back once | nothing is sent twice or before its attempt; one undecided order; the daily exposure, counting what the broker may still get, is within the limit; what is sent fits the account |
| `BrokerKillSwitch` | two processes, one order and one placed outside the adapter with the same symbol and side, crashes, torn appends, reconciliation, resolution, two engagements, one release, one backward step of the clock | no order is sent under a marker; a release happens with nothing undecided or in flight; engaging overlaps no mutation; a torn ledger sends nothing; a recorded rejection is true; the executor implements `OrderLifecycle` |
| `BrokerCancels` | one order and two cancellations that may aim at it | undecided cancellations do not overlap; recorded acceptances are true |
| `StudyReveal` | two processes, all commands, one study, one attempt, two sessions, two overlapping holdouts, two development runs, all faults | the type invariant; budgets; pipelines are backed by the registry; files follow events; what an approval, a freeze and a closing rest on; a holdout is opened once and never after an overlapping use; `StudyExecution` implements `StudyLifecycle` |
| `AgentSession` | three steps, two tool calls, two pages, one read, one piece of evidence, three bytes, all faults | the trace explains itself; a final run replays and verifies; the limits; what passed is grounded; an outcome stands; a session ends |
| `ResearchRuns` | two runs of one name, one of them given, to `report` and to `annotate_text`; two texts, three items, batches of one; one edit of each file; crashes and failing writes | own directories; the final manifest; what was captured was used; completed runs agree; generations are kept and counted once |
| `Walkforward` | seven sessions, two assets, one late bar, two listings and delistings, horizons and holdouts of one and two, embargo of none and one, both scopes and the reveal of every interval | features, snapshots, development, holdout and replay know and trade what they may |
| `PortfolioLimits` | two assets of one sector, one of them dry, thin, halted with volume or without, not to be borrowed or without a row; two paper events, one intent or one round trip; a failing write | a flat book is always reached; the exit buffer suffices; a rebalance is refused for lack of volume only, if the book was within its exposure limits; what is ineligible is only unwound; the simulator holds what the last line it saw written left, and every line goes on from the last one it had seen |
| `BrokerLookalike` | two orders with the same fields and one placed outside | **violated**: see below |
| `StudyClosed` | one study, no faults | **violated**: see below |
| `StudyUnsettled` | one study, no faults, weak fairness | **violated**: see below |
| `WindowsOverlap` | as `Walkforward` | **violated**: see below |

Every property of a passing run has a mutant of the code (an operator named
"Mutant of" in the modules) that violates it under the same bounds.

### Bounds

*Broker.* `MaxClock`, `MaxRegress`, `MaxReconciliations`, `MaxMarkers` and
`MaxReleases` cap counters and appear in guards. Two client ids are enough for a
second mutation to meet an undecided first one; in `BrokerOrders` `MaxClock`
reaches the match window, so that it closes inside the run, and the length of a
date, so that the date changes between a preflight and its call; two engagements
and a release let a stale confirmation meet a newer marker. Limits are chosen so
that one order always fits, and two fit one config only, in each of the daily,
position and open-order limits. The broker runs are split by what they let
happen: no markers where there are two orders, one order where there are two
processes.

*Studies.* Two processes are enough for every race, since a race is between two
mutations or two pipelines. With two sessions the one slot of the budget is
contended; two development runs let one fail and another start; two holdouts that
overlap without being equal are how a holdout is used twice. `MaxRuns` caps the
runs of a study. Symmetry is taken of processes, studies and sessions, which no
definition tells apart. The type invariant of the broker is proved and not run.

*Sessions.* Three steps and two calls reach each limit (calls, pages, reads,
bytes, steps) both within and beyond it. One piece of evidence can be shown twice,
for both purposes, and cited on either side.

*Runs of the pipeline.* Two runs of one base name meet at every directory and at
every cache record; the text file holds a text twice, so that deduplication and
batches matter; one edit of each file falls before, between and after the reads.
The longer target runs every stage but `paper`, which no other stage needs and
which is a stage like the others.

*Time.* Seven sessions leave room for training, an embargo, purged sessions, a
holdout and outcomes beyond it, for both horizons; a bar delivered exactly at the
next open, or at the next close, is where strict and weak comparisons differ.

*Books.* With participation, beta and net limits that bind at once, two assets are
enough for a hedge to be undone by the clipping; a volume of zero, a halt with
volume, a missing row and a missing borrow each change one asset.
`OnlyVolumeRefuses` is asked in every state from which the bound admits another
event, of every request and all rows with the volume for twice the position limit
(`Deep`): without that premise a book of two hedged assets, one of them thin, has
requests that are refused, for the participation limit holds back one side of the
hedge and the projection then moves the other.

### Where the code and its documentation differ

`BrokerLookalike` checks docs/broker.md:421, "The matcher starts from the durable
attempt and ends only after the configured interval". The code starts one second
before it (execution.py:1797, 1899, 1927), and nothing excludes a broker order
that is already the accepted outcome of another attempt, so an order of the same
fields that the broker received in the second before an attempt can be recorded
as that attempt's order.

`StudyClosed` checks docs/research_protocol.md:40-41, closed studies "are complete
outcomes and remain immutable". `record_proposal_verification` does not ask for
the state of the study, and a study may be closed once no attempt is outstanding,
so that one closed between the completion of an attempt and its verification
still gets the verdict.

`StudyUnsettled` checks docs/data_contracts.md:78-79, a reveal "terminates in
either `holdout_revealed` or `holdout_reveal_failed`". The completion and the
failure of a reveal each read the head once and do not wait for the lock; with
another command in the way of both, the reveal stays reserved, nothing settles it
later, and the study can be neither revealed nor closed.

`WindowsOverlap` checks docs/backtesting.md:36-37, "Multi-session horizons select
non-overlapping decision windows. There is no position carried from one window
into the next". The engine takes every horizon-th decision (engine.py:183), while
a round trip enters at the first open after the slowest bar of its session was
delivered. Where a bar is delivered at the next open or later, the round trip of
its session enters a session late and is still open when the next one enters.
`ReplayKeepsPhase`, in the run `Walkforward`, holds the sentence where every bar is
delivered before the next open.

### Fairness

Commands run because an operator starts them, and a crash may end them. The
broker module assumes no fairness: nothing in the code retries or resumes a
mutation by design, and that an undecided one is ever decided depends on an
operator who reads the evidence. Its properties are therefore safety properties;
the dead ends the code accepts (a torn ledger, a torn marker, an undecided
cancellation of an order that was filled) are states the model reaches.

`FairSpec` of `StudyExecution` assumes that a command that was started goes on
(weak fairness of the mutation and work steps of each process, which are
sequential code without waiting) and nothing of what is started; it is used by
`StudyUnsettled` only, in an instance without crashes.

`FairSpec` of `AgentSession` assumes weak fairness of the steps of the session and
not of a crash: the session is one sequential command, its loops are bounded, and
a call of the model returns or raises, for generation is bounded by its token
limit. `SessionEnds` is checked with every fault enabled. `ResearchRuns`,
`Walkforward` and `PortfolioBook` state safety only: a run waits for nobody, and
that it ends is a matter of its own code.

## Proofs

`BrokerExecutorProofs` proves, for any processes, ids, configs and limits that
satisfy the assumptions of `BrokerExecutor`:

| theorem | statement |
|---|---|
| `Invariance` | `Spec => []IInv` |
| `TypeCorrect` | `Spec => []TypeOK` |
| `OrdersOneAtATime` | `Spec => []OneOrderOutstanding` |
| `AtMostOneTransport` | `Spec => []SentOnceAfterAttempt` |
| `HaltedOrdersStay` | `Spec => KillSwitchBlocksOrders` |
| `UnreadableLedgerSendsNothing` | `Spec => TornLedgerBlocksMutations` |
| `EngagementIsExclusive` | `Spec => EngagementOverlapsNoMutation` |

`OneOrderOutstanding` is not inductive: a step of a submission that is under way
adds an attempt, and only what `SubmitBegin` read, several steps earlier, says
that nothing is undecided. `IInv` adds to the two properties and the types:
`LockHeld`, that whoever is in the middle of a command holds the lock, which
makes the reads of a command stay true until its next step; `OperationsSound`,
what a command knows of its mutation at each step (before the attempt: no attempt
or outcome of its id, no call, and for an order nothing undecided; from the
attempt on: its id is undecided, and before the call none was made) and that a
mutation runs only over a readable ledger, an order only while no marker exists;
and `LedgerSound`, that an id has one attempt. The ledger lemmas at
the head of the module say what one append does to the undecided ids, so that each
action of the step proof is a case on what it appends.

Its second half goes on from `IInv`:

| theorem | statement |
|---|---|
| `LedgerInvariance` | `Spec => []LInv` |
| `CancelsAimApart` | `Spec => []CancelsDoNotOverlap` |
| `ImplementsLifecycle` | `Spec => KeepsLifecycle` |

It first brings every step to one of six forms (`StepShape`): a process appends an
event that decides nothing (`Notes`), opens a mutation (`Opens`), records that its
outcome is unknown (`Doubts`), decides it on stated grounds (`Decides`), calls the
endpoint (`Sends`), or works on without any of these (`Quiet`), while all others
are idle; or the surroundings move. What each form leaves of the attempts, the
outcomes and the undecided ids is shown once (`NotesLeave` to `DecidesLeave`), and
every later invariant is a case on the forms. `LInv` adds to `IInv`: `DecidedOnce`,
that an id has one outcome, of its own kind and after its attempt, and is then not
undecided; `Aimed`, that a cancellation that has passed its check finds its target
free of undecided cancellations until its own attempt; and `ReleasesSound`, that a
release under way finds nothing undecided and the marker it was given. With
`DecidedOnce` the phase of an id is a function of what its attempts and outcomes
are, and each form is a step of `OrderLifecycle` or leaves its variables alone.

`BrokerVerdictProofs` relates what is recorded to what the broker did:

| theorem | hypotheses | statement |
|---|---|---|
| `RejectionsAreTrue` | `ClocksAgree` | `Spec => []RejectionIsTrue` |
| `VerdictInvariance` | `ClocksAgree`, `FieldsIdentify` | `Spec => []AInv` |
| `AcceptancesAreTrue` | `ClocksAgree`, `FieldsIdentify` | `Spec => []AcceptanceIsTrue` |
| `ReleasesAreSafe` | `ClocksAgree`, `FieldsIdentify` | `Spec => ReleaseIsSafe` |

Both hypotheses are about the world the adapter works in, not about its code, and
every passing run of the broker satisfies them. `ClocksAgree` says that the local
clock steps back, in all, by at most what `max_reconciliation_match_seconds` leaves
over beyond a preflight and one transport, and one tick more (the second that the
matcher opens its window early). It cannot be dropped: with `MaxRegress` 2 and
`MatchSeconds` 1, TLC finds an order that the broker dates after the end of the
window of its attempt, which then looks absent and is recorded as rejected; the
code has no comparison of the two clocks that would notice for a cancellation.
`FieldsIdentify` says that no other order of the account agrees with an order of the
adapter in every field that is compared; `BrokerLookalike` shows what happens
without it. That a request is no longer on its way once the window has passed
(`WindowPassed`) needs neither: it follows from `WindowAssumption`, for what a clock
that steps back adds to the life of a request it adds to the wait as well.

The argument goes through the times of a mutation. `Timely` bounds the call by the
date of its attempt, `RequestsSound` bounds what the broker makes of it by one flight
more, so that what was taken lies in the window (`TakenShows`) and nothing is in
flight after it. `EvidenceLedger` then says that a complete item of a recorded
reconciliation is about a mutation that is `Settled`: attempted, in no process's hands
and not on its way, which no later step changes (`SettledKept`). So a
rejection, which needs such an item and a fresh read without candidates, is true. For
acceptances `CancelSound` says that an undecided cancellation was taken or finds its
target free of any cancellation that is or may be processed; it needs both kinds of
verdict to be true and `CancelsDoNotOverlap`, which is why these are proved together.

`BrokerLimitsProofs` is about sums over orders:

| theorem | hypotheses | statement |
|---|---|---|
| `DailyLimitHolds` | `ClocksAgree` | `Spec => []DailyExposureWithinLimit` |
| `AccountLimitsHold` | `ClocksAgree`, `FieldsIdentify`, `IsFiniteSet(BrokerIds)` | `AccountSpec => OrdersFitTheAccount` |

The sum of the library is a recursive function on subsets, of which the module first
shows what a sum is for: any member may be taken first (`SumAny`), fewer or smaller
numbers have no greater sum (`SumGrows`, `SumLess`), two sums may be taken together
(`SumBoth`). Each is shown by a subset that is the smallest to break it (`Smallest`),
which takes the place of an induction.

The daily limit is checked twice, on the orders that the ledger counts as accepted, and
the property is about those the broker has or may get, which is more: an order whose
outcome is unknown is live and not accepted. `DailyLimitHolds` needs three things.
`Dated` says that an order and its acceptance count on the date of its attempt, also
when an operator resolves it on a later day. `BudgetsHold` says that an order that is
about to be sent is the last attempted one and that the sum its recheck compared is
still that of the ledger. And every other live order of that date is accepted: it is
not undecided, since one order is at most (`OneOrderOutstanding`), and not rejected,
since rejections are true; this is where the hypothesis on the clocks comes in.

`AccountLimitsHold` is about a read that is old when it is used: the orders are read,
then the positions, then the limits are checked, the attempt is written, and the order
is sent. `ReadsSound` says what of the read survives the fills, endings and orders of
others in between: of the orders that were read and of the adapter's own, no more is open
than was read and what is open adds no more than was read; and once the limits are
checked, all that these orders have added or may still add (`Weight`) stays within
them. An order may only become lighter (`KnownShrink`), because a fill moves quantity
from what is open to what is held and because nothing of the adapter is on its way
while a submission has not been sent (`NoneFlying`), which needs both verdicts to be
true. The positions are read after the orders, and an order that is filled between the
two reads is counted twice: the order of the two reads is what makes the sum safe.

`StudyExecutionProofs` proves, for any processes, studies, holdouts, sessions,
budget and bound on runs, and with or without each fault:

| theorem | statement |
|---|---|
| `Invariance` | `Spec => []IInv` |
| `TypeCorrect` | `Spec => []TypeOK` |
| `BudgetIsKept` | `Spec => []BudgetHolds` |
| `PipelinesAreBacked` | `Spec => []WorkIsBacked` |
| `HoldoutsAreUsedOnce` | `Spec => []HoldoutsUsedOnce` |

None of the last three is inductive. A pipeline stays backed only if nobody else
can end its run or its reveal, a use stays the only one only if what is about to
be appended is still acceptable, and both are matters of events checked some
steps earlier. `IInv` adds to them and to the types: `LockSound`, that a process
appends exactly while it holds the registry's lock and that what it appends would
still be accepted, so that what the transition saw is what the append finds;
`OwnersSound`, that whoever may end a run or a reveal started it, and is the only
one, across its except clause too; `UsesSound`, which ties the reveal of a study
to the use on record and to the count of reads; and `OperationsSound`, which
event a command carries at each step. `FoldsTo` says once what an event changes in
a study; every step but an append leaves the registry alone (`QuietStep`), so
that the work is in `AppendKeeps`. The theorems use that the overlap of holdouts is
reflexive and symmetric, as windows on one content are.

A second layer goes on from there:

| theorem | statement |
|---|---|
| `RestInvariance` | `Spec => []RestInv` |
| `StudiesRest` | `Spec => []StudiesRestOnEvidence` |
| `RecordsAreBacked` | `Spec => []RecordsFollowEvents` |
| `ImplementsLifecycle` | `Spec => FollowsLifecycle` |

The transition that approves a run asks that the attempt has a verdict, not which:
that it is a proposal that passed was looked at by the command, before it read the
head it appends on. `RestInv` therefore carries `CommandSound`: what a command is to
approve has passed, from that look on (a verdict, once given, stays), and what it is
to write to disk has its event in the registry. `Evidence` is then a case on the
event that is appended. The refinement maps the phase of a study, the uses and the
holdouts that were opened; a step of a command that appends nothing leaves them
alone, and each event is one step of `StudyLifecycle`.

`AgentSessionProofs` proves, for any evidence, any limits a config may have and any of the faults:

| theorem | statement |
|---|---|
| `Invariance` | `Spec => []IInv` |
| `TraceExplainsItself` | `Spec => []TraceIsComplete` |
| `OutcomeIsKept` | `Spec => OutcomeStands` |
| `PassedIsGrounded` | `Spec => []VerifiedIsGrounded` |
| `FinalRunsReplay` | `Spec => []FinalRunReplays` |
| `LimitsAreKept` | `Spec => []LimitsHold` |

The invariant is built in three layers, each inductive over the one before. `IInv`
adds to the completeness of the trace what each place of the session has stored
(`LoopSound`: the request at "generate", the response from there on, the tool file
and the result where a call is recorded) and that the attempt is open until the
step that completes it (`AttemptSound`), so that the except clause never reports a
second outcome. `VInv` adds that the results at hand are the stored ones up to the
verification and that `passed` is on disk only over a grounded proposal; the role
the verifier gives a record comes from the last step that showed it, which exists
because the natural numbers are well-founded. `FInv` adds exact counts: in the
loop, step `s` has `s - 1` rounds, results and tool files (`LoopExact`), after it
one round more and no call (`EndExact`), and then the files and registry writes of
the end in their order (`FilesExact`). An append or a write that fails leaves any
of these, but never at a place from which the session goes on: that is why no
retry may be added without a look at this invariant.

`LimitsHold` counts the rounds on disk, the code checks counters in memory. The two
meet in `LInv`: a counter is ahead of its rounds by the open call and no more
(`CountsSound`), and a call only opens where one step is left after it, because the
config requires fewer calls than steps. Each round that is appended adds one to the
cardinality of at most one set (`RoundCounts`).

`ResearchRunsProofs` proves, for any runs, names, targets, texts and faults:

| theorem | statement |
|---|---|
| `DirectoriesAreOwn` | `Spec => []OwnDirectories` |
| `InputsAreCaptured` | `Spec => []CapturedIsUsed` |
| `ManifestsAreWhole` | `Spec => []FinalManifestHolds` |
| `AnswersAgree` | `Spec => []CompleteRunsAgree` |
| `GenerationsCountOnce` | `Spec => []GenerationsAreKept` |

`OwnDirectories` becomes inductive with what a run has made so far: it owns a
prefix of the directories of its name (`DirectoriesSound`), so a directory is made
only where nobody has made one, and a run that holds all four is in nobody's way.
`CapturedIsUsed` rests on versions that only grow (`InputsSound`): between the load
of the model and the hash that follows, what was loaded is no older than what was
captured and no newer than what is there, so equal ends leave nothing between.

That a manifest is whole needs to know which stage is due, the value of a recursive
function. `Rank` puts the stages at most six dependencies deep, so that the function
is the last of seven that agree on one rank more each (`DueIsDefined`), and the
stage it gives is not done and has all it depends on done (`DueIs`). `MInv` then ties
the files of a run to its stages as long as it has not failed.

For the cache, `AInv` says what the annotator remembers at each of its places: each
item looked up has a record or its key waits to be generated or stored
(`Remembers`), what is remembered of the cache is what the cache has, a record that
is not whole is being written by one run at most, and no record is of a run that has
not come to store one (`CacheSound`). When a run fills a record, the record was not
whole, so nobody remembers one and all its items with that key still wait: the first
of them is told that it was generated and the others that they were not (`ToldIs`),
which is why a generation is counted once. The keys stay what they are because a run
that annotates has ingested its text and captured its model (`KeysStay`).

`WalkforwardProofs` proves, for any finite set of assets, calendar, delays, listings,
horizon, embargo, holdout and scope:

| theorem | statement |
|---|---|
| `Invariance` | `Spec => []IInv` |
| `FeaturesKnowThePast` | `Spec => []FeaturesAreKnown` |
| `PredictionsAreCausal` | `Spec => []SnapshotsAreCausal` |
| `DevelopmentKnowsNothingLater` | `Spec => []DevelopmentIsBlind` |
| `HoldoutStaysApart` | `Spec => []HoldoutIsApart` |
| `PhaseIsKept` | `Spec => []ReplayKeepsPhase` |

`MarketAssumption` asks of the constants only that assets are finitely many, that
cutoffs and delays are times, and that `Never`, which stands for a time that does not
come, lies after every time of the run.

`IInv` says what each stage hands to the next. `Timely`: every session that is read
has the time of its last bar as its decision, and these advance with the calendar, for
the code refuses sessions out of order. `Labelled`: the rows of a session are kept or
left out together. `SplitSound`: the holdout is the last observed sessions and starts
at the decision of the first. `SnapshotsSound`: the snapshot of a decision has learnt
exactly the rows known at its cutoff. This is what the code does not say: it adds rows
to the fit it has and never looks back, and the two agree only because a later decision
has no earlier cutoff (`CutoffsAdvance`). With it, `SnapshotsAreCausal` is a matter of
where a cutoff lies. `Judged` and `Traded` say that development is cut before the first
outcome the holdout could know and that both windows are sampled a horizon apart.

A reveal runs in a process of its own, after development in another scope, and what
relates the two sides is `Frozen`: what was learnt and traded was decided at times that
are the last bars of their sessions, and known before the reserved decisions. The
reveal recomputes decisions from its own rows; that both sides give a session the same
time (`DecisionIsOne`) is why nothing that development used can be later than a
reserved decision.

`ReplayKeepsPhase` is arithmetic: with the offset that the holdout replay is given, its
sampled places and those of development are the multiples of the horizon (`PhaseKept`),
and places a horizon apart are sessions at least a horizon apart (`PlacesApart`), so a
position is left no later than the next is entered where bars are there before the next
open. The division lemmas that this takes are proved in the module.

`PortfolioBookProofs` proves, for any finite set of assets and any betas, limits, market
rows, wishes, moves and faults:

| theorem | statement |
|---|---|
| `BookInvariance` | `Spec => []BInv` |
| `BooksArePersisted` | `Spec => []BookIsPersisted` |
| `BooksAreSound` | `Spec => []KInv` |
| `BooksAreTyped` | `Spec => []TypedBook` |
| `FlatBooksAreReached` | `Spec => []FlatBookIsReached` |
| `BuffersSuffice` | `Spec => []BufferSuffices` |
| `IneligibleIsOnlyUnwound` | `Spec => IneligibleOnlyUnwinds` |

`BInv` is the property of the ledger with what makes it inductive: `Lines`, that
the history has an entry for each line, `LedgerSound`, that each line goes on from the
last line seen before it, and `BookSound`, that the book at hand is that of the last
line seen. A write that is reported as failed and yet left its line moves the ledger and
not the book; the next event then goes on from the book of an earlier line, which
`LedgerSound` allows and a reader of the ledger has to know. A line more takes that what
was seen before each of the lines there stays as it was (`SeenStays`, `LineMore`) and
that a line is seen when it is written or never.

The last three are about what `Constrained` computes, and open the arithmetic.

- *Fractions.* `Fraction` divides by what a recursive function finds. That there is such
  a function (`GcdThere`) is shown by giving one: the number whose divisors are the
  common divisors of the two. That it divides both (`GcdDivides`) is shown on the
  smallest second number for which it would not, since the prover has no induction.
  After `FractionValue` nothing looks at lowest terms again: `Is(x, n, d)` says that `x`
  is `n` over `d`, and every law is stated over a common denominator and is then one of
  integers.
- *Totals.* `Total` is a fold of the community modules, which is defined by a choice.
  `IterSteps` shows that the function it chooses exists, and `TotalsRelate` that a
  relation which sums keep holds between two totals when it holds between their terms,
  both on a smallest set for which it would not. `TotalBounded` is the instance needed:
  totals of terms that are each bounded by a multiple are bounded by that multiple.
- *Weights.* Each scaling leaves a weight on its side and no larger (`Shrunk`,
  `Scaled`); the turnover and participation limits leave it between the current weight
  and the target (`Between`); the projection multiplies every weight by the least of the
  ratios (`ProjectScales`), which is what brings each exposure within its limit
  (`ScaledIsWithin`).

From these, `WeightBounded` gives `IneligibleIsOnlyUnwound`: an interval that holds
nothing, the current weight and the admitted one also holds the result. `FlatReached`
gives `FlatBooksAreReached`: from a flat book every later step is a scaling, and none
can undo what an earlier one achieved; from another book this fails, because the
projection moves weights that the participation limit had held back, and there the code
refuses. `ExitWithin` gives `BuffersSuffice`: the exit trades what each weight has
become, divided by the growth of the book and measured in the grown book, so growth
cancels; what remains is at most one and the buffer times the entry, and the entry was
held to the turnover divided by two and the buffer and to the participation divided by
one and the buffer. `KInv` is these two with the types of the book and with what
carries the entry to its exit, `EntryKept`.

The assumption on the constants, `BookAssumption`, is what the code checks: limits are
not negative (`PortfolioConstraints.__post_init__`), the buffer is not
(`config.py:114`), a volume of zero or less counts as none (`construction.py:165`), and
a move is above -1 because the prices it is made from are positive (`engine.py:213`,
`engine.py:280`).

### Only model-checked

Every invariant and action property that a run shows to hold is stated by a theorem.
The theorems about the broker and the studies hold for every instance of the run that checks the
property, and `OneOrderOutstanding` and `SentOnceAfterAttempt` of `BrokerAccount`
follow from those of `BrokerExecutor`, whose steps it only restricts.

Out of the prover's reach and left to TLC is liveness under fairness: `SessionEnds`,
and `RevealsTerminate`, which a run refutes. `OnlyVolumeRefuses` is not proved: it takes
that the whole way to the target is within the exposure limits when both its ends
are, for every exposure. No module here declares a recursive
operator.

## Not modelled

- Numeric code whose correctness is a matter of floating point: feature values,
  returns, model fitting, costs beyond a rate, metrics.
- Text generation, parsing and scoring; what a prompt or an answer says. An answer
  is any action, or any record that the schema and the verifier let pass.
- The preflight's comparisons of prices, ticks, quote age, buying power and loss,
  and sales: each compares values of one read with a constant, and a refusal is a
  `Stop`.
- The feature store's append and the write-once raw store: a run writes features
  under its own name, and two ingestions of the same bytes write the same file. A
  write-once file that was created and not wholly written is refused from then on,
  as the cache record in `ResearchRuns` is.
- Two writers of one paper ledger. `PaperEventLedger.append` takes no lock; every
  run and every simulator has a ledger of its own.
- The plan compiler, the catalog, the view bundle, the audit and the templates:
  functions of one document, or readers.
- Hashes, canonical JSON, permissions and symbolic links, formatting,
  configuration schemas and command lines.
