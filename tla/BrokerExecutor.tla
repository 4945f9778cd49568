--------------------------- MODULE BrokerExecutor ---------------------------
(***************************************************************************)
(* The live-order adapter (src/nlp_trader/broker/execution.py): submit,    *)
(* cancel, reconcile, resolve, engage and release, run by processes that   *)
(* take the operation lock, against one audit ledger, one kill-switch      *)
(* marker and the broker.                                                  *)
(*                                                                         *)
(* Every durable write and every call to the broker is a step of its own,  *)
(* so that the clock, the broker and a crash can come between them. What   *)
(* one process reads and checks under the lock between two such points is  *)
(* one step.                                                               *)
(***************************************************************************)
EXTENDS BrokerLedger, FiniteSetsExt

CONSTANTS
    Procs,              \* processes that run broker commands
    OrderIds,           \* client order ids; broker order ids of what they place
    CancelIds,          \* client action ids
    ForeignIds,         \* broker orders placed outside the adapter
    Configs,            \* broker configs, each one environment and one digest
    SubmitConfigs,      \* those with order_submission_enabled
    NoName,             \* no id, no config, no process
    Notional,           \* the notional of an order
    MaxDaily,           \* max_daily_order_notional_jpy of a config
    Exact,              \* broker orders with all the fields of an order
    Alike,              \* broker orders with its symbol, side and account
    MaxPreflight,       \* max_preflight_duration_seconds
    MatchSeconds,       \* max_reconciliation_match_seconds
    FutureSkew,         \* max_future_intent_skew_seconds
    MaxFlight,          \* a request reaches the broker in less than this
    DayLength,          \* clock ticks in a Japan date
    MaxClock,           \* bound: ticks
    MaxRegress,         \* bound: backward steps of the local clock
    MaxReconciliations, \* bound: broker_reconciliation events
    MaxMarkers,         \* bound: kill-switch engagements
    MaxReleases         \* bound: release authorizations

ClientIds == OrderIds \cup CancelIds
BrokerIds == OrderIds \cup ForeignIds

ASSUME NamesAssumption ==
    /\ OrderIds \cap CancelIds = {} /\ BrokerIds \cap CancelIds = {}
    /\ OrderIds \cap ForeignIds = {}
    /\ NoName \notin ClientIds \cup BrokerIds \cup Configs \cup Procs
    /\ SubmitConfigs \subseteq Configs

ASSUME LimitsAssumption ==
    /\ Notional \in [OrderIds -> Nat] /\ MaxDaily \in [Configs -> Nat]
    /\ Exact \in [OrderIds -> SUBSET BrokerIds]
    /\ Alike \in [OrderIds -> SUBSET BrokerIds]
    /\ \A c \in OrderIds : c \in Exact[c] /\ Exact[c] \subseteq Alike[c]
    /\ {MaxPreflight, MatchSeconds, FutureSkew, MaxClock,
        MaxRegress, MaxReconciliations, MaxMarkers, MaxReleases} \subseteq Nat
    /\ DayLength \in Nat \ {0} /\ MaxFlight \in Nat \ {0}

\* config.py requires the match window to cover the preflight and one transport.
ASSUME WindowAssumption == MatchSeconds >= MaxPreflight + MaxFlight

VARIABLES
    lock,       \* holder of operation.lock, or NoName
    op,         \* op[p]: the operation process p is in the middle of
    ledger,     \* events of audit.jsonl
    torn,       \* its last line is incomplete
    marker,     \* the KILL_SWITCH file
    markers,    \* engagements so far; the nonce of the next marker
    clock,      \* the clock of the adapter's machine
    regress,    \* backward steps the clock has taken
    request,    \* request[c]: the one mutation request of client id c
    transports, \* transports[c]: calls of the mutation endpoint for c
    book        \* book[b]: the broker's order b

vars == <<lock, op, ledger, torn, marker, markers, clock, regress, request,
          transports, book>>
brokerVars == <<request, book>>
stateVars == <<ledger, torn, marker, markers>>

-----------------------------------------------------------------------------
(* Values *)

Items == [id : ClientIds, valid : BOOLEAN, exact : SUBSET BrokerIds,
          candidates : SUBSET BrokerIds, complete : BOOLEAN, observed : Nat]

Events == [type : EventTypes, id : ClientIds \cup {NoName},
           cfg : Configs \cup {NoName}, ts : Nat, date : Nat, target : BrokerIds \cup {NoName},
           nonce : Nat, items : SUBSET Items]

Kinds == {"none", "submit", "cancel", "reconcile", "resolve", "engage", "release"}
Steps == {"idle", "preflight", "attempt", "recheck", "transport", "await",
          "record", "fresh", "write", "unlink"}
Verdicts == {"accepted", "rejected"}

\* started: when the operation began, by the monotonic clock; ready: the
\* timestamp of the attempt; items: what a reconciliation read.
Operations == [kind : Kinds, step : Steps, id : ClientIds \cup {NoName},
               cfg : Configs \cup {NoName}, started : Nat, ready : Nat,
               target : BrokerIds \cup {NoName}, nonce : Nat,
               verdict : Verdicts \cup {"none"}, items : SUBSET Items]

\* A request on its way to the broker, and an order in its book: when it was
\* received, and the times of its cancellation details, any and the processed.
Requests == [state : {"none", "sent", "taken", "refused"},
             target : BrokerIds \cup {NoName}, sent : Nat]
Orders == [state : {"none", "working", "cancelling", "done"}, recv : Nat,
           cancels : SUBSET Nat, cancelled : SUBSET Nat]

Idle == [kind |-> "none", step |-> "idle", id |-> NoName, cfg |-> NoName,
         started |-> 0, ready |-> 0, target |-> NoName, nonce |-> 0,
         verdict |-> "none", items |-> {}]

NoMarker == [state |-> "absent", nonce |-> 0]
NoRequest == [state |-> "none", target |-> NoName, sent |-> 0]
NoOrder == [state |-> "none", recv |-> 0, cancels |-> {}, cancelled |-> {}]

\* The broker's clock, and the adapter's monotonic one: it does not step back.
Now == clock + regress
Day(t) == t \div DayLength
Unresolved == {c \in ClientIds : IsUnresolved(ledger, c)}
\* Its first attempt, the only one.
AttemptOf(c) == CHOOSE i \in EventsOf(ledger, c, AttemptEvents) :
                    \A j \in EventsOf(ledger, c, AttemptEvents) : i <= j
AcceptedNotional(date) ==
    MapThenSumSet(LAMBDA c : Notional[c], AcceptedOn(ledger, date) \cap OrderIds)

TypeOK ==
    /\ lock \in Procs \cup {NoName}
    /\ op \in [Procs -> Operations]
    /\ ledger \in Seq(Events)
    /\ torn \in BOOLEAN
    /\ marker \in [state : {"absent", "torn", "valid"}, nonce : Nat]
    /\ markers \in Nat /\ clock \in Nat /\ regress \in Nat
    /\ request \in [ClientIds -> Requests]
    /\ transports \in [ClientIds -> Nat]
    /\ book \in [BrokerIds -> Orders]

Init ==
    /\ lock = NoName
    /\ op = [p \in Procs |-> Idle]
    /\ ledger = <<>> /\ torn = FALSE
    /\ marker = NoMarker /\ markers = 0
    /\ clock = 0 /\ regress = 0
    /\ request = [c \in ClientIds |-> NoRequest]
    /\ transports = [c \in ClientIds |-> 0]
    /\ book = [b \in BrokerIds |-> NoOrder]

-----------------------------------------------------------------------------
(* The lock, the operations and the ledger *)

\* Mutant of Begin: the operation lock is not exclusive.
BeginUnlocked(p, o) == op[p] = Idle /\ lock' = p /\ op' = [op EXCEPT ![p] = o]

\* _exclusive_operation: nonblocking, so a process that finds the lock held
\* fails and changes nothing.
Begin(p, o) == lock = NoName /\ lock' = p /\ op' = [op EXCEPT ![p] = o]
Continue(p, step) == UNCHANGED lock /\ op' = [op EXCEPT ![p].step = step]
End(p) == lock' = NoName /\ op' = [op EXCEPT ![p] = Idle]

At(p, kinds, step) == op[p].kind \in kinds /\ op[p].step = step

\* What process p writes of its operation o.
Event(type, o, ts) ==
    [type |-> type, id |-> o.id, cfg |-> o.cfg, ts |-> ts, date |-> Day(o.ready),
     target |-> o.target, nonce |-> o.nonce, items |-> o.items]

\* BrokerAuditLedger.append: it replays the file, in which an incomplete last
\* line is an error, refuses a timestamp that regresses, and flushes one line.
Record(type, o, ts) ==
    /\ ~torn /\ InOrder(ledger, ts)
    /\ ledger' = Append(ledger, Event(type, o, ts))

Attempted(kind) == IF kind = "cancel" THEN "broker_cancel_attempt" ELSE "broker_order_attempt"
Unknown(kind) == IF kind = "cancel" THEN "broker_cancel_unknown" ELSE "broker_order_unknown"
Outcome(c, verdict) ==
    CASE c \in CancelIds /\ verdict = "accepted" -> "broker_cancel_accepted"
      [] c \in CancelIds /\ verdict = "rejected" -> "broker_cancel_rejected"
      [] c \notin CancelIds /\ verdict = "accepted" -> "broker_order_accepted"
      [] OTHER -> "broker_order_rejected"

-----------------------------------------------------------------------------
(* submit_order. The quote, the intent's age and the account limits are     *)
(* data of the preflight; a step that they refuse is a Stop or, once the    *)
(* attempt is recorded, SubmitRecheckFails.                                 *)

\* Mutant of WithinDaily: only this config's accepted orders are counted.
WithinDailyOfConfig(c, cfg, date) ==
    LET own == {d \in AcceptedOn(ledger, date) \cap OrderIds : ledger[AttemptOf(d)].cfg = cfg}
    IN MapThenSumSet(LAMBDA d : Notional[d], own) + Notional[c] <= MaxDaily[cfg]

WithinDaily(c, cfg, date) == AcceptedNotional(date) + Notional[c] <= MaxDaily[cfg]
PreflightInTime(o) == Now - o.started <= MaxPreflight

\* Mutant of SubmitBegin: a client order id may be used again.
SubmitBeginAgain(p, c, cfg) ==
    /\ cfg \in SubmitConfigs
    /\ marker.state = "absent"
    /\ ~torn /\ Unresolved = {}
    /\ Begin(p, [Idle EXCEPT !.kind = "submit", !.step = "preflight", !.id = c,
                             !.cfg = cfg, !.started = Now])
    /\ UNCHANGED <<ledger, torn, marker, markers, clock, regress, transports, brokerVars>>

\* Mutant of SubmitBegin: only this config's unresolved mutations block.
SubmitBeginOwnConfig(p, c, cfg) ==
    /\ cfg \in SubmitConfigs
    /\ marker.state = "absent"
    /\ ~torn /\ ~Seen(ledger, c)
    /\ \A d \in Unresolved : ledger[AttemptOf(d)].cfg # cfg
    /\ Begin(p, [Idle EXCEPT !.kind = "submit", !.step = "preflight", !.id = c,
                             !.cfg = cfg, !.started = Now])
    /\ UNCHANGED <<ledger, torn, marker, markers, clock, regress, transports, brokerVars>>

SubmitBegin(p, c, cfg) ==
    /\ cfg \in SubmitConfigs
    /\ marker.state = "absent"
    /\ ~torn /\ ~Seen(ledger, c) /\ Unresolved = {}
    /\ Begin(p, [Idle EXCEPT !.kind = "submit", !.step = "preflight", !.id = c,
                             !.cfg = cfg, !.started = Now])
    /\ UNCHANGED <<ledger, torn, marker, markers, clock, regress, transports, brokerVars>>

SubmitPreflight(p) ==
    LET o == [op[p] EXCEPT !.step = "attempt", !.ready = clock] IN
    /\ At(p, {"submit"}, "preflight")
    /\ PreflightInTime(o)
    /\ WithinDaily(o.id, o.cfg, Day(clock))
    /\ Record("broker_order_preflight", o, clock)
    /\ op' = [op EXCEPT ![p] = o]
    /\ UNCHANGED <<lock, torn, marker, markers, clock, regress, transports, brokerVars>>

\* Mutant of SubmitAttempt: the attempt is not written ahead of the call.
SubmitAttemptLater(p) ==
    /\ At(p, {"submit"}, "attempt")
    /\ Continue(p, "recheck")
    /\ UNCHANGED <<ledger, torn, marker, markers, clock, regress, transports, brokerVars>>

SubmitAttempt(p) ==
    /\ At(p, {"submit"}, "attempt")
    /\ Record(Attempted("submit"), op[p], op[p].ready)
    /\ Continue(p, "recheck")
    /\ UNCHANGED <<torn, marker, markers, clock, regress, transports, brokerVars>>

SubmitRecheck(p) ==
    /\ At(p, {"submit"}, "recheck")
    /\ PreflightInTime(op[p])
    /\ Day(clock) = Day(op[p].ready)
    /\ WithinDaily(op[p].id, op[p].cfg, Day(op[p].ready))
    /\ marker.state = "absent"
    /\ Continue(p, "transport")
    /\ UNCHANGED <<ledger, torn, marker, markers, clock, regress, transports, brokerVars>>

SubmitRecheckFails(p) ==
    /\ At(p, {"submit"}, "recheck")
    /\ Record(Outcome(op[p].id, "rejected"), op[p], clock)
    /\ End(p)
    /\ UNCHANGED <<torn, marker, markers, clock, regress, transports, brokerVars>>

-----------------------------------------------------------------------------
(* cancel_order: available with the kill switch engaged, with submission    *)
(* disabled and with other mutations unresolved.                            *)

CancelUnresolvedFor(b) ==
    \E i \in DOMAIN ledger : /\ ledger[i].type = "broker_cancel_attempt"
                             /\ ledger[i].target = b
                             /\ IsUnresolved(ledger, ledger[i].id)

\* Mutant of CancelBegin: an undecided cancellation of the order does not block.
CancelBeginAnyway(p, c, b, cfg) ==
    /\ ~torn /\ ~Seen(ledger, c)
    /\ Begin(p, [Idle EXCEPT !.kind = "cancel", !.step = "preflight", !.id = c,
                             !.cfg = cfg, !.target = b])
    /\ UNCHANGED <<ledger, torn, marker, markers, clock, regress, transports, brokerVars>>

CancelBegin(p, c, b, cfg) ==
    /\ ~torn /\ ~Seen(ledger, c)
    /\ ~CancelUnresolvedFor(b)
    /\ Begin(p, [Idle EXCEPT !.kind = "cancel", !.step = "preflight", !.id = c,
                             !.cfg = cfg, !.target = b])
    /\ UNCHANGED <<ledger, torn, marker, markers, clock, regress, transports, brokerVars>>

CancelCandidate(p) ==
    /\ At(p, {"cancel"}, "preflight")
    /\ book[op[p].target].state = "working"
    /\ Continue(p, "attempt")
    /\ UNCHANGED <<ledger, torn, marker, markers, clock, regress, transports, brokerVars>>

CancelAttempt(p) ==
    /\ At(p, {"cancel"}, "attempt")
    /\ Record(Attempted("cancel"), op[p], clock)
    /\ Continue(p, "transport")
    /\ UNCHANGED <<torn, marker, markers, clock, regress, transports, brokerVars>>

-----------------------------------------------------------------------------
(* The one call of the mutation endpoint, and what it returns: an answer    *)
(* that the broker took the request, or an ambiguous failure at any time.   *)

Transport(p) ==
    LET c == op[p].id IN
    /\ At(p, {"submit", "cancel"}, "transport")
    /\ request' = [request EXCEPT ![c] =
                     [state |-> "sent", target |-> op[p].target, sent |-> Now]]
    /\ transports' = [transports EXCEPT ![c] = @ + 1]
    /\ Continue(p, "await")
    /\ UNCHANGED <<ledger, torn, marker, markers, clock, regress, book>>

MutationAccepted(p) ==
    LET o == IF op[p].kind = "submit" THEN [op[p] EXCEPT !.target = op[p].id] ELSE op[p] IN
    /\ At(p, {"submit", "cancel"}, "await")
    /\ request[o.id].state = "taken"
    /\ Record(Outcome(o.id, "accepted"), o, clock)
    /\ End(p)
    /\ UNCHANGED <<torn, marker, markers, clock, regress, transports, brokerVars>>

MutationUnknown(p) ==
    /\ At(p, {"submit", "cancel"}, "await")
    /\ Record(Unknown(op[p].kind), op[p], clock)
    /\ End(p)
    /\ UNCHANGED <<torn, marker, markers, clock, regress, transports, brokerVars>>

-----------------------------------------------------------------------------
(* reconcile: evidence for every unresolved id, from one read of the orders. *)
(* Time passes while the read is answered and the other account reads run.   *)
(* The evidence is recorded and resolves nothing.                            *)

AnchorOf(c) ==
    Max({ledger[i].ts : i \in {AttemptOf(c)} \cup EventsOf(ledger, c, UnknownEvents)})
WindowEnd(c) == AnchorOf(c) + MatchSeconds
\* Mutant of InWindow: an order received in the second of its attempt is missed.
InWindowAfter(c, t) == ledger[AttemptOf(c)].ts < t /\ t <= WindowEnd(c)

InWindow(c, t) == ledger[AttemptOf(c)].ts <= t + 1 /\ t <= WindowEnd(c)

OrdersInWindow(c, orders) == {b \in orders : book[b].state # "none" /\ InWindow(c, book[b].recv)}

\* A cancellation is possible unless its target is still an ordinary working
\* order, and certain when the target is done with a processed cancel detail.
CancelCandidates(c, b) ==
    {x \in {b} : book[b].state # "working" \/ \E t \in book[b].cancels : InWindow(c, t)}
\* Mutant of CancelMatches: any finished order counts as cancelled.
CancelMatchesDone(c, b) == {x \in {b} : book[b].state = "done"}

CancelMatches(c, b) ==
    {x \in {b} : book[b].state = "done" /\ \E t \in book[b].cancelled : InWindow(c, t)}

\* What one read of the orders shows of c. An unreadable or invalid read and a
\* mutation of another config give no evidence.
Evidence(c, cfg, readable) ==
    LET valid == readable /\ ledger[AttemptOf(c)].cfg = cfg
        target == ledger[AttemptOf(c)].target
        exact == IF c \in CancelIds THEN CancelMatches(c, target) ELSE OrdersInWindow(c, Exact[c])
        candidates == IF c \in CancelIds THEN CancelCandidates(c, target)
                      ELSE OrdersInWindow(c, Alike[c])
    IN [id |-> c, valid |-> valid, observed |-> clock, complete |-> FALSE,
        exact |-> IF valid THEN exact ELSE {},
        candidates |-> IF valid THEN candidates ELSE {}]

\* The observation is dated when the read has returned, not when it was served.
Observed(item) ==
    [item EXCEPT !.observed = clock, !.complete = item.valid /\ clock >= WindowEnd(item.id)]

EventsOfType(type) == {i \in DOMAIN ledger : ledger[i].type = type}
Reconciliations == EventsOfType("broker_reconciliation")

ReconcileRead(p, cfg, readable) ==
    /\ Cardinality(Reconciliations) < MaxReconciliations
    /\ ~torn
    /\ Begin(p, [Idle EXCEPT !.kind = "reconcile", !.step = "record", !.cfg = cfg,
                             !.items = {Evidence(c, cfg, readable) : c \in Unresolved}])
    /\ UNCHANGED <<ledger, torn, marker, markers, clock, regress, transports, brokerVars>>

ReconcileRecord(p) ==
    /\ At(p, {"reconcile"}, "record")
    /\ Record("broker_reconciliation",
              [op[p] EXCEPT !.items = {Observed(item) : item \in op[p].items}], clock)
    /\ End(p)
    /\ UNCHANGED <<torn, marker, markers, clock, regress, transports, brokerVars>>

-----------------------------------------------------------------------------
(* resolve_unknown: the newest reconciliation after the last event of the    *)
(* mutation that mentions it, then a fresh read of the orders.               *)

Supports(item, verdict, b) ==
    /\ item.valid
    /\ verdict = "accepted" => item.exact = {b} /\ item.candidates = {b}
    /\ verdict = "rejected" => item.exact = {} /\ item.candidates = {} /\ item.complete

Fresh(item) == item.observed <= clock + FutureSkew /\ clock - item.observed <= MatchSeconds

LastMutationEvent(c) == Max(EventsOf(ledger, c, UnresolvedEvents))
ReconciliationsOf(c) ==
    {i \in Reconciliations : /\ i > LastMutationEvent(c)
                             /\ ledger[i].cfg = ledger[AttemptOf(c)].cfg
                             /\ \E item \in ledger[i].items : item.id = c}

ResolveBegin(p, c, verdict, b) ==
    /\ ~torn /\ c \in Unresolved
    /\ ReconciliationsOf(c) # {}
    /\ \E item \in ledger[Max(ReconciliationsOf(c))].items :
          item.id = c /\ Supports(item, verdict, b) /\ Fresh(item)
    /\ verdict = "rejected" => marker.state = "valid"
    /\ Begin(p, [Idle EXCEPT !.kind = "resolve", !.step = "fresh", !.id = c,
                             !.cfg = ledger[AttemptOf(c)].cfg, !.verdict = verdict,
                             !.target = IF verdict = "accepted" THEN b ELSE NoName,
                             !.ready = ledger[AttemptOf(c)].ts])
    /\ UNCHANGED <<ledger, torn, marker, markers, clock, regress, transports, brokerVars>>

ResolveFreshRead(p) ==
    /\ At(p, {"resolve"}, "fresh")
    /\ op' = [op EXCEPT ![p].step = "record",
                        ![p].items = {Evidence(op[p].id, op[p].cfg, TRUE)}]
    /\ UNCHANGED <<lock, ledger, torn, marker, markers, clock, regress, transports, brokerVars>>

ResolveRecord(p) ==
    /\ At(p, {"resolve"}, "record")
    /\ \A item \in op[p].items : Supports(Observed(item), op[p].verdict, op[p].target)
    /\ Record(Outcome(op[p].id, op[p].verdict), [op[p] EXCEPT !.items = {}], clock)
    /\ End(p)
    /\ UNCHANGED <<torn, marker, markers, clock, regress, transports, brokerVars>>

-----------------------------------------------------------------------------
(* The kill switch: the marker is created, then written, then audited; a     *)
(* release is audited, then the marker is unlinked. Engaging reads neither   *)
(* the ledger nor the broker before it creates the file. The marker and its  *)
(* events concern every config: which one was given is left out.             *)

\* Mutant of EngageCreate: engaging does not wait for the operation lock.
EngageCreateUnlocked(p) ==
    /\ markers < MaxMarkers
    /\ marker.state = "absent"
    /\ marker' = [state |-> "torn", nonce |-> markers + 1]
    /\ markers' = markers + 1
    /\ op[p] = Idle /\ UNCHANGED lock
    /\ op' = [op EXCEPT ![p] = [Idle EXCEPT !.kind = "engage", !.step = "write",
                             !.ready = clock, !.nonce = markers + 1]]
    /\ UNCHANGED <<ledger, torn, clock, regress, transports, brokerVars>>

EngageCreate(p) ==
    /\ markers < MaxMarkers
    /\ marker.state = "absent"
    /\ marker' = [state |-> "torn", nonce |-> markers + 1]
    /\ markers' = markers + 1
    /\ Begin(p, [Idle EXCEPT !.kind = "engage", !.step = "write",
                             !.ready = clock, !.nonce = markers + 1])
    /\ UNCHANGED <<ledger, torn, clock, regress, transports, brokerVars>>

EngageWrite(p) ==
    /\ At(p, {"engage"}, "write")
    /\ marker' = [marker EXCEPT !.state = "valid"]
    /\ Continue(p, "record")
    /\ UNCHANGED <<ledger, torn, markers, clock, regress, transports, brokerVars>>

EngageRecord(p) ==
    /\ At(p, {"engage"}, "record")
    /\ Record("broker_kill_switch_engaged", op[p], op[p].ready)
    /\ End(p)
    /\ UNCHANGED <<torn, marker, markers, clock, regress, transports, brokerVars>>

\* Mutant of ReleaseBegin: undecided mutations do not block a release.
ReleaseBeginAnyway(p, nonce) ==
    /\ Cardinality(EventsOfType("broker_kill_switch_release_authorized")) < MaxReleases
    /\ marker.state = "valid" /\ marker.nonce = nonce
    /\ ~torn
    /\ Begin(p, [Idle EXCEPT !.kind = "release", !.step = "record", !.nonce = nonce])
    /\ UNCHANGED <<ledger, torn, marker, markers, clock, regress, transports, brokerVars>>

\* The confirmation names the digest, and so the nonce, of the reviewed marker.
ReleaseBegin(p, nonce) ==
    /\ Cardinality(EventsOfType("broker_kill_switch_release_authorized")) < MaxReleases
    /\ marker.state = "valid" /\ marker.nonce = nonce
    /\ ~torn /\ Unresolved = {}
    /\ Begin(p, [Idle EXCEPT !.kind = "release", !.step = "record", !.nonce = nonce])
    /\ UNCHANGED <<ledger, torn, marker, markers, clock, regress, transports, brokerVars>>

ReleaseRecord(p) ==
    /\ At(p, {"release"}, "record")
    /\ Record("broker_kill_switch_release_authorized", op[p], clock)
    /\ Continue(p, "unlink")
    /\ UNCHANGED <<torn, marker, markers, clock, regress, transports, brokerVars>>

ReleaseUnlink(p) ==
    /\ At(p, {"release"}, "unlink")
    /\ marker' = NoMarker
    /\ End(p)
    /\ UNCHANGED <<ledger, torn, markers, clock, regress, transports, brokerVars>>

-----------------------------------------------------------------------------
(* Failures: an operation may stop at any of its steps, because a check or a *)
(* call fails or the process dies; the system frees the lock. A failure in   *)
(* the middle of an append leaves an incomplete last line.                   *)

Stop(p) ==
    /\ op[p] # Idle
    /\ End(p)
    /\ UNCHANGED <<stateVars, clock, regress, transports, brokerVars>>

Appending(o) ==
    \/ o.kind = "submit" /\ o.step \in {"preflight", "attempt", "recheck", "await"}
    \/ o.kind = "cancel" /\ o.step \in {"attempt", "await"}
    \/ o.step = "record"

\* Mutant of StopInAppend: the failure of an append is ignored.
StopInAppendIgnored(p) ==
    /\ ~torn /\ Appending(op[p])
    /\ torn' = TRUE
    /\ op' = [op EXCEPT ![p].step = IF @ = "attempt" THEN "recheck" ELSE @]
    /\ UNCHANGED <<lock, ledger, marker, markers, clock, regress, transports, brokerVars>>

StopInAppend(p) ==
    /\ ~torn /\ Appending(op[p])
    /\ torn' = TRUE
    /\ End(p)
    /\ UNCHANGED <<ledger, marker, markers, clock, regress, transports, brokerVars>>

-----------------------------------------------------------------------------
(* The clocks and the broker. A request is in flight for less than MaxFlight *)
(* and no time passes between the last check of a submission and its call,   *)
(* nor between the attempt of a cancellation and its call. The second is     *)
(* assumed too: cancel_order does not look at the clock there.               *)

Tick ==
    /\ Now < MaxClock
    /\ \A c \in ClientIds : request[c].state = "sent" => Now + 1 < request[c].sent + MaxFlight
    /\ \A p \in Procs : op[p].step # "transport"
    /\ clock' = clock + 1
    /\ UNCHANGED <<lock, op, stateVars, regress, transports, brokerVars>>

Regress ==
    /\ regress < MaxRegress /\ clock > 0
    /\ clock' = clock - 1 /\ regress' = regress + 1
    /\ UNCHANGED <<lock, op, stateVars, transports, brokerVars>>

Answer(c, state) == request' = [request EXCEPT ![c].state = state]

BrokerTakesOrder(c) ==
    /\ request[c].state = "sent" /\ Answer(c, "taken")
    /\ book' = [book EXCEPT ![c].state = "working", ![c].recv = Now]
    /\ UNCHANGED <<lock, op, stateVars, clock, regress, transports>>

BrokerTakesCancel(c) ==
    LET b == request[c].target IN
    /\ request[c].state = "sent" /\ Answer(c, "taken")
    /\ book[b].state = "working"
    /\ book' = [book EXCEPT ![b].state = "cancelling", ![b].cancels = @ \cup {Now}]
    /\ UNCHANGED <<lock, op, stateVars, clock, regress, transports>>

\* Refused by the broker or lost on the way.
BrokerRefuses(c) ==
    /\ request[c].state = "sent" /\ Answer(c, "refused")
    /\ UNCHANGED <<lock, op, stateVars, clock, regress, transports, book>>

BrokerCancels(b) ==
    /\ book[b].state = "cancelling"
    /\ \E t \in book[b].cancels :
          book' = [book EXCEPT ![b].state = "done", ![b].cancelled = {t}]
    /\ UNCHANGED <<lock, op, stateVars, clock, regress, transports, request>>

BrokerKeeps(b) ==
    /\ book[b].state = "cancelling"
    /\ book' = [book EXCEPT ![b].state = "working"]
    /\ UNCHANGED <<lock, op, stateVars, clock, regress, transports, request>>

BrokerFills(b) ==
    /\ book[b].state \in {"working", "cancelling"}
    /\ book' = [book EXCEPT ![b].state = "done"]
    /\ UNCHANGED <<lock, op, stateVars, clock, regress, transports, request>>

ForeignOrder(b) ==
    /\ book[b].state = "none"
    /\ book' = [book EXCEPT ![b].state = "working", ![b].recv = Now]
    /\ UNCHANGED <<lock, op, stateVars, clock, regress, transports, request>>

-----------------------------------------------------------------------------
SubmitSteps(p) ==
    \/ \E c \in OrderIds, cfg \in Configs : SubmitBegin(p, c, cfg)
    \/ SubmitPreflight(p) \/ SubmitAttempt(p) \/ SubmitRecheck(p) \/ SubmitRecheckFails(p)

CancelSteps(p) ==
    \/ \E c \in CancelIds, b \in BrokerIds, cfg \in Configs : CancelBegin(p, c, b, cfg)
    \/ CancelCandidate(p) \/ CancelAttempt(p)

MutationSteps(p) == Transport(p) \/ MutationAccepted(p) \/ MutationUnknown(p)

RecoverySteps(p) ==
    \/ \E cfg \in Configs, readable \in BOOLEAN : ReconcileRead(p, cfg, readable)
    \/ ReconcileRecord(p)
    \/ \E c \in ClientIds, verdict \in Verdicts, b \in BrokerIds : ResolveBegin(p, c, verdict, b)
    \/ ResolveFreshRead(p) \/ ResolveRecord(p)

KillSwitchSteps(p) ==
    \/ EngageCreate(p)
    \/ EngageWrite(p) \/ EngageRecord(p)
    \/ \E nonce \in 1..markers : ReleaseBegin(p, nonce)
    \/ ReleaseRecord(p) \/ ReleaseUnlink(p)

Failures(p) == Stop(p) \/ StopInAppend(p)

BrokerSteps ==
    \/ \E c \in OrderIds : BrokerTakesOrder(c)
    \/ \E c \in CancelIds : BrokerTakesCancel(c)
    \/ \E c \in ClientIds : BrokerRefuses(c)
    \/ \E b \in BrokerIds : BrokerCancels(b) \/ BrokerKeeps(b) \/ BrokerFills(b)
    \/ \E b \in ForeignIds : ForeignOrder(b)

Next ==
    \/ \E p \in Procs : \/ SubmitSteps(p) \/ CancelSteps(p) \/ MutationSteps(p)
                        \/ RecoverySteps(p) \/ KillSwitchSteps(p) \/ Failures(p)
    \/ Tick \/ Regress \/ BrokerSteps

Spec == Init /\ [][Next]_vars

-----------------------------------------------------------------------------
(* Properties *)

HasOutcome(c, verdict) == EventsOf(ledger, c, {Outcome(c, verdict)}) # {}

\* The request may still take, or has taken, effect at the broker.
Live(c) == request[c].state \in {"sent", "taken"}

\* At most one order of the adapter has an undecided outcome: an order is
\* refused while anything is unresolved, whatever process, config or crash left it.
OneOrderOutstanding ==
    \A c, d \in Unresolved \cap OrderIds : c = d

\* Two undecided cancellations never aim at one broker order, although a
\* cancellation may run while other mutations are unresolved.
CancelsDoNotOverlap ==
    \A i, j \in DOMAIN ledger :
        /\ ledger[i].type = "broker_cancel_attempt" /\ ledger[j].type = "broker_cancel_attempt"
        /\ {ledger[i].id, ledger[j].id} \subseteq Unresolved
        /\ ledger[i].target = ledger[j].target
        => ledger[i].id = ledger[j].id

\* No mutation is ever retried, across errors, crashes and later commands, and
\* none leaves before the ledger holds its attempt.
SentOnceAfterAttempt ==
    \A c \in ClientIds :
        /\ transports[c] <= 1
        /\ transports[c] = 1 => EventsOf(ledger, c, AttemptEvents) # {}

\* What the broker has or may still get of a day's orders, up to and including
\* an order, is within the daily limit of the config that order was sent with.
DailyExposureWithinLimit ==
    \A i \in DOMAIN ledger :
        ledger[i].type = "broker_order_attempt" /\ Live(ledger[i].id) =>
            MapThenSumSet(LAMBDA c : Notional[c],
                {ledger[j].id : j \in {k \in 1..i : /\ ledger[k].type = "broker_order_attempt"
                                                    /\ ledger[k].date = ledger[i].date
                                                    /\ Live(ledger[k].id)}})
            <= MaxDaily[ledger[i].cfg]

\* A mutation recorded as rejected, by the final recheck or by the operator from
\* reconciled evidence, neither has nor will have an effect at the broker.
RejectionIsTrue ==
    \A c \in ClientIds : HasOutcome(c, "rejected") => ~Live(c)

\* A mutation recorded as accepted, by the answer or from evidence, was taken.
AcceptanceIsTrue ==
    \A c \in ClientIds : HasOutcome(c, "accepted") => request[c].state = "taken"

\* While the marker file exists, whole or torn, no new order is sent.
KillSwitchBlocksOrders ==
    [][marker.state # "absent" => \A c \in OrderIds : transports'[c] = transports[c]]_vars

\* The marker goes away only by an audited release of that very marker, at a
\* moment when no mutation is undecided or in flight.
ReleaseIsSafe ==
    [][marker.state # "absent" /\ marker'.state = "absent" =>
          /\ Unresolved = {}
          /\ \A c \in ClientIds : request[c].state # "sent"
          /\ \E i \in DOMAIN ledger :
                /\ ledger[i].type = "broker_kill_switch_release_authorized"
                /\ ledger[i].nonce = marker.nonce]_vars

\* No mutation was in progress when the kill switch was engaged.
EngagementOverlapsNoMutation ==
    [][marker.state = "absent" /\ marker'.state # "absent" =>
          \A p \in Procs : op[p].kind \notin {"submit", "cancel"}]_vars

\* An unreadable ledger stops every mutation: nothing is sent that the ledger
\* cannot account for.
TornLedgerBlocksMutations ==
    [][torn => transports' = transports]_vars

\* docs/broker.md:421 says that the matcher starts from the durable attempt: an
\* order accepted for a mutation was not received before its attempt.
MatchStartsAtAttempt ==
    \A i \in EventsOfType("broker_order_accepted") :
        ledger[AttemptOf(ledger[i].id)].ts <= book[ledger[i].target].recv

-----------------------------------------------------------------------------
(* The executor implements OrderLifecycle: a mutation is open while the      *)
(* ledger leaves it unresolved, and trading is halted while the marker       *)
(* exists.                                                                   *)

Phase(c) ==
    IF ~Seen(ledger, c) THEN "new"
    ELSE IF IsUnresolved(ledger, c) THEN "open"
    ELSE IF HasOutcome(c, "accepted") THEN "accepted"
    ELSE IF HasOutcome(c, "rejected") THEN "rejected" ELSE "new"

Lifecycle == INSTANCE OrderLifecycle WITH
    phase <- [c \in ClientIds |-> Phase(c)],
    sent <- {c \in ClientIds : transports[c] > 0},
    halted <- marker.state # "absent"

\* Whatever is interleaved or interrupted, the executor only ever opens, sends,
\* decides, halts and resumes as the lifecycle allows: in particular, a decided
\* mutation is never sent, undecided or decided otherwise again.
KeepsLifecycle == Lifecycle!Spec
=============================================================================
