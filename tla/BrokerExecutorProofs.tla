------------------------ MODULE BrokerExecutorProofs ------------------------
(***************************************************************************)
(* Proofs about BrokerExecutor, for any processes, ids, configs and limits:*)
(* what its ledger, its operations and its marker keep, and that it        *)
(* implements OrderLifecycle.                                              *)
(***************************************************************************)
EXTENDS BrokerExecutor, TLAPS

-----------------------------------------------------------------------------
(* What appending one event does to the answers BrokerLedger gives *)

\* The events of the ledger stay where they are and the new one comes last.
LEMMA AppendKeeps ==
    ASSUME NEW S, NEW l \in Seq(S), NEW e \in S
    PROVE  /\ DOMAIN Append(l, e) = DOMAIN l \cup {Len(l) + 1}
           /\ \A i \in DOMAIN l : i \in Nat /\ i < Len(l) + 1 /\ Append(l, e)[i] = l[i]
           /\ Append(l, e)[Len(l) + 1] = e
           /\ Len(l) + 1 \notin DOMAIN l
  OBVIOUS

\* An event of another id, or of another type, is none of an id's events.
LEMMA EventsOfAppend ==
    ASSUME NEW S, NEW l \in Seq(S), NEW e \in S, NEW c, NEW types
    PROVE  EventsOf(Append(l, e), c, types) =
              EventsOf(l, c, types) \cup
              {i \in {Len(l) + 1} : e.id = c /\ e.type \in types}
  BY AppendKeeps DEF EventsOf

\* An event that is neither an attempt, an unknown nor an outcome of c leaves it
\* as decided or undecided as it was.
LEMMA UnresolvedKept ==
    ASSUME NEW S, NEW l \in Seq(S), NEW e \in S, NEW c,
           e.id # c \/ e.type \notin UnresolvedEvents \cup ResolvedEvents
    PROVE  IsUnresolved(Append(l, e), c) <=> IsUnresolved(l, c)
  BY EventsOfAppend DEF IsUnresolved

\* An attempt or an unknown makes c undecided.
LEMMA UnresolvedMade ==
    ASSUME NEW S, NEW l \in Seq(S), NEW e \in S, e.type \in UnresolvedEvents
    PROVE  IsUnresolved(Append(l, e), e.id)
<1>1. e.type \notin ResolvedEvents
  BY DEF UnresolvedEvents, ResolvedEvents
<1>2. Len(l) + 1 \in EventsOf(Append(l, e), e.id, UnresolvedEvents)
  BY EventsOfAppend
<1>3. \A j \in EventsOf(Append(l, e), e.id, ResolvedEvents) : j < Len(l) + 1
  BY <1>1, EventsOfAppend, AppendKeeps DEF EventsOf
<1>. QED
  BY <1>2, <1>3 DEF IsUnresolved

\* An outcome decides its id.
LEMMA UnresolvedEnded ==
    ASSUME NEW S, NEW l \in Seq(S), NEW e \in S, e.type \in ResolvedEvents
    PROVE  ~IsUnresolved(Append(l, e), e.id)
<1>1. e.type \notin UnresolvedEvents
  BY DEF UnresolvedEvents, ResolvedEvents
<1>2. Len(l) + 1 \in EventsOf(Append(l, e), e.id, ResolvedEvents)
  BY EventsOfAppend
<1>3. \A i \in EventsOf(Append(l, e), e.id, UnresolvedEvents) : i \in Nat /\ i < Len(l) + 1
  BY <1>1, EventsOfAppend, AppendKeeps DEF EventsOf
<1>. QED
  BY <1>2, <1>3 DEF IsUnresolved

\* An id without events has nothing undecided.
LEMMA UnseenIsResolved ==
    ASSUME NEW l, NEW c, ~Seen(l, c)
    PROVE  /\ ~IsUnresolved(l, c)
           /\ \A types : EventsOf(l, c, types) = {}
  BY DEF Seen, EventsOf, IsUnresolved

-----------------------------------------------------------------------------
(* The inductive invariant *)

\* Whoever is in the middle of an operation holds the operation lock.
LockHeld == \A p \in Procs : op[p] # Idle => lock = p

\* What an operation knows of its mutation at each of its steps. An id that is
\* not yet attempted has neither attempt nor outcome, and for an order nothing
\* at all is undecided; from the attempt on the id itself is undecided. No
\* mutation runs behind an unreadable ledger and no order once the marker exists.
Starting(o) ==
    /\ EventsOf(ledger, o.id, UnresolvedEvents \cup ResolvedEvents) = {}
    /\ transports[o.id] = 0
    /\ o.kind = "submit" => \A c \in ClientIds : ~IsUnresolved(ledger, c)
Underway(o) ==
    /\ IsUnresolved(ledger, o.id)
    /\ o.step \in {"recheck", "transport"} => transports[o.id] = 0

OperationSound(o) ==
    /\ o.kind = "submit" => o.id \in OrderIds /\ marker.state = "absent"
    /\ o.kind = "cancel" => o.id \in CancelIds /\ o.target \in BrokerIds
    /\ o.kind = "resolve" => o.id \in Unresolved /\ o.verdict \in Verdicts
    /\ o.kind \in {"submit", "cancel"} =>
          /\ ~torn
          /\ \/ o.step \in {"preflight", "attempt"} /\ Starting(o)
             \/ o.step \in {"recheck", "transport", "await"} /\ Underway(o)

OperationsSound == \A p \in Procs : OperationSound(op[p])

\* An id has one attempt, of its own kind, and no unknown outcome without it.
LedgerSound ==
    /\ \A i \in DOMAIN ledger :
          /\ ledger[i].type = "broker_order_attempt" => ledger[i].id \in OrderIds
          /\ ledger[i].type = "broker_cancel_attempt" =>
                ledger[i].id \in CancelIds /\ ledger[i].target \in BrokerIds
          /\ ledger[i].type \in UnresolvedEvents =>
                EventsOf(ledger, ledger[i].id, AttemptEvents) # {}
    /\ \A c \in ClientIds : \A i, j \in EventsOf(ledger, c, AttemptEvents) : i = j

IInv ==
    /\ TypeOK /\ LockHeld /\ OperationsSound /\ LedgerSound
    /\ OneOrderOutstanding /\ SentOnceAfterAttempt

-----------------------------------------------------------------------------
(* Types *)

LEMMA IdleTyped == Idle \in Operations
  BY DEF Idle, Operations, Kinds, Steps

LEMMA MarkerOperationTyped ==
    ASSUME NEW kind \in Kinds, NEW step \in Steps, NEW ready \in Nat, NEW nonce \in Nat
    PROVE  /\ [Idle EXCEPT !.kind = kind, !.step = step, !.nonce = nonce] \in Operations
           /\ [Idle EXCEPT !.kind = kind, !.step = step, !.ready = ready, !.nonce = nonce]
                 \in Operations
  BY DEF Idle, Operations, Kinds, Steps

LEMMA OrderStateTyped ==
    ASSUME NEW orders \in [BrokerIds -> Orders], NEW b,
           NEW state \in {"none", "working", "cancelling", "done"}
    PROVE  [orders EXCEPT ![b].state = state] \in [BrokerIds -> Orders]
  BY DEF Orders

LEMMA OrderTyped ==
    ASSUME NEW orders \in [BrokerIds -> Orders], NEW b, NEW t \in Nat,
           NEW state \in {"none", "working", "cancelling", "done"}
    PROVE  /\ [orders EXCEPT ![b].state = state, ![b].cancels = @ \cup {t}]
                 \in [BrokerIds -> Orders]
           /\ [orders EXCEPT ![b].state = state, ![b].cancelled = {t}]
                 \in [BrokerIds -> Orders]
  BY DEF Orders

LEMMA EventTyped ==
    ASSUME NEW type \in EventTypes, NEW o \in Operations, NEW ts \in Nat
    PROVE  Event(type, o, ts) \in Events
<1>1. Day(o.ready) \in Nat
  BY LimitsAssumption DEF Operations, Day
<1>. QED
  BY <1>1 DEF Event, Events, Operations

LEMMA RecordTyped ==
    ASSUME TypeOK, NEW type \in EventTypes, NEW o \in Operations, NEW ts \in Nat,
           Record(type, o, ts)
    PROVE  ledger' \in Seq(Events)
  BY EventTyped DEF TypeOK, Record

LEMMA OutcomeTyped ==
    ASSUME NEW c, NEW verdict
    PROVE  Outcome(c, verdict) \in ResolvedEvents
  BY DEF Outcome, ResolvedEvents

LEMMA TypesListed ==
    /\ AttemptEvents \subseteq UnresolvedEvents /\ UnknownEvents \subseteq UnresolvedEvents
    /\ UnresolvedEvents \subseteq EventTypes /\ ResolvedEvents \subseteq EventTypes
    /\ OtherEvents \subseteq EventTypes
    /\ UnresolvedEvents \cap ResolvedEvents = {}
    /\ OtherEvents \cap (UnresolvedEvents \cup ResolvedEvents) = {}
    /\ \A kind : Attempted(kind) \in AttemptEvents /\ Unknown(kind) \in UnknownEvents
  BY DEF AttemptEvents, UnresolvedEvents, UnknownEvents, ResolvedEvents, OtherEvents,
         EventTypes, Attempted, Unknown

\* The attempt of an undecided mutation is in the ledger.
LEMMA AttemptFound ==
    ASSUME TypeOK, LedgerSound, NEW c \in Unresolved
    PROVE  /\ AttemptOf(c) \in EventsOf(ledger, c, AttemptEvents)
           /\ ledger[AttemptOf(c)] \in Events
           /\ ledger[AttemptOf(c)].id = c
           /\ c \in CancelIds => ledger[AttemptOf(c)].target \in BrokerIds
<1>1. PICK i \in EventsOf(ledger, c, UnresolvedEvents) : TRUE
  BY DEF Unresolved, IsUnresolved
<1>2. EventsOf(ledger, c, AttemptEvents) # {}
  BY <1>1 DEF LedgerSound, EventsOf
<1>3. \A j, k \in EventsOf(ledger, c, AttemptEvents) : j = k /\ j \in Nat
  BY DEF LedgerSound, Unresolved, TypeOK, EventsOf
<1>4. AttemptOf(c) \in EventsOf(ledger, c, AttemptEvents)
  <2>1. \E j \in EventsOf(ledger, c, AttemptEvents) :
           \A k \in EventsOf(ledger, c, AttemptEvents) : j <= k
    BY <1>2, <1>3
  <2>. QED
    BY <2>1 DEF AttemptOf
<1>5. AttemptOf(c) \in DOMAIN ledger /\ ledger[AttemptOf(c)].id = c
      /\ ledger[AttemptOf(c)].type \in AttemptEvents
  BY <1>4 DEF EventsOf
<1>6. c \in CancelIds => ledger[AttemptOf(c)].type = "broker_cancel_attempt"
  BY <1>5, NamesAssumption DEF AttemptEvents, LedgerSound
<1>. QED
  BY <1>4, <1>5, <1>6 DEF TypeOK, LedgerSound

LEMMA EvidenceTyped ==
    ASSUME TypeOK, LedgerSound, NEW c \in Unresolved, NEW cfg, NEW readable \in BOOLEAN
    PROVE  Evidence(c, cfg, readable) \in Items
<1>1. c \in ClientIds /\ clock \in Nat
  BY DEF Unresolved, TypeOK
<1>2. CASE c \in CancelIds
  <2>1. ledger[AttemptOf(c)].target \in BrokerIds
    BY <1>2, AttemptFound
  <2>. QED
    BY <1>1, <1>2, <2>1 DEF Evidence, Items, CancelMatches, CancelCandidates
<1>3. CASE c \notin CancelIds
  <2>1. Exact[c] \subseteq BrokerIds /\ Alike[c] \subseteq BrokerIds
    BY <1>1, <1>3, LimitsAssumption DEF ClientIds
  <2>. QED
    BY <1>1, <1>3, <2>1 DEF Evidence, Items, OrdersInWindow
<1>. QED
  BY <1>2, <1>3

LEMMA ObservedTyped ==
    ASSUME TypeOK, NEW item \in Items
    PROVE  Observed(item) \in Items
  BY DEF TypeOK, Observed, Items

\* Each kind of step keeps the types.
LEMMA SubmitTyped ==
    ASSUME TypeOK, NEW p \in Procs, SubmitSteps(p)
    PROVE  TypeOK'
<1>. USE DEF brokerVars, Begin, Continue, End, At
<1>1. op[p] \in Operations /\ clock \in Nat /\ Now \in Nat
  BY DEF TypeOK, Now
<1>2. ASSUME NEW c \in OrderIds, NEW cfg \in Configs, SubmitBegin(p, c, cfg)
      PROVE  TypeOK'
  <2>1. [Idle EXCEPT !.kind = "submit", !.step = "preflight", !.id = c, !.cfg = cfg,
                     !.started = Now] \in Operations
    BY <1>1 DEF Idle, Operations, Kinds, Steps, ClientIds
  <2>. QED
    BY <1>2, <2>1 DEF SubmitBegin, TypeOK
<1>3. ASSUME SubmitPreflight(p) PROVE TypeOK'
  <2>1. [op[p] EXCEPT !.step = "attempt", !.ready = clock] \in Operations
    BY <1>1 DEF Operations, Steps
  <2>2. ledger' \in Seq(Events)
    BY <1>1, <1>3, <2>1, RecordTyped, TypesListed DEF SubmitPreflight, OtherEvents
  <2>. QED
    BY <1>3, <2>1, <2>2 DEF SubmitPreflight, TypeOK
<1>4. ASSUME SubmitAttempt(p) PROVE TypeOK'
  <2>1. ledger' \in Seq(Events)
    BY <1>1, <1>4, RecordTyped, TypesListed DEF SubmitAttempt, Operations
  <2>. QED
    BY <1>1, <1>4, <2>1 DEF SubmitAttempt, TypeOK, Operations, Steps
<1>5. ASSUME SubmitRecheck(p) PROVE TypeOK'
  BY <1>1, <1>5 DEF SubmitRecheck, TypeOK, Operations, Steps
<1>6. ASSUME SubmitRecheckFails(p) PROVE TypeOK'
  <2>1. ledger' \in Seq(Events)
    BY <1>1, <1>6, RecordTyped, OutcomeTyped, TypesListed DEF SubmitRecheckFails
  <2>. QED
    BY <1>6, <2>1, IdleTyped DEF SubmitRecheckFails, TypeOK
<1>. QED
  BY <1>2, <1>3, <1>4, <1>5, <1>6 DEF SubmitSteps

LEMMA CancelTyped ==
    ASSUME TypeOK, NEW p \in Procs, CancelSteps(p)
    PROVE  TypeOK'
<1>. USE DEF brokerVars, Begin, Continue, End, At
<1>1. op[p] \in Operations /\ clock \in Nat
  BY DEF TypeOK
<1>2. ASSUME NEW c \in CancelIds, NEW b \in BrokerIds, NEW cfg \in Configs,
             CancelBegin(p, c, b, cfg)
      PROVE  TypeOK'
  <2>1. [Idle EXCEPT !.kind = "cancel", !.step = "preflight", !.id = c, !.cfg = cfg,
                     !.target = b] \in Operations
    BY DEF Idle, Operations, Kinds, Steps, ClientIds
  <2>. QED
    BY <1>2, <2>1 DEF CancelBegin, TypeOK
<1>3. ASSUME CancelCandidate(p) PROVE TypeOK'
  BY <1>1, <1>3 DEF CancelCandidate, TypeOK, Operations, Steps
<1>4. ASSUME CancelAttempt(p) PROVE TypeOK'
  <2>1. ledger' \in Seq(Events)
    BY <1>1, <1>4, RecordTyped, TypesListed DEF CancelAttempt
  <2>. QED
    BY <1>1, <1>4, <2>1 DEF CancelAttempt, TypeOK, Operations, Steps
<1>. QED
  BY <1>2, <1>3, <1>4 DEF CancelSteps

LEMMA MutationTyped ==
    ASSUME TypeOK, NEW p \in Procs, OperationsSound, MutationSteps(p)
    PROVE  TypeOK'
<1>. USE DEF brokerVars, Begin, Continue, End, At
<1>1. op[p] \in Operations /\ clock \in Nat /\ Now \in Nat
  BY DEF TypeOK, Now
<1>2. op[p].kind \in {"submit", "cancel"} => op[p].id \in ClientIds
  BY DEF OperationsSound, OperationSound, ClientIds
<1>3. ASSUME Transport(p) PROVE TypeOK'
  <2>1. [state |-> "sent", target |-> op[p].target, sent |-> Now] \in Requests
    BY <1>1 DEF Operations, Requests
  <2>2. op' \in [Procs -> Operations]
    BY <1>1, <1>3 DEF Transport, TypeOK, Operations, Steps
  <2>3. transports' \in [ClientIds -> Nat]
    BY <1>2, <1>3 DEF Transport, TypeOK
  <2>. QED
    BY <1>3, <2>1, <2>2, <2>3 DEF Transport, TypeOK
<1>4. ASSUME MutationAccepted(p) PROVE TypeOK'
  <2>1. [op[p] EXCEPT !.target = op[p].id] \in Operations \/ op[p].kind # "submit"
    BY <1>1 DEF OperationsSound, OperationSound, Operations, BrokerIds
  <2>2. ledger' \in Seq(Events)
    BY <1>1, <1>4, <2>1, RecordTyped, OutcomeTyped, TypesListed DEF MutationAccepted
  <2>. QED
    BY <1>4, <2>2, IdleTyped DEF MutationAccepted, TypeOK
<1>5. ASSUME MutationUnknown(p) PROVE TypeOK'
  <2>1. ledger' \in Seq(Events)
    BY <1>1, <1>5, RecordTyped, TypesListed DEF MutationUnknown
  <2>. QED
    BY <1>5, <2>1, IdleTyped DEF MutationUnknown, TypeOK
<1>. QED
  BY <1>3, <1>4, <1>5 DEF MutationSteps

LEMMA RecoveryTyped ==
    ASSUME TypeOK, LedgerSound, OperationsSound, NEW p \in Procs, RecoverySteps(p)
    PROVE  TypeOK'
<1>. USE DEF brokerVars, Begin, Continue, End, At
<1>1. op[p] \in Operations /\ clock \in Nat
  BY DEF TypeOK
<1>2. ASSUME NEW cfg \in Configs, NEW readable \in BOOLEAN, ReconcileRead(p, cfg, readable)
      PROVE  TypeOK'
  <2>1. {Evidence(c, cfg, readable) : c \in Unresolved} \in SUBSET Items
    BY EvidenceTyped
  <2>2. [Idle EXCEPT !.kind = "reconcile", !.step = "record", !.cfg = cfg,
                     !.items = {Evidence(c, cfg, readable) : c \in Unresolved}] \in Operations
    BY <2>1 DEF Idle, Operations, Kinds, Steps
  <2>. QED
    BY <1>2, <2>2 DEF ReconcileRead, TypeOK
<1>3. ASSUME ReconcileRecord(p) PROVE TypeOK'
  <2>1. {Observed(item) : item \in op[p].items} \in SUBSET Items
    BY <1>1, ObservedTyped DEF Operations
  <2>2. [op[p] EXCEPT !.items = {Observed(item) : item \in op[p].items}] \in Operations
    BY <1>1, <2>1 DEF Operations
  <2>3. ledger' \in Seq(Events)
    BY <1>1, <1>3, <2>2, RecordTyped, TypesListed DEF ReconcileRecord, OtherEvents
  <2>. QED
    BY <1>3, <2>3, IdleTyped DEF ReconcileRecord, TypeOK
<1>4. ASSUME NEW c \in ClientIds, NEW verdict \in Verdicts, NEW b \in BrokerIds,
             ResolveBegin(p, c, verdict, b)
      PROVE  TypeOK'
  <2>1. c \in Unresolved
    BY <1>4 DEF ResolveBegin
  <2>2. ledger[AttemptOf(c)] \in Events
    BY <2>1, AttemptFound
  <2>3. [Idle EXCEPT !.kind = "resolve", !.step = "fresh", !.id = c,
                     !.cfg = ledger[AttemptOf(c)].cfg, !.verdict = verdict,
                     !.target = IF verdict = "accepted" THEN b ELSE NoName,
                     !.ready = ledger[AttemptOf(c)].ts] \in Operations
    BY <2>2 DEF Idle, Operations, Kinds, Steps, Events
  <2>. QED
    BY <1>4, <2>3 DEF ResolveBegin, TypeOK
<1>5. ASSUME ResolveFreshRead(p) PROVE TypeOK'
  <2>1. op[p].id \in Unresolved
    BY <1>5 DEF ResolveFreshRead, OperationsSound, OperationSound
  <2>2. {Evidence(op[p].id, op[p].cfg, TRUE)} \in SUBSET Items
    BY <2>1, EvidenceTyped
  <2>. QED
    BY <1>1, <1>5, <2>2 DEF ResolveFreshRead, TypeOK, Operations, Steps
<1>6. ASSUME ResolveRecord(p) PROVE TypeOK'
  <2>1. [op[p] EXCEPT !.items = {}] \in Operations
    BY <1>1 DEF Operations
  <2>2. ledger' \in Seq(Events)
    BY <1>1, <1>6, <2>1, RecordTyped, OutcomeTyped, TypesListed DEF ResolveRecord
  <2>. QED
    BY <1>6, <2>2, IdleTyped DEF ResolveRecord, TypeOK
<1>. QED
  BY <1>2, <1>3, <1>4, <1>5, <1>6 DEF RecoverySteps

LEMMA KillSwitchTyped ==
    ASSUME TypeOK, NEW p \in Procs, KillSwitchSteps(p)
    PROVE  TypeOK'
<1>. USE DEF brokerVars, Begin, Continue, End, At
<1>1. op[p] \in Operations /\ clock \in Nat /\ markers \in Nat
  BY DEF TypeOK
<1>2. ASSUME EngageCreate(p) PROVE TypeOK'
  <2>1. [Idle EXCEPT !.kind = "engage", !.step = "write", !.ready = clock,
                     !.nonce = markers + 1] \in Operations
    <3>1. markers + 1 \in Nat
      BY <1>1
    <3>. QED
      BY <1>1, <3>1, MarkerOperationTyped DEF Kinds, Steps
  <2>. QED
    BY <1>1, <1>2, <2>1 DEF EngageCreate, TypeOK
<1>3. ASSUME EngageWrite(p) PROVE TypeOK'
  BY <1>1, <1>3 DEF EngageWrite, TypeOK, Operations, Steps
<1>4. ASSUME EngageRecord(p) PROVE TypeOK'
  <2>1. ledger' \in Seq(Events)
    BY <1>1, <1>4, RecordTyped, TypesListed DEF EngageRecord, OtherEvents, Operations
  <2>. QED
    BY <1>4, <2>1, IdleTyped DEF EngageRecord, TypeOK
<1>5. ASSUME NEW nonce \in 1..markers, ReleaseBegin(p, nonce) PROVE TypeOK'
  <2>1. [Idle EXCEPT !.kind = "release", !.step = "record", !.nonce = nonce] \in Operations
    <3>1. nonce \in Nat
      BY <1>1
    <3>. QED
      BY <1>1, <3>1, MarkerOperationTyped DEF Kinds, Steps
  <2>. QED
    BY <1>5, <2>1 DEF ReleaseBegin, TypeOK
<1>6. ASSUME ReleaseRecord(p) PROVE TypeOK'
  <2>1. ledger' \in Seq(Events)
    BY <1>1, <1>6, RecordTyped, TypesListed DEF ReleaseRecord, OtherEvents
  <2>. QED
    BY <1>1, <1>6, <2>1 DEF ReleaseRecord, TypeOK, Operations, Steps
<1>7. ASSUME ReleaseUnlink(p) PROVE TypeOK'
  BY <1>7, IdleTyped DEF ReleaseUnlink, TypeOK, NoMarker
<1>. QED
  BY <1>2, <1>3, <1>4, <1>5, <1>6, <1>7 DEF KillSwitchSteps

LEMMA FailuresTyped ==
    ASSUME TypeOK, NEW p \in Procs, Failures(p)
    PROVE  TypeOK'
  BY IdleTyped DEF Failures, Stop, StopInAppend, End, TypeOK, brokerVars, stateVars

LEMMA EnvironmentTyped ==
    ASSUME TypeOK, Tick \/ Regress \/ BrokerSteps
    PROVE  TypeOK'
<1>. USE DEF brokerVars, stateVars, Answer
<1>1. Now \in Nat
  BY DEF TypeOK, Now
<1>2. CASE Tick
  BY <1>2 DEF Tick, TypeOK
<1>3. CASE Regress
  BY <1>3 DEF Regress, TypeOK
<1>4. ASSUME NEW c \in OrderIds, BrokerTakesOrder(c) PROVE TypeOK'
  <2>1. request' \in [ClientIds -> Requests]
    BY <1>4 DEF BrokerTakesOrder, TypeOK, Requests
  <2>2. book' \in [BrokerIds -> Orders]
    BY <1>1, <1>4 DEF BrokerTakesOrder, TypeOK, Orders
  <2>. QED
    BY <1>4, <2>1, <2>2 DEF BrokerTakesOrder, TypeOK
<1>5. ASSUME NEW c \in CancelIds, BrokerTakesCancel(c) PROVE TypeOK'
  <2>1. request' \in [ClientIds -> Requests]
    BY <1>5 DEF BrokerTakesCancel, TypeOK, Requests
  <2>2. book' \in [BrokerIds -> Orders]
    BY <1>1, <1>5, OrderTyped DEF BrokerTakesCancel, TypeOK
  <2>. QED
    BY <1>5, <2>1, <2>2 DEF BrokerTakesCancel, TypeOK
<1>6. ASSUME NEW c \in ClientIds, BrokerRefuses(c) PROVE TypeOK'
  BY <1>6 DEF BrokerRefuses, TypeOK, Requests
<1>7. ASSUME NEW b \in BrokerIds, BrokerCancels(b) \/ BrokerKeeps(b) \/ BrokerFills(b)
      PROVE  TypeOK'
  <2>1. book' \in [BrokerIds -> Orders]
    <3>1. CASE BrokerCancels(b)
      <4>1. PICK t \in book[b].cancels :
               book' = [book EXCEPT ![b].state = "done", ![b].cancelled = {t}]
        BY <3>1 DEF BrokerCancels
      <4>2. t \in Nat
        BY DEF TypeOK, Orders
      <4>. QED
        BY <4>1, <4>2, OrderTyped DEF TypeOK
    <3>2. CASE BrokerKeeps(b)
      BY <3>2, OrderStateTyped DEF BrokerKeeps, TypeOK
    <3>3. CASE BrokerFills(b)
      BY <3>3, OrderStateTyped DEF BrokerFills, TypeOK
    <3>. QED
      BY <1>7, <3>1, <3>2, <3>3
  <2>. QED
    BY <1>7, <2>1 DEF BrokerCancels, BrokerKeeps, BrokerFills, TypeOK
<1>8. ASSUME NEW b \in ForeignIds, ForeignOrder(b) PROVE TypeOK'
  <2>1. book' \in [BrokerIds -> Orders]
    BY <1>1, <1>8 DEF ForeignOrder, TypeOK, Orders
  <2>. QED
    BY <1>8, <2>1 DEF ForeignOrder, TypeOK
<1>. QED
  BY <1>2, <1>3, <1>4, <1>5, <1>6, <1>7, <1>8 DEF BrokerSteps

-----------------------------------------------------------------------------
(* What a step of one process leaves of the invariant *)

\* While one process works, or may begin, the others are idle: the invariant has
\* to be shown for its own operation only.
LEMMA HolderStep ==
    ASSUME TypeOK, TypeOK', LockHeld, NEW p \in Procs, lock = NoName \/ op[p] # Idle,
           \A q \in Procs \ {p} : op'[q] = op[q],
           op'[p] # Idle => lock' = p, OperationSound(op[p])'
    PROVE  LockHeld' /\ OperationsSound'
<1>1. \A q \in Procs \ {p} : op[q] = Idle
  BY NamesAssumption DEF LockHeld
<1>2. LockHeld'
  BY <1>1 DEF LockHeld
<1>3. ASSUME NEW q \in Procs \ {p} PROVE OperationSound(op[q])'
  <2>1. op'[q].kind = "none"
    BY <1>1 DEF Idle
  <2>. QED
    BY <2>1 DEF OperationSound
<1>. QED
  BY <1>2, <1>3 DEF OperationsSound

\* A process that ends its operation.
LEMMA EndStep ==
    ASSUME TypeOK, TypeOK', LockHeld, NEW p \in Procs, op[p] # Idle, End(p)
    PROVE  LockHeld' /\ OperationsSound'
<1>1. op'[p] = Idle /\ \A q \in Procs \ {p} : op'[q] = op[q]
  BY DEF End, TypeOK
<1>2. OperationSound(op[p])'
  BY <1>1 DEF OperationSound, Idle
<1>. QED
  BY <1>1, <1>2, HolderStep

\* A step that appends no event and calls nothing.
LEMMA QuietStep ==
    ASSUME LedgerSound, OneOrderOutstanding, SentOnceAfterAttempt,
           UNCHANGED <<ledger, transports>>
    PROVE  LedgerSound' /\ OneOrderOutstanding' /\ SentOnceAfterAttempt'
  BY DEF LedgerSound, OneOrderOutstanding, SentOnceAfterAttempt, Unresolved

\* A step that appends an event: an attempt must be the first of its id and an
\* order's attempt find nothing undecided; an unknown follows its attempt.
LEMMA AppendStep ==
    ASSUME TypeOK, LedgerSound, OneOrderOutstanding, SentOnceAfterAttempt,
           NEW e \in Events, ledger' = Append(ledger, e), UNCHANGED transports,
           e.type \in AttemptEvents => EventsOf(ledger, e.id, AttemptEvents) = {},
           e.type = "broker_order_attempt" => e.id \in OrderIds /\ Unresolved = {},
           e.type = "broker_cancel_attempt" => e.id \in CancelIds /\ e.target \in BrokerIds,
           e.type \in UnknownEvents => IsUnresolved(ledger, e.id)
    PROVE  LedgerSound' /\ OneOrderOutstanding' /\ SentOnceAfterAttempt'
<1>. DEFINE new == Len(ledger) + 1
<1>1. ledger \in Seq(Events)
  BY DEF TypeOK
<1>2. \A c, types : EventsOf(ledger', c, types) =
                      EventsOf(ledger, c, types) \cup {i \in {new} : e.id = c /\ e.type \in types}
  BY <1>1, EventsOfAppend
<1>3. /\ DOMAIN ledger' = DOMAIN ledger \cup {new}
      /\ \A i \in DOMAIN ledger : ledger'[i] = ledger[i]
      /\ ledger'[new] = e
  BY <1>1, AppendKeeps
<1>4. LedgerSound'
  <2>1. e.type \in UnresolvedEvents => EventsOf(ledger', e.id, AttemptEvents) # {}
    <3>1. CASE e.type \in AttemptEvents
      <4>1. new \in EventsOf(ledger', e.id, AttemptEvents)
        BY <1>3, <3>1 DEF EventsOf
      <4>. QED
        BY <4>1
    <3>2. CASE e.type \in UnknownEvents
      <4>1. PICK i \in EventsOf(ledger, e.id, UnresolvedEvents) : TRUE
        BY <3>2 DEF IsUnresolved
      <4>2. EventsOf(ledger, e.id, AttemptEvents) # {}
        BY <4>1 DEF LedgerSound, EventsOf
      <4>. QED
        BY <1>2, <4>2
    <3>. QED
      BY <3>1, <3>2 DEF UnresolvedEvents, AttemptEvents, UnknownEvents
  <2>2. ASSUME NEW i \in DOMAIN ledger'
        PROVE  /\ ledger'[i].type = "broker_order_attempt" => ledger'[i].id \in OrderIds
               /\ ledger'[i].type = "broker_cancel_attempt" =>
                     ledger'[i].id \in CancelIds /\ ledger'[i].target \in BrokerIds
               /\ ledger'[i].type \in UnresolvedEvents =>
                     EventsOf(ledger', ledger'[i].id, AttemptEvents) # {}
    <3>1. CASE i = new
      BY <1>3, <2>1, <3>1
    <3>2. CASE i \in DOMAIN ledger
      BY <1>2, <1>3, <3>2 DEF LedgerSound
    <3>. QED
      BY <1>3, <3>1, <3>2
  <2>3. ASSUME NEW c \in ClientIds, NEW i \in EventsOf(ledger', c, AttemptEvents),
               NEW j \in EventsOf(ledger', c, AttemptEvents)
        PROVE  i = j
    <3>1. CASE e.id = c /\ e.type \in AttemptEvents
      BY <1>2, <3>1
    <3>2. CASE ~(e.id = c /\ e.type \in AttemptEvents)
      BY <1>2, <3>2 DEF LedgerSound
    <3>. QED
      BY <3>1, <3>2
  <2>. QED
    BY <2>2, <2>3 DEF LedgerSound
<1>5. OneOrderOutstanding'
  <2>1. \A c : c # e.id \/ e.type \notin UnresolvedEvents \cup ResolvedEvents =>
               (IsUnresolved(ledger', c) <=> IsUnresolved(ledger, c))
    BY <1>1, UnresolvedKept
  <2>2. e.type \in ResolvedEvents => ~IsUnresolved(ledger', e.id)
    BY <1>1, UnresolvedEnded
  <2>3. CASE e.type = "broker_order_attempt"
    BY <2>1, <2>3 DEF OneOrderOutstanding, Unresolved
  <2>4. CASE e.type = "broker_cancel_attempt"
    BY <2>1, <2>4, NamesAssumption DEF OneOrderOutstanding, Unresolved
  <2>5. CASE e.type \notin AttemptEvents
    BY <2>1, <2>2, <2>5
    DEF OneOrderOutstanding, Unresolved, UnresolvedEvents, AttemptEvents, UnknownEvents
  <2>. QED
    BY <2>3, <2>4, <2>5 DEF AttemptEvents
<1>6. SentOnceAfterAttempt'
  BY <1>2 DEF SentOnceAfterAttempt
<1>. QED
  BY <1>4, <1>5, <1>6

\* Preflights, reconciliations and kill-switch events decide nothing.
LEMMA OtherEventStep ==
    ASSUME TypeOK, NEW e \in Events, e.type \in OtherEvents, ledger' = Append(ledger, e)
    PROVE  /\ e.type \notin AttemptEvents \cup UnknownEvents
           /\ \A c : IsUnresolved(ledger', c) <=> IsUnresolved(ledger, c)
           /\ \A c : EventsOf(ledger', c, UnresolvedEvents \cup ResolvedEvents) =
                     EventsOf(ledger, c, UnresolvedEvents \cup ResolvedEvents)
<1>1. ledger \in Seq(Events) /\ e.type \notin UnresolvedEvents \cup ResolvedEvents
  BY TypesListed DEF TypeOK
<1>2. \A c : IsUnresolved(ledger', c) <=> IsUnresolved(ledger, c)
  BY <1>1, UnresolvedKept
<1>3. /\ DOMAIN ledger' = DOMAIN ledger \cup {Len(ledger) + 1}
      /\ \A i \in DOMAIN ledger : ledger'[i] = ledger[i]
      /\ ledger'[Len(ledger) + 1] = e
  BY <1>1, AppendKeeps
<1>4. \A c : EventsOf(ledger', c, UnresolvedEvents \cup ResolvedEvents) =
             EventsOf(ledger, c, UnresolvedEvents \cup ResolvedEvents)
  BY <1>1, <1>3 DEF EventsOf
<1>5. e.type \notin AttemptEvents \cup UnknownEvents
  BY <1>1, TypesListed
<1>. QED
  BY <1>2, <1>4, <1>5

-----------------------------------------------------------------------------
(* The steps *)

LEMMA SubmitInductive ==
    ASSUME IInv, TypeOK', NEW p \in Procs, SubmitSteps(p)
    PROVE  IInv'
<1>. USE DEF brokerVars, Begin, Continue, At
<1>1. op[p] \in Operations /\ clock \in Nat /\ ledger \in Seq(Events)
  BY DEF IInv, TypeOK
<1>2. OperationSound(op[p]) /\ Idle.kind = "none"
  BY DEF IInv, OperationsSound, Idle
<1>3. ASSUME NEW c \in OrderIds, NEW cfg \in Configs, SubmitBegin(p, c, cfg)
      PROVE  IInv'
  <2>1. /\ op'[p].kind = "submit" /\ op'[p].step = "preflight" /\ op'[p].id = c
        /\ \A q \in Procs \ {p} : op'[q] = op[q]
    BY <1>3 DEF SubmitBegin, IInv, TypeOK, Idle
  <2>2. /\ EventsOf(ledger, c, UnresolvedEvents \cup ResolvedEvents) = {}
        /\ EventsOf(ledger, c, AttemptEvents) = {}
    BY <1>3, UnseenIsResolved DEF SubmitBegin
  <2>3. transports[c] = 0
    BY <2>2 DEF IInv, TypeOK, SentOnceAfterAttempt, ClientIds
  <2>4. OperationSound(op[p])'
    BY <1>3, <2>1, <2>2, <2>3
    DEF SubmitBegin, OperationSound, Starting, Unresolved
  <2>. QED
    BY <1>3, <2>1, <2>4, HolderStep, QuietStep DEF SubmitBegin, IInv
<1>4. ASSUME SubmitPreflight(p) PROVE IInv'
  <2>. DEFINE e == Event("broker_order_preflight",
                         [op[p] EXCEPT !.step = "attempt", !.ready = clock], clock)
  <2>1. /\ op'[p].kind = "submit" /\ op'[p].step = "attempt" /\ op'[p].id = op[p].id
        /\ \A q \in Procs \ {p} : op'[q] = op[q]
    BY <1>1, <1>4 DEF SubmitPreflight, IInv, TypeOK, Operations
  <2>2. ledger' = Append(ledger, e) /\ e \in Events /\ e.type = "broker_order_preflight"
    <3>1. [op[p] EXCEPT !.step = "attempt", !.ready = clock] \in Operations
      BY <1>1 DEF Operations, Steps
    <3>. QED
      BY <1>1, <1>4, <3>1, EventTyped DEF SubmitPreflight, Record, Event, EventTypes, OtherEvents
  <2>3. e.type \in OtherEvents
    BY <2>2 DEF OtherEvents
  <2>4. /\ \A c : IsUnresolved(ledger', c) <=> IsUnresolved(ledger, c)
        /\ \A c : EventsOf(ledger', c, UnresolvedEvents \cup ResolvedEvents) =
                  EventsOf(ledger, c, UnresolvedEvents \cup ResolvedEvents)
        /\ e.type \notin AttemptEvents \cup UnknownEvents
    BY <2>2, <2>3, OtherEventStep DEF IInv
  <2>5. OperationSound(op[p])'
    BY <1>2, <1>4, <2>1, <2>4 DEF SubmitPreflight, OperationSound, Starting
  <2>6. LedgerSound' /\ OneOrderOutstanding' /\ SentOnceAfterAttempt'
    BY <1>4, <2>2, <2>4, AppendStep DEF SubmitPreflight, IInv, AttemptEvents
  <2>. QED
    BY <1>2, <1>4, <2>1, <2>5, <2>6, HolderStep DEF SubmitPreflight, IInv, LockHeld
<1>5. ASSUME SubmitAttempt(p) PROVE IInv'
  <2>. DEFINE e == Event("broker_order_attempt", op[p], op[p].ready)
  <2>1. /\ op'[p].kind = "submit" /\ op'[p].step = "recheck" /\ op'[p].id = op[p].id
        /\ \A q \in Procs \ {p} : op'[q] = op[q]
    BY <1>1, <1>5 DEF SubmitAttempt, IInv, TypeOK, Operations
  <2>2. /\ ledger' = Append(ledger, e) /\ e \in Events
        /\ e.type = "broker_order_attempt" /\ e.id = op[p].id
    BY <1>1, <1>5, EventTyped
    DEF SubmitAttempt, Record, Event, Attempted, EventTypes, UnresolvedEvents, Operations
  <2>3. op[p].id \in OrderIds /\ Starting(op[p]) /\ Unresolved = {}
    BY <1>2, <1>5 DEF SubmitAttempt, OperationSound, Starting, Unresolved
  <2>4. IsUnresolved(ledger', op[p].id)
    BY <1>1, <2>2, UnresolvedMade DEF UnresolvedEvents
  <2>5. OperationSound(op[p])'
    BY <1>2, <1>5, <2>1, <2>3, <2>4 DEF SubmitAttempt, OperationSound, Starting, Underway
  <2>6. EventsOf(ledger, e.id, AttemptEvents) = {}
    BY <2>2, <2>3 DEF Starting, EventsOf, AttemptEvents, UnresolvedEvents
  <2>7. LedgerSound' /\ OneOrderOutstanding' /\ SentOnceAfterAttempt'
    BY <1>5, <2>2, <2>3, <2>6, AppendStep DEF SubmitAttempt, IInv, UnknownEvents
  <2>. QED
    BY <1>2, <1>5, <2>1, <2>5, <2>7, HolderStep DEF SubmitAttempt, IInv, LockHeld
<1>6. ASSUME SubmitRecheck(p) PROVE IInv'
  <2>1. /\ op'[p].kind = "submit" /\ op'[p].step = "transport" /\ op'[p].id = op[p].id
        /\ \A q \in Procs \ {p} : op'[q] = op[q]
    BY <1>1, <1>6 DEF SubmitRecheck, IInv, TypeOK, Operations
  <2>2. OperationSound(op[p])'
    BY <1>2, <1>6, <2>1 DEF SubmitRecheck, OperationSound, Underway
  <2>. QED
    BY <1>2, <1>6, <2>1, <2>2, HolderStep, QuietStep DEF SubmitRecheck, IInv, LockHeld
<1>7. ASSUME SubmitRecheckFails(p) PROVE IInv'
  <2>. DEFINE e == Event(Outcome(op[p].id, "rejected"), op[p], clock)
  <2>1. e.type \in ResolvedEvents /\ e \in Events /\ ledger' = Append(ledger, e)
    BY <1>1, <1>7, OutcomeTyped, EventTyped, TypesListed DEF SubmitRecheckFails, Record, Event
  <2>2. e.type \notin AttemptEvents \cup UnknownEvents
    BY <2>1 DEF ResolvedEvents, AttemptEvents, UnknownEvents
  <2>3. LedgerSound' /\ OneOrderOutstanding' /\ SentOnceAfterAttempt'
    BY <1>7, <2>1, <2>2, AppendStep DEF SubmitRecheckFails, IInv, AttemptEvents
  <2>. QED
    BY <1>2, <1>7, <2>3, EndStep DEF SubmitRecheckFails, IInv
<1>. QED
  BY <1>3, <1>4, <1>5, <1>6, <1>7 DEF SubmitSteps

LEMMA CancelInductive ==
    ASSUME IInv, TypeOK', NEW p \in Procs, CancelSteps(p)
    PROVE  IInv'
<1>. USE DEF brokerVars, Begin, Continue, At
<1>1. op[p] \in Operations /\ clock \in Nat /\ ledger \in Seq(Events)
  BY DEF IInv, TypeOK
<1>2. OperationSound(op[p]) /\ Idle.kind = "none"
  BY DEF IInv, OperationsSound, Idle
<1>3. ASSUME NEW c \in CancelIds, NEW b \in BrokerIds, NEW cfg \in Configs,
             CancelBegin(p, c, b, cfg)
      PROVE  IInv'
  <2>1. /\ op'[p].kind = "cancel" /\ op'[p].step = "preflight"
        /\ op'[p].id = c /\ op'[p].target = b
        /\ \A q \in Procs \ {p} : op'[q] = op[q]
    BY <1>3 DEF CancelBegin, IInv, TypeOK, Idle
  <2>2. /\ EventsOf(ledger, c, UnresolvedEvents \cup ResolvedEvents) = {}
        /\ EventsOf(ledger, c, AttemptEvents) = {}
    BY <1>3, UnseenIsResolved DEF CancelBegin
  <2>3. transports[c] = 0
    BY <2>2 DEF IInv, TypeOK, SentOnceAfterAttempt, ClientIds
  <2>4. OperationSound(op[p])'
    BY <1>3, <2>1, <2>2, <2>3 DEF CancelBegin, OperationSound, Starting
  <2>. QED
    BY <1>3, <2>1, <2>4, HolderStep, QuietStep DEF CancelBegin, IInv
<1>4. ASSUME CancelCandidate(p) PROVE IInv'
  <2>1. /\ op'[p].kind = "cancel" /\ op'[p].step = "attempt"
        /\ op'[p].id = op[p].id /\ op'[p].target = op[p].target
        /\ \A q \in Procs \ {p} : op'[q] = op[q]
    BY <1>1, <1>4 DEF CancelCandidate, IInv, TypeOK, Operations
  <2>2. OperationSound(op[p])'
    BY <1>2, <1>4, <2>1 DEF CancelCandidate, OperationSound, Starting
  <2>. QED
    BY <1>2, <1>4, <2>1, <2>2, HolderStep, QuietStep DEF CancelCandidate, IInv, LockHeld
<1>5. ASSUME CancelAttempt(p) PROVE IInv'
  <2>. DEFINE e == Event("broker_cancel_attempt", op[p], clock)
  <2>1. /\ op'[p].kind = "cancel" /\ op'[p].step = "transport"
        /\ op'[p].id = op[p].id /\ op'[p].target = op[p].target
        /\ \A q \in Procs \ {p} : op'[q] = op[q]
    BY <1>1, <1>5 DEF CancelAttempt, IInv, TypeOK, Operations
  <2>2. /\ ledger' = Append(ledger, e) /\ e \in Events
        /\ e.type = "broker_cancel_attempt" /\ e.id = op[p].id /\ e.target = op[p].target
    BY <1>1, <1>5, EventTyped
    DEF CancelAttempt, Record, Event, Attempted, EventTypes, UnresolvedEvents
  <2>3. op[p].id \in CancelIds /\ op[p].target \in BrokerIds /\ Starting(op[p])
    BY <1>2, <1>5 DEF CancelAttempt, OperationSound
  <2>4. IsUnresolved(ledger', op[p].id)
    BY <1>1, <2>2, UnresolvedMade DEF UnresolvedEvents
  <2>5. OperationSound(op[p])'
    BY <1>2, <1>5, <2>1, <2>3, <2>4 DEF CancelAttempt, OperationSound, Starting, Underway
  <2>6. EventsOf(ledger, e.id, AttemptEvents) = {}
    BY <2>2, <2>3 DEF Starting, EventsOf, AttemptEvents, UnresolvedEvents
  <2>7. LedgerSound' /\ OneOrderOutstanding' /\ SentOnceAfterAttempt'
    BY <1>5, <2>2, <2>3, <2>6, AppendStep DEF CancelAttempt, IInv, UnknownEvents
  <2>. QED
    BY <1>2, <1>5, <2>1, <2>5, <2>7, HolderStep DEF CancelAttempt, IInv, LockHeld
<1>. QED
  BY <1>3, <1>4, <1>5 DEF CancelSteps

LEMMA MutationInductive ==
    ASSUME IInv, TypeOK', NEW p \in Procs, MutationSteps(p)
    PROVE  IInv'
<1>. USE DEF brokerVars, Begin, Continue, At
<1>1. op[p] \in Operations /\ clock \in Nat /\ ledger \in Seq(Events)
  BY DEF IInv, TypeOK
<1>2. OperationSound(op[p]) /\ Idle.kind = "none"
  BY DEF IInv, OperationsSound, Idle
<1>3. ASSUME Transport(p) PROVE IInv'
  <2>1. /\ op'[p].kind = op[p].kind /\ op'[p].step = "await"
        /\ op'[p].id = op[p].id /\ op'[p].target = op[p].target
        /\ \A q \in Procs \ {p} : op'[q] = op[q]
    BY <1>1, <1>3 DEF Transport, IInv, TypeOK, Operations
  <2>2. op[p].id \in ClientIds /\ Underway(op[p]) /\ transports[op[p].id] = 0
    BY <1>2, <1>3 DEF Transport, OperationSound, Underway, ClientIds
  <2>3. OperationSound(op[p])'
    BY <1>2, <1>3, <2>1, <2>2 DEF Transport, OperationSound, Underway
  <2>4. EventsOf(ledger, op[p].id, AttemptEvents) # {}
    <3>1. PICK i \in EventsOf(ledger, op[p].id, UnresolvedEvents) : TRUE
      BY <2>2 DEF Underway, IsUnresolved
    <3>. QED
      BY <3>1 DEF IInv, LedgerSound, EventsOf
  <2>5. SentOnceAfterAttempt'
    BY <1>3, <2>2, <2>4 DEF Transport, IInv, TypeOK, SentOnceAfterAttempt
  <2>6. LedgerSound' /\ OneOrderOutstanding'
    BY <1>3 DEF Transport, IInv, LedgerSound, OneOrderOutstanding, Unresolved
  <2>. QED
    BY <1>2, <1>3, <2>1, <2>3, <2>5, <2>6, HolderStep DEF Transport, IInv, LockHeld
<1>4. ASSUME MutationAccepted(p) PROVE IInv'
  <2>. DEFINE o == IF op[p].kind = "submit" THEN [op[p] EXCEPT !.target = op[p].id] ELSE op[p]
              e == Event(Outcome(o.id, "accepted"), o, clock)
  <2>1. o \in Operations
    BY <1>1, <1>2 DEF OperationSound, Operations, BrokerIds
  <2>2. e.type \in ResolvedEvents /\ e \in Events /\ ledger' = Append(ledger, e)
    BY <1>1, <1>4, <2>1, OutcomeTyped, EventTyped, TypesListed
    DEF MutationAccepted, Record, Event
  <2>3. e.type \notin AttemptEvents \cup UnknownEvents
    BY <2>2 DEF ResolvedEvents, AttemptEvents, UnknownEvents
  <2>4. LedgerSound' /\ OneOrderOutstanding' /\ SentOnceAfterAttempt'
    BY <1>4, <2>2, <2>3, AppendStep DEF MutationAccepted, IInv, AttemptEvents
  <2>. QED
    BY <1>2, <1>4, <2>4, EndStep DEF MutationAccepted, IInv
<1>5. ASSUME MutationUnknown(p) PROVE IInv'
  <2>. DEFINE e == Event(Unknown(op[p].kind), op[p], clock)
  <2>1. /\ e.type \in UnknownEvents /\ e \in Events /\ e.id = op[p].id
        /\ ledger' = Append(ledger, e)
    BY <1>1, <1>5, EventTyped, TypesListed DEF MutationUnknown, Record, Event
  <2>2. e.type \notin AttemptEvents
    BY <2>1 DEF AttemptEvents, UnknownEvents
  <2>3. IsUnresolved(ledger, e.id)
    BY <1>2, <1>5, <2>1 DEF MutationUnknown, OperationSound, Underway
  <2>4. LedgerSound' /\ OneOrderOutstanding' /\ SentOnceAfterAttempt'
    BY <1>5, <2>1, <2>2, <2>3, AppendStep DEF MutationUnknown, IInv, AttemptEvents
  <2>. QED
    BY <1>2, <1>5, <2>4, EndStep DEF MutationUnknown, IInv
<1>. QED
  BY <1>3, <1>4, <1>5 DEF MutationSteps

LEMMA RecoveryInductive ==
    ASSUME IInv, TypeOK', NEW p \in Procs, RecoverySteps(p)
    PROVE  IInv'
<1>. USE DEF brokerVars, Begin, Continue, At
<1>1. op[p] \in Operations /\ clock \in Nat /\ ledger \in Seq(Events)
  BY DEF IInv, TypeOK
<1>2. OperationSound(op[p]) /\ Idle.kind = "none"
  BY DEF IInv, OperationsSound, Idle
<1>3. ASSUME NEW cfg \in Configs, NEW readable \in BOOLEAN, ReconcileRead(p, cfg, readable)
      PROVE  IInv'
  <2>1. op'[p].kind = "reconcile" /\ \A q \in Procs \ {p} : op'[q] = op[q]
    BY <1>3 DEF ReconcileRead, IInv, TypeOK, Idle
  <2>2. OperationSound(op[p])'
    BY <2>1 DEF OperationSound
  <2>. QED
    BY <1>3, <2>1, <2>2, HolderStep, QuietStep DEF ReconcileRead, IInv
<1>4. ASSUME ReconcileRecord(p) PROVE IInv'
  <2>. DEFINE o == [op[p] EXCEPT !.items = {Observed(item) : item \in op[p].items}]
              e == Event("broker_reconciliation", o, clock)
  <2>1. o \in Operations
    <3>1. {Observed(item) : item \in op[p].items} \in SUBSET Items
      BY <1>1, ObservedTyped DEF Operations, IInv
    <3>. QED
      BY <1>1, <3>1 DEF Operations
  <2>2. e.type \in OtherEvents /\ e \in Events /\ ledger' = Append(ledger, e)
    BY <1>1, <1>4, <2>1, EventTyped, TypesListed
    DEF ReconcileRecord, Record, Event, OtherEvents
  <2>3. e.type \notin AttemptEvents \cup UnknownEvents
    BY <2>2, OtherEventStep DEF IInv
  <2>4. LedgerSound' /\ OneOrderOutstanding' /\ SentOnceAfterAttempt'
    BY <1>4, <2>2, <2>3, AppendStep DEF ReconcileRecord, IInv, AttemptEvents
  <2>. QED
    BY <1>2, <1>4, <2>4, EndStep DEF ReconcileRecord, IInv
<1>5. ASSUME NEW c \in ClientIds, NEW verdict \in Verdicts, NEW b \in BrokerIds,
             ResolveBegin(p, c, verdict, b)
      PROVE  IInv'
  <2>1. /\ op'[p].kind = "resolve" /\ op'[p].id = c /\ op'[p].verdict = verdict
        /\ \A q \in Procs \ {p} : op'[q] = op[q]
    BY <1>5 DEF ResolveBegin, IInv, TypeOK, Idle
  <2>2. OperationSound(op[p])'
    BY <1>5, <2>1 DEF ResolveBegin, OperationSound, Unresolved
  <2>. QED
    BY <1>5, <2>1, <2>2, HolderStep, QuietStep DEF ResolveBegin, IInv
<1>6. ASSUME ResolveFreshRead(p) PROVE IInv'
  <2>1. /\ op'[p].kind = "resolve" /\ op'[p].id = op[p].id /\ op'[p].verdict = op[p].verdict
        /\ \A q \in Procs \ {p} : op'[q] = op[q]
    BY <1>1, <1>6 DEF ResolveFreshRead, IInv, TypeOK, Operations
  <2>2. OperationSound(op[p])'
    BY <1>2, <1>6, <2>1 DEF ResolveFreshRead, OperationSound, Unresolved
  <2>. QED
    BY <1>2, <1>6, <2>1, <2>2, HolderStep, QuietStep DEF ResolveFreshRead, IInv, LockHeld
<1>7. ASSUME ResolveRecord(p) PROVE IInv'
  <2>. DEFINE o == [op[p] EXCEPT !.items = {}]
              e == Event(Outcome(op[p].id, op[p].verdict), o, clock)
  <2>1. o \in Operations
    BY <1>1 DEF Operations
  <2>2. e.type \in ResolvedEvents /\ e \in Events /\ ledger' = Append(ledger, e)
    BY <1>1, <1>7, <2>1, OutcomeTyped, EventTyped, TypesListed DEF ResolveRecord, Record, Event
  <2>3. e.type \notin AttemptEvents \cup UnknownEvents
    BY <2>2 DEF ResolvedEvents, AttemptEvents, UnknownEvents
  <2>4. LedgerSound' /\ OneOrderOutstanding' /\ SentOnceAfterAttempt'
    BY <1>7, <2>2, <2>3, AppendStep DEF ResolveRecord, IInv, AttemptEvents
  <2>. QED
    BY <1>2, <1>7, <2>4, EndStep DEF ResolveRecord, IInv
<1>. QED
  BY <1>3, <1>4, <1>5, <1>6, <1>7 DEF RecoverySteps

LEMMA KillSwitchInductive ==
    ASSUME IInv, TypeOK', NEW p \in Procs, KillSwitchSteps(p)
    PROVE  IInv'
<1>. USE DEF brokerVars, Begin, Continue, At
<1>1. op[p] \in Operations /\ clock \in Nat /\ ledger \in Seq(Events)
  BY DEF IInv, TypeOK
<1>2. OperationSound(op[p]) /\ Idle.kind = "none"
  BY DEF IInv, OperationsSound, Idle
<1>3. ASSUME EngageCreate(p) PROVE IInv'
  <2>1. op'[p].kind = "engage" /\ \A q \in Procs \ {p} : op'[q] = op[q]
    BY <1>3 DEF EngageCreate, IInv, TypeOK, Idle
  <2>2. OperationSound(op[p])'
    BY <2>1 DEF OperationSound
  <2>. QED
    BY <1>3, <2>1, <2>2, HolderStep, QuietStep DEF EngageCreate, IInv
<1>4. ASSUME EngageWrite(p) PROVE IInv'
  <2>1. op'[p].kind = "engage" /\ \A q \in Procs \ {p} : op'[q] = op[q]
    BY <1>1, <1>4 DEF EngageWrite, IInv, TypeOK, Operations
  <2>2. OperationSound(op[p])'
    BY <2>1 DEF OperationSound
  <2>. QED
    BY <1>2, <1>4, <2>1, <2>2, HolderStep, QuietStep DEF EngageWrite, IInv, LockHeld
<1>5. ASSUME EngageRecord(p) PROVE IInv'
  <2>. DEFINE e == Event("broker_kill_switch_engaged", op[p], op[p].ready)
  <2>1. e.type \in OtherEvents /\ e \in Events /\ ledger' = Append(ledger, e)
    BY <1>1, <1>5, EventTyped, TypesListed
    DEF EngageRecord, Record, Event, OtherEvents, Operations
  <2>2. e.type \notin AttemptEvents \cup UnknownEvents
    BY <2>1, OtherEventStep DEF IInv
  <2>3. LedgerSound' /\ OneOrderOutstanding' /\ SentOnceAfterAttempt'
    BY <1>5, <2>1, <2>2, AppendStep DEF EngageRecord, IInv, AttemptEvents
  <2>. QED
    BY <1>2, <1>5, <2>3, EndStep DEF EngageRecord, IInv
<1>6. ASSUME NEW nonce \in 1..markers, ReleaseBegin(p, nonce) PROVE IInv'
  <2>1. op'[p].kind = "release" /\ \A q \in Procs \ {p} : op'[q] = op[q]
    BY <1>6 DEF ReleaseBegin, IInv, TypeOK, Idle
  <2>2. OperationSound(op[p])'
    BY <2>1 DEF OperationSound
  <2>. QED
    BY <1>6, <2>1, <2>2, HolderStep, QuietStep DEF ReleaseBegin, IInv
<1>7. ASSUME ReleaseRecord(p) PROVE IInv'
  <2>. DEFINE e == Event("broker_kill_switch_release_authorized", op[p], clock)
  <2>1. op'[p].kind = "release" /\ \A q \in Procs \ {p} : op'[q] = op[q]
    BY <1>1, <1>7 DEF ReleaseRecord, IInv, TypeOK, Operations
  <2>2. OperationSound(op[p])'
    BY <2>1 DEF OperationSound
  <2>3. e.type \in OtherEvents /\ e \in Events /\ ledger' = Append(ledger, e)
    BY <1>1, <1>7, EventTyped, TypesListed DEF ReleaseRecord, Record, Event, OtherEvents
  <2>4. e.type \notin AttemptEvents \cup UnknownEvents
    BY <2>3, OtherEventStep DEF IInv
  <2>5. LedgerSound' /\ OneOrderOutstanding' /\ SentOnceAfterAttempt'
    BY <1>7, <2>3, <2>4, AppendStep DEF ReleaseRecord, IInv, AttemptEvents
  <2>. QED
    BY <1>2, <1>7, <2>1, <2>2, <2>5, HolderStep DEF ReleaseRecord, IInv, LockHeld
<1>8. ASSUME ReleaseUnlink(p) PROVE IInv'
  BY <1>2, <1>8, EndStep, QuietStep DEF ReleaseUnlink, IInv
<1>. QED
  BY <1>3, <1>4, <1>5, <1>6, <1>7, <1>8 DEF KillSwitchSteps

LEMMA FailuresInductive ==
    ASSUME IInv, TypeOK', NEW p \in Procs, Failures(p)
    PROVE  IInv'
<1>1. op[p] # Idle
  BY DEF Failures, Stop, StopInAppend, Appending, Idle
<1>. QED
  BY <1>1, EndStep, QuietStep
  DEF Failures, Stop, StopInAppend, IInv, brokerVars, stateVars

\* The clocks and the broker touch nothing that the invariant is about.
LEMMA EnvironmentInductive ==
    ASSUME IInv, TypeOK', UNCHANGED <<lock, op, ledger, torn, marker, transports>>
    PROVE  IInv'
<1>1. LockHeld' /\ OperationsSound'
  BY DEF IInv, LockHeld, OperationsSound, OperationSound, Starting, Underway, Unresolved
<1>. QED
  BY <1>1, QuietStep DEF IInv

LEMMA InductiveInit == Init => IInv
<1>. SUFFICES ASSUME Init PROVE IInv
  OBVIOUS
<1>1. TypeOK
  <2>1. op \in [Procs -> Operations]
    BY IdleTyped DEF Init
  <2>2. NoRequest \in Requests /\ NoOrder \in Orders
    BY DEF NoRequest, NoOrder, Requests, Orders
  <2>3. ledger \in Seq(Events)
    BY DEF Init
  <2>4. marker \in [state : {"absent", "torn", "valid"}, nonce : Nat]
    BY DEF Init, NoMarker
  <2>. QED
    BY <2>1, <2>2, <2>3, <2>4 DEF Init, TypeOK
<1>2. LockHeld /\ OperationsSound
  BY DEF Init, LockHeld, OperationsSound, OperationSound, Idle
<1>3. \A c, types : EventsOf(ledger, c, types) = {}
  BY DEF Init, EventsOf
<1>4. LedgerSound /\ OneOrderOutstanding /\ SentOnceAfterAttempt
  BY <1>3 DEF Init, LedgerSound, OneOrderOutstanding, SentOnceAfterAttempt,
              Unresolved, IsUnresolved
<1>. QED
  BY <1>1, <1>2, <1>4 DEF IInv

LEMMA InductiveStep == IInv /\ [Next]_vars => IInv'
<1>. SUFFICES ASSUME IInv, [Next]_vars PROVE IInv'
  OBVIOUS
<1>. USE DEF IInv
<1>1. ASSUME NEW p \in Procs, SubmitSteps(p) PROVE IInv'
  BY <1>1, SubmitTyped, SubmitInductive
<1>2. ASSUME NEW p \in Procs, CancelSteps(p) PROVE IInv'
  BY <1>2, CancelTyped, CancelInductive
<1>3. ASSUME NEW p \in Procs, MutationSteps(p) PROVE IInv'
  BY <1>3, MutationTyped, MutationInductive
<1>4. ASSUME NEW p \in Procs, RecoverySteps(p) PROVE IInv'
  BY <1>4, RecoveryTyped, RecoveryInductive
<1>5. ASSUME NEW p \in Procs, KillSwitchSteps(p) PROVE IInv'
  BY <1>5, KillSwitchTyped, KillSwitchInductive
<1>6. ASSUME NEW p \in Procs, Failures(p) PROVE IInv'
  BY <1>6, FailuresTyped, FailuresInductive
<1>7. ASSUME Tick \/ Regress \/ BrokerSteps PROVE IInv'
  <2>1. UNCHANGED <<lock, op, ledger, torn, marker, transports>>
    BY <1>7 DEF Tick, Regress, BrokerSteps, BrokerTakesOrder, BrokerTakesCancel,
                BrokerRefuses, BrokerCancels, BrokerKeeps, BrokerFills, ForeignOrder, stateVars
  <2>. QED
    BY <1>7, <2>1, EnvironmentTyped, EnvironmentInductive
<1>8. CASE UNCHANGED vars
  <2>1. TypeOK' /\ UNCHANGED <<lock, op, ledger, torn, marker, transports>>
    BY <1>8 DEF vars, TypeOK
  <2>. QED
    BY <2>1, EnvironmentInductive
<1>. QED
  BY <1>1, <1>2, <1>3, <1>4, <1>5, <1>6, <1>7, <1>8 DEF Next

-----------------------------------------------------------------------------
(* The theorems *)

THEOREM Invariance == Spec => []IInv
  BY InductiveInit, InductiveStep, PTL DEF Spec

\* Every variable keeps its type, in particular the evidence a reconciliation
\* computes from the attempts it looks up in the ledger.
THEOREM TypeCorrect == Spec => []TypeOK
<1>1. IInv => TypeOK
  BY DEF IInv
<1>. QED
  BY <1>1, Invariance, PTL

\* At most one order is undecided at any time, whatever processes and configs
\* compete and wherever an operation stops.
THEOREM OrdersOneAtATime == Spec => []OneOrderOutstanding
<1>1. IInv => OneOrderOutstanding
  BY DEF IInv
<1>. QED
  BY <1>1, Invariance, PTL

\* A mutation endpoint is called at most once for an id, after its attempt is durable.
THEOREM AtMostOneTransport == Spec => []SentOnceAfterAttempt
<1>1. IInv => SentOnceAfterAttempt
  BY DEF IInv
<1>. QED
  BY <1>1, Invariance, PTL

\* Only the transport step calls the broker's mutation endpoint, for a mutation
\* that is underway.
LEMMA OnlyTransportSends ==
    ASSUME IInv, [Next]_vars, transports' # transports
    PROVE  \E p \in Procs : Transport(p)
<1>1. Next
  BY DEF vars
<1>. QED
  BY <1>1
  DEF Next, SubmitSteps, CancelSteps, MutationSteps, RecoverySteps, KillSwitchSteps,
      Failures, BrokerSteps, SubmitBegin, SubmitPreflight, SubmitAttempt, SubmitRecheck,
      SubmitRecheckFails, CancelBegin, CancelCandidate, CancelAttempt, MutationAccepted,
      MutationUnknown, ReconcileRead, ReconcileRecord, ResolveBegin, ResolveFreshRead,
      ResolveRecord, EngageCreate, EngageWrite, EngageRecord, ReleaseBegin, ReleaseRecord,
      ReleaseUnlink, Stop, StopInAppend, Tick, Regress, BrokerTakesOrder,
      BrokerTakesCancel, BrokerRefuses, BrokerCancels, BrokerKeeps, BrokerFills, ForeignOrder

\* No order is sent while the kill-switch marker exists, in any form and for any
\* config.
THEOREM HaltedOrdersStay == Spec => KillSwitchBlocksOrders
<1>1. ASSUME IInv, [Next]_vars
      PROVE  [marker.state # "absent" =>
                 \A c \in OrderIds : transports'[c] = transports[c]]_vars
  <2>1. ASSUME NEW p \in Procs, Transport(p), marker.state # "absent", NEW c \in OrderIds
        PROVE  transports'[c] = transports[c]
    <3>1. op[p].id \in CancelIds
      BY <1>1, <2>1 DEF IInv, OperationsSound, OperationSound, Transport, At
    <3>. QED
      BY <1>1, <2>1, <3>1, NamesAssumption DEF IInv, TypeOK, Transport, ClientIds
  <2>. QED
    BY <1>1, <2>1, OnlyTransportSends
<1>. QED
  BY <1>1, Invariance, PTL DEF Spec, KillSwitchBlocksOrders

\* Nothing is sent once the ledger cannot be read.
THEOREM UnreadableLedgerSendsNothing == Spec => TornLedgerBlocksMutations
<1>1. ASSUME IInv, [Next]_vars
      PROVE  [torn => transports' = transports]_vars
  <2>1. ASSUME NEW p \in Procs, Transport(p) PROVE ~torn
    BY <1>1, <2>1 DEF IInv, OperationsSound, OperationSound, Transport, At
  <2>. QED
    BY <1>1, <2>1, OnlyTransportSends
<1>. QED
  BY <1>1, Invariance, PTL DEF Spec, TornLedgerBlocksMutations

\* When the marker appears, no mutation is in progress: engaging waits for the
\* operation lock.
THEOREM EngagementIsExclusive == Spec => EngagementOverlapsNoMutation
<1>1. ASSUME IInv, [Next]_vars
      PROVE  [marker.state = "absent" /\ marker'.state # "absent" =>
                 \A p \in Procs : op[p].kind \notin {"submit", "cancel"}]_vars
  <2>. SUFFICES ASSUME Next, marker.state = "absent", marker'.state # "absent",
                       NEW q \in Procs
                PROVE  op[q].kind \notin {"submit", "cancel"}
    BY <1>1
  <2>1. PICK p \in Procs : KillSwitchSteps(p)
    BY DEF Next, SubmitSteps, CancelSteps, MutationSteps, RecoverySteps, Failures, BrokerSteps,
       SubmitBegin, SubmitPreflight, SubmitAttempt, SubmitRecheck, SubmitRecheckFails,
       CancelBegin, CancelCandidate, CancelAttempt, Transport, MutationAccepted,
       MutationUnknown, ReconcileRead, ReconcileRecord, ResolveBegin, ResolveFreshRead,
       ResolveRecord, Stop, StopInAppend, Tick, Regress, BrokerTakesOrder,
       BrokerTakesCancel, BrokerRefuses, BrokerCancels, BrokerKeeps, BrokerFills,
       ForeignOrder, stateVars
  <2>2. EngageCreate(p) \/ EngageWrite(p)
    BY <2>1 DEF KillSwitchSteps, EngageRecord, ReleaseBegin, ReleaseRecord, ReleaseUnlink, NoMarker
  <2>3. CASE EngageCreate(p)
    BY <1>1, <2>3, NamesAssumption DEF EngageCreate, Begin, IInv, LockHeld, Idle
  <2>4. CASE EngageWrite(p)
    BY <1>1, <2>4 DEF EngageWrite, At, IInv, LockHeld, Idle
  <2>. QED
    BY <2>2, <2>3, <2>4
<1>. QED
  BY <1>1, Invariance, PTL DEF Spec, EngagementOverlapsNoMutation

-----------------------------------------------------------------------------
(* The steps by what they do to the ledger. Every step of a process is first *)
(* brought to this: it notes, opens, doubts or decides, it sends, or it is    *)
(* quiet.                                                                     *)

AttemptsOf(c) == EventsOf(ledger, c, AttemptEvents)
OutcomesOf(c) == EventsOf(ledger, c, ResolvedEvents)
Mutating(o) == o.kind \in {"submit", "cancel"}

\* Only p works.
Alone(p) == \A q \in Procs \ {p} : op[q] = Idle /\ op'[q] = Idle

\* p appends e and touches nothing else of what the invariants are about.
Writes(p, e) ==
    /\ e \in Events /\ ledger' = Append(ledger, e)
    /\ Alone(p) /\ UNCHANGED <<transports, request, book, clock, regress, marker>>

Notes(p, e) ==
    /\ Writes(p, e) /\ e.type \in OtherEvents
    /\ e.ts = clock \/ (EngageRecord(p) /\ e.ts = op[p].ready)
    /\ \/ SubmitPreflight(p) /\ e.type = "broker_order_preflight"
       \/ /\ ReconcileRecord(p) /\ e.type = "broker_reconciliation"
          /\ e.items = {Observed(item) : item \in op[p].items}
       \/ EngageRecord(p) /\ e.type = "broker_kill_switch_engaged"
       \/ /\ ReleaseRecord(p) /\ e.type = "broker_kill_switch_release_authorized"
          /\ e.nonce = op[p].nonce

Opens(p, e) ==
    /\ Writes(p, e) /\ e.type = Attempted(op[p].kind)
    /\ e.id = op[p].id /\ e.target = op[p].target /\ e.cfg = op[p].cfg
    /\ e.date = Day(op[p].ready)
    /\ Mutating(op[p]) /\ op[p].step = "attempt" /\ Starting(op[p])
    /\ \/ /\ op[p].kind = "submit" /\ e.ts = op[p].ready /\ e.id \in OrderIds
          /\ op'[p] = [op[p] EXCEPT !.step = "recheck"]
       \/ /\ op[p].kind = "cancel" /\ e.ts = clock /\ e.id \in CancelIds
          /\ op'[p] = [op[p] EXCEPT !.step = "transport"]

Doubts(p, e) ==
    /\ Writes(p, e) /\ e.type \in UnknownEvents /\ e.id = op[p].id /\ e.ts = clock
    /\ Mutating(op[p]) /\ op[p].step = "await" /\ e.id \in Unresolved
    /\ op'[p] = Idle

\* Why p records a verdict.
Grounds(p, verdict) ==
    \/ op[p].kind = "submit" /\ op[p].step = "recheck" /\ verdict = "rejected"
    \/ /\ Mutating(op[p]) /\ op[p].step = "await" /\ verdict = "accepted"
       /\ request[op[p].id].state = "taken"
    \/ /\ op[p].kind = "resolve" /\ op[p].step = "record" /\ verdict = op[p].verdict
       /\ \A item \in op[p].items : Supports(Observed(item), verdict, op[p].target)

Decides(p, e, verdict) ==
    /\ Writes(p, e) /\ e.type = Outcome(e.id, verdict) /\ e.id = op[p].id /\ e.ts = clock
    /\ e.date = Day(op[p].ready)
    /\ e.id \in Unresolved /\ verdict \in Verdicts /\ Grounds(p, verdict)
    /\ op'[p] = Idle

Sends(p) == Transport(p) /\ Alone(p) /\ op[p].id \in ClientIds /\ Underway(op[p])

\* p works on and neither appends nor sends.
Quiet(p) ==
    /\ Alone(p) /\ UNCHANGED <<ledger, transports, request, book, clock, regress>>
    /\ \/ \E c \in OrderIds, cfg \in Configs : SubmitBegin(p, c, cfg)
       \/ SubmitRecheck(p)
       \/ \E c \in CancelIds, b \in BrokerIds, cfg \in Configs : CancelBegin(p, c, b, cfg)
       \/ CancelCandidate(p)
       \/ \E cfg \in Configs, readable \in BOOLEAN : ReconcileRead(p, cfg, readable)
       \/ \E c \in ClientIds, verdict \in Verdicts, b \in BrokerIds : ResolveBegin(p, c, verdict, b)
       \/ ResolveFreshRead(p)
       \/ EngageCreate(p) \/ EngageWrite(p)
       \/ \E nonce \in 1..markers : ReleaseBegin(p, nonce)
       \/ ReleaseUnlink(p)
       \/ op[p] # Idle /\ op'[p] = Idle /\ UNCHANGED marker

Works(p) ==
    \/ \E e \in Events : \/ Notes(p, e) \/ Opens(p, e) \/ Doubts(p, e)
                         \/ \E verdict \in Verdicts : Decides(p, e, verdict)
    \/ Sends(p) \/ Quiet(p)

Surroundings == (Tick \/ Regress \/ BrokerSteps) /\ UNCHANGED <<op, ledger, transports, marker>>

\* The other processes are idle while p works.
LEMMA WorksAlone ==
    ASSUME IInv, NEW p \in Procs, lock = NoName \/ op[p] # Idle,
           NEW o, op' = [op EXCEPT ![p] = o]
    PROVE  Alone(p) /\ op'[p] = o
<1>1. op \in [Procs -> Operations]
  BY DEF IInv, TypeOK
<1>2. \A q \in Procs \ {p} : op[q] = Idle
  BY NamesAssumption DEF IInv, LockHeld
<1>. QED
  BY <1>1, <1>2 DEF Alone

LEMMA NotIdle == \A o : o.step # "idle" => o # Idle
  BY DEF Idle

LEMMA SubmitShape ==
    ASSUME IInv, NEW p \in Procs, SubmitSteps(p)
    PROVE  Works(p)
<1>1. op[p] \in Operations /\ clock \in Nat /\ regress \in Nat /\ Now = clock + regress
  BY DEF IInv, TypeOK, Now
<1>2. OperationSound(op[p])
  BY DEF IInv, OperationsSound
<1>3. ASSUME NEW c \in OrderIds, NEW cfg \in Configs, SubmitBegin(p, c, cfg) PROVE Works(p)
  <2>1. Alone(p)
    BY <1>3, WorksAlone DEF SubmitBegin, Begin
  <2>. QED
    BY <1>3, <2>1 DEF Works, Quiet, SubmitBegin, brokerVars
<1>4. ASSUME SubmitPreflight(p) PROVE Works(p)
  <2>. DEFINE o == [op[p] EXCEPT !.step = "attempt", !.ready = clock]
              e == Event("broker_order_preflight", o, clock)
  <2>1. Alone(p)
    BY <1>4, WorksAlone, NotIdle DEF SubmitPreflight, At
  <2>2. o \in Operations
    BY <1>1 DEF Operations, Steps
  <2>3. e \in Events
    BY <1>1, <2>2, EventTyped DEF EventTypes, OtherEvents
  <2>4. ledger' = Append(ledger, e) /\ e.type = "broker_order_preflight" /\ e.ts = clock
    BY <1>4 DEF SubmitPreflight, Record, Event
  <2>5. Writes(p, e)
    BY <1>4, <2>1, <2>3, <2>4 DEF Writes, SubmitPreflight, brokerVars
  <2>. HIDE DEF e
  <2>6. Notes(p, e)
    BY <1>1, <1>4, <2>4, <2>5 DEF Notes, OtherEvents
  <2>. QED
    BY <2>3, <2>6 DEF Works
<1>5. ASSUME SubmitAttempt(p) PROVE Works(p)
  <2>. DEFINE e == Event("broker_order_attempt", op[p], op[p].ready)
  <2>1. Alone(p) /\ op'[p] = [op[p] EXCEPT !.step = "recheck"]
    BY <1>5, WorksAlone, NotIdle DEF SubmitAttempt, At, Continue
  <2>2. op[p].ready \in Nat
    BY <1>1 DEF Operations
  <2>3. e \in Events
    BY <1>1, <2>2, EventTyped DEF EventTypes, UnresolvedEvents
  <2>4. /\ ledger' = Append(ledger, e) /\ e.type = Attempted(op[p].kind) /\ e.ts = op[p].ready
        /\ e.id = op[p].id /\ e.target = op[p].target /\ e.cfg = op[p].cfg
        /\ e.date = Day(op[p].ready)
    BY <1>5 DEF SubmitAttempt, Record, Event, Attempted, At
  <2>5. Writes(p, e)
    BY <1>5, <2>1, <2>3, <2>4 DEF Writes, SubmitAttempt, brokerVars
  <2>6. op[p].kind = "submit" /\ op[p].step = "attempt" /\ op[p].id \in OrderIds /\ Starting(op[p])
    BY <1>2, <1>5 DEF SubmitAttempt, At, OperationSound
  <2>. HIDE DEF e
  <2>7. Opens(p, e)
    BY <2>1, <2>4, <2>5, <2>6 DEF Opens, Mutating
  <2>. QED
    BY <2>3, <2>7 DEF Works
<1>6. ASSUME SubmitRecheck(p) PROVE Works(p)
  <2>1. Alone(p)
    BY <1>6, WorksAlone, NotIdle DEF SubmitRecheck, At, Continue
  <2>. QED
    BY <1>6, <2>1 DEF Works, Quiet, SubmitRecheck, brokerVars
<1>7. ASSUME SubmitRecheckFails(p) PROVE Works(p)
  <2>. DEFINE e == Event(Outcome(op[p].id, "rejected"), op[p], clock)
  <2>1. Alone(p) /\ op'[p] = Idle
    BY <1>7, WorksAlone, NotIdle DEF SubmitRecheckFails, At, End
  <2>2. e \in Events
    BY <1>1, EventTyped, OutcomeTyped, TypesListed
  <2>3. /\ ledger' = Append(ledger, e) /\ e.type = Outcome(e.id, "rejected")
        /\ e.id = op[p].id /\ e.ts = clock /\ e.date = Day(op[p].ready)
    BY <1>7 DEF SubmitRecheckFails, Record, Event
  <2>4. Writes(p, e)
    BY <1>7, <2>1, <2>2, <2>3 DEF Writes, SubmitRecheckFails, brokerVars
  <2>5. op[p].kind = "submit" /\ op[p].step = "recheck" /\ op[p].id \in Unresolved
    BY <1>2, <1>7 DEF SubmitRecheckFails, At, OperationSound, Underway, Unresolved, ClientIds
  <2>. HIDE DEF e
  <2>6. Decides(p, e, "rejected")
    BY <2>1, <2>3, <2>4, <2>5 DEF Decides, Grounds, Verdicts
  <2>. QED
    BY <2>2, <2>6 DEF Works, Verdicts
<1>. QED
  BY <1>3, <1>4, <1>5, <1>6, <1>7 DEF SubmitSteps

LEMMA CancelShape ==
    ASSUME IInv, NEW p \in Procs, CancelSteps(p)
    PROVE  Works(p)
<1>1. op[p] \in Operations /\ clock \in Nat
  BY DEF IInv, TypeOK
<1>2. OperationSound(op[p])
  BY DEF IInv, OperationsSound
<1>3. ASSUME NEW c \in CancelIds, NEW b \in BrokerIds, NEW cfg \in Configs,
             CancelBegin(p, c, b, cfg)
      PROVE  Works(p)
  <2>1. Alone(p)
    BY <1>3, WorksAlone DEF CancelBegin, Begin
  <2>. QED
    BY <1>3, <2>1 DEF Works, Quiet, CancelBegin, brokerVars
<1>4. ASSUME CancelCandidate(p) PROVE Works(p)
  <2>1. Alone(p)
    BY <1>4, WorksAlone, NotIdle DEF CancelCandidate, At, Continue
  <2>. QED
    BY <1>4, <2>1 DEF Works, Quiet, CancelCandidate, brokerVars
<1>5. ASSUME CancelAttempt(p) PROVE Works(p)
  <2>. DEFINE e == Event("broker_cancel_attempt", op[p], clock)
  <2>1. Alone(p) /\ op'[p] = [op[p] EXCEPT !.step = "transport"]
    BY <1>5, WorksAlone, NotIdle DEF CancelAttempt, At, Continue
  <2>2. e \in Events
    BY <1>1, EventTyped DEF EventTypes, UnresolvedEvents
  <2>3. /\ ledger' = Append(ledger, e) /\ e.type = Attempted(op[p].kind) /\ e.ts = clock
        /\ e.id = op[p].id /\ e.target = op[p].target /\ e.cfg = op[p].cfg
        /\ e.date = Day(op[p].ready)
    BY <1>5 DEF CancelAttempt, Record, Event, Attempted, At
  <2>4. Writes(p, e)
    BY <1>5, <2>1, <2>2, <2>3 DEF Writes, CancelAttempt, brokerVars
  <2>5. op[p].kind = "cancel" /\ op[p].step = "attempt" /\ op[p].id \in CancelIds /\ Starting(op[p])
    BY <1>2, <1>5 DEF CancelAttempt, At, OperationSound
  <2>. HIDE DEF e
  <2>6. Opens(p, e)
    BY <2>1, <2>3, <2>4, <2>5 DEF Opens, Mutating
  <2>. QED
    BY <2>2, <2>6 DEF Works
<1>. QED
  BY <1>3, <1>4, <1>5 DEF CancelSteps

LEMMA MutationShape ==
    ASSUME IInv, NEW p \in Procs, MutationSteps(p)
    PROVE  Works(p)
<1>1. op[p] \in Operations /\ clock \in Nat
  BY DEF IInv, TypeOK
<1>2. OperationSound(op[p])
  BY DEF IInv, OperationsSound
<1>3. ASSUME op[p].kind \in {"submit", "cancel"}, op[p].step \in {"transport", "await"}
      PROVE  op[p].id \in ClientIds /\ Underway(op[p]) /\ op[p].id \in Unresolved
  BY <1>2, <1>3 DEF OperationSound, Underway, Unresolved, ClientIds
<1>4. ASSUME Transport(p) PROVE Works(p)
  <2>1. Alone(p)
    BY <1>4, WorksAlone, NotIdle DEF Transport, At, Continue
  <2>. QED
    BY <1>3, <1>4, <2>1 DEF Works, Sends, Transport, At
<1>5. ASSUME MutationAccepted(p) PROVE Works(p)
  <2>. DEFINE o == IF op[p].kind = "submit" THEN [op[p] EXCEPT !.target = op[p].id] ELSE op[p]
              e == Event(Outcome(o.id, "accepted"), o, clock)
  <2>1. Alone(p) /\ op'[p] = Idle
    BY <1>5, WorksAlone, NotIdle DEF MutationAccepted, At, End
  <2>2. o \in Operations /\ o.id = op[p].id /\ o.ready = op[p].ready
    BY <1>1, <1>2 DEF OperationSound, Operations, BrokerIds
  <2>3. e \in Events
    BY <1>1, <2>2, EventTyped, OutcomeTyped, TypesListed
  <2>4. /\ ledger' = Append(ledger, e) /\ e.type = Outcome(e.id, "accepted")
        /\ e.id = o.id /\ e.ts = clock /\ e.date = Day(o.ready) /\ request[o.id].state = "taken"
    BY <1>5 DEF MutationAccepted, Record, Event
  <2>5. Writes(p, e)
    BY <1>5, <2>1, <2>3, <2>4 DEF Writes, MutationAccepted, brokerVars
  <2>6. Mutating(op[p]) /\ op[p].step = "await" /\ op[p].id \in Unresolved
    BY <1>3, <1>5 DEF MutationAccepted, At, Mutating
  <2>. HIDE DEF e, o
  <2>7. Decides(p, e, "accepted")
    BY <2>1, <2>2, <2>4, <2>5, <2>6 DEF Decides, Grounds, Verdicts
  <2>. QED
    BY <2>3, <2>7 DEF Works, Verdicts
<1>6. ASSUME MutationUnknown(p) PROVE Works(p)
  <2>. DEFINE e == Event(Unknown(op[p].kind), op[p], clock)
  <2>1. Alone(p) /\ op'[p] = Idle
    BY <1>6, WorksAlone, NotIdle DEF MutationUnknown, At, End
  <2>2. e \in Events
    BY <1>1, EventTyped, TypesListed
  <2>3. /\ ledger' = Append(ledger, e) /\ e.type \in UnknownEvents
        /\ e.id = op[p].id /\ e.ts = clock
    BY <1>6, TypesListed DEF MutationUnknown, Record, Event
  <2>4. Writes(p, e)
    BY <1>6, <2>1, <2>2, <2>3 DEF Writes, MutationUnknown, brokerVars
  <2>5. Mutating(op[p]) /\ op[p].step = "await" /\ op[p].id \in Unresolved
    BY <1>3, <1>6 DEF MutationUnknown, At, Mutating
  <2>. HIDE DEF e
  <2>6. Doubts(p, e)
    BY <2>1, <2>3, <2>4, <2>5 DEF Doubts
  <2>. QED
    BY <2>2, <2>6 DEF Works
<1>. QED
  BY <1>4, <1>5, <1>6 DEF MutationSteps

LEMMA RecoveryShape ==
    ASSUME IInv, NEW p \in Procs, RecoverySteps(p)
    PROVE  Works(p)
<1>1. op[p] \in Operations /\ clock \in Nat /\ regress \in Nat /\ Now = clock + regress
  BY DEF IInv, TypeOK, Now
<1>2. OperationSound(op[p])
  BY DEF IInv, OperationsSound
<1>3. ASSUME NEW cfg \in Configs, NEW readable \in BOOLEAN, ReconcileRead(p, cfg, readable)
      PROVE  Works(p)
  <2>1. Alone(p)
    BY <1>3, WorksAlone DEF ReconcileRead, Begin
  <2>. QED
    BY <1>3, <2>1 DEF Works, Quiet, ReconcileRead, brokerVars
<1>4. ASSUME ReconcileRecord(p) PROVE Works(p)
  <2>. DEFINE o == [op[p] EXCEPT !.items = {Observed(item) : item \in op[p].items}]
              e == Event("broker_reconciliation", o, clock)
  <2>1. Alone(p)
    BY <1>4, WorksAlone, NotIdle DEF ReconcileRecord, At, End
  <2>2. o \in Operations
    <3>1. {Observed(item) : item \in op[p].items} \in SUBSET Items
      BY <1>1, ObservedTyped DEF Operations, IInv
    <3>. QED
      BY <1>1, <3>1 DEF Operations
  <2>3. e \in Events
    BY <1>1, <2>2, EventTyped, TypesListed DEF OtherEvents
  <2>4. /\ ledger' = Append(ledger, e) /\ e.type = "broker_reconciliation" /\ e.ts = clock
        /\ e.items = o.items
    BY <1>4 DEF ReconcileRecord, Record, Event
  <2>5. o.items = {Observed(item) : item \in op[p].items}
    BY <1>1 DEF Operations
  <2>6. Writes(p, e)
    BY <1>4, <2>1, <2>3, <2>4 DEF Writes, ReconcileRecord, brokerVars
  <2>. HIDE DEF e, o
  <2>7. Notes(p, e)
    BY <1>1, <1>4, <2>4, <2>5, <2>6 DEF Notes, OtherEvents
  <2>. QED
    BY <2>3, <2>7 DEF Works
<1>5. ASSUME NEW c \in ClientIds, NEW verdict \in Verdicts, NEW b \in BrokerIds,
             ResolveBegin(p, c, verdict, b)
      PROVE  Works(p)
  <2>1. Alone(p)
    BY <1>5, WorksAlone DEF ResolveBegin, Begin
  <2>. QED
    BY <1>5, <2>1 DEF Works, Quiet, ResolveBegin, brokerVars
<1>6. ASSUME ResolveFreshRead(p) PROVE Works(p)
  <2>1. op' = [op EXCEPT ![p] = [op[p] EXCEPT !.step = "record",
                                          !.items = {Evidence(op[p].id, op[p].cfg, TRUE)}]]
    <3>1. op \in [Procs -> Operations]
      BY DEF IInv, TypeOK
    <3>. QED
      BY <1>6, <3>1 DEF ResolveFreshRead, Operations
  <2>2. Alone(p)
    BY <1>6, <2>1, WorksAlone, NotIdle DEF ResolveFreshRead, At
  <2>. QED
    BY <1>6, <2>2 DEF Works, Quiet, ResolveFreshRead, brokerVars
<1>7. ASSUME ResolveRecord(p) PROVE Works(p)
  <2>. DEFINE o == [op[p] EXCEPT !.items = {}]
              e == Event(Outcome(op[p].id, op[p].verdict), o, clock)
  <2>1. Alone(p) /\ op'[p] = Idle
    BY <1>7, WorksAlone, NotIdle DEF ResolveRecord, At, End
  <2>2. o \in Operations /\ o.id = op[p].id /\ o.ready = op[p].ready
    BY <1>1 DEF Operations
  <2>3. e \in Events
    BY <1>1, <2>2, EventTyped, OutcomeTyped, TypesListed
  <2>4. /\ ledger' = Append(ledger, e) /\ e.type = Outcome(e.id, op[p].verdict)
        /\ e.id = op[p].id /\ e.ts = clock /\ e.date = Day(op[p].ready)
    BY <1>7, <2>2 DEF ResolveRecord, Record, Event
  <2>5. Writes(p, e)
    BY <1>7, <2>1, <2>3, <2>4 DEF Writes, ResolveRecord, brokerVars
  <2>6. op[p].id \in Unresolved /\ op[p].verdict \in Verdicts
    BY <1>2, <1>7 DEF ResolveRecord, At, OperationSound
  <2>7. Grounds(p, op[p].verdict)
    BY <1>7 DEF ResolveRecord, At, Grounds
  <2>. HIDE DEF e, o
  <2>8. Decides(p, e, op[p].verdict)
    BY <2>1, <2>4, <2>5, <2>6, <2>7 DEF Decides
  <2>. QED
    BY <2>3, <2>6, <2>8 DEF Works
<1>. QED
  BY <1>3, <1>4, <1>5, <1>6, <1>7 DEF RecoverySteps

LEMMA KillSwitchShape ==
    ASSUME IInv, NEW p \in Procs, KillSwitchSteps(p)
    PROVE  Works(p)
<1>1. op[p] \in Operations /\ clock \in Nat /\ regress \in Nat /\ Now = clock + regress
  BY DEF IInv, TypeOK, Now
<1>2. ASSUME EngageCreate(p) PROVE Works(p)
  <2>1. Alone(p)
    BY <1>2, WorksAlone DEF EngageCreate, Begin
  <2>. QED
    BY <1>2, <2>1 DEF Works, Quiet, EngageCreate, brokerVars
<1>3. ASSUME EngageWrite(p) PROVE Works(p)
  <2>1. Alone(p)
    BY <1>3, WorksAlone, NotIdle DEF EngageWrite, At, Continue
  <2>. QED
    BY <1>3, <2>1 DEF Works, Quiet, EngageWrite, brokerVars
<1>4. ASSUME EngageRecord(p) PROVE Works(p)
  <2>. DEFINE e == Event("broker_kill_switch_engaged", op[p], op[p].ready)
  <2>1. Alone(p)
    BY <1>4, WorksAlone, NotIdle DEF EngageRecord, At, End
  <2>2. op[p].ready \in Nat
    BY <1>1 DEF Operations
  <2>3. e \in Events
    BY <1>1, <2>2, EventTyped, TypesListed DEF OtherEvents
  <2>4. ledger' = Append(ledger, e) /\ e.type = "broker_kill_switch_engaged" /\ e.ts = op[p].ready
    BY <1>4 DEF EngageRecord, Record, Event
  <2>5. Writes(p, e)
    BY <1>4, <2>1, <2>3, <2>4 DEF Writes, EngageRecord, brokerVars
  <2>. HIDE DEF e
  <2>6. Notes(p, e)
    BY <1>1, <1>4, <2>4, <2>5 DEF Notes, OtherEvents
  <2>. QED
    BY <2>3, <2>6 DEF Works
<1>5. ASSUME NEW nonce \in 1..markers, ReleaseBegin(p, nonce) PROVE Works(p)
  <2>1. Alone(p)
    BY <1>5, WorksAlone DEF ReleaseBegin, Begin
  <2>. QED
    BY <1>5, <2>1 DEF Works, Quiet, ReleaseBegin, brokerVars
<1>6. ASSUME ReleaseRecord(p) PROVE Works(p)
  <2>. DEFINE e == Event("broker_kill_switch_release_authorized", op[p], clock)
  <2>1. Alone(p)
    BY <1>6, WorksAlone, NotIdle DEF ReleaseRecord, At, Continue
  <2>3. e \in Events
    BY <1>1, EventTyped, TypesListed DEF OtherEvents
  <2>4. /\ ledger' = Append(ledger, e) /\ e.type = "broker_kill_switch_release_authorized"
        /\ e.ts = clock /\ e.nonce = op[p].nonce
    BY <1>6 DEF ReleaseRecord, Record, Event
  <2>5. Writes(p, e)
    BY <1>6, <2>1, <2>3, <2>4 DEF Writes, ReleaseRecord, brokerVars
  <2>. HIDE DEF e
  <2>6. Notes(p, e)
    BY <1>1, <1>6, <2>4, <2>5 DEF Notes, OtherEvents
  <2>. QED
    BY <2>3, <2>6 DEF Works
<1>7. ASSUME ReleaseUnlink(p) PROVE Works(p)
  <2>1. Alone(p)
    BY <1>7, WorksAlone, NotIdle DEF ReleaseUnlink, At, End
  <2>. QED
    BY <1>7, <2>1 DEF Works, Quiet, ReleaseUnlink, brokerVars
<1>. QED
  BY <1>2, <1>3, <1>4, <1>5, <1>6, <1>7 DEF KillSwitchSteps

LEMMA FailuresShape ==
    ASSUME IInv, NEW p \in Procs, Failures(p)
    PROVE  Works(p)
<1>1. op[p] # Idle
  BY DEF Failures, Stop, StopInAppend, Appending, Idle
<1>2. Alone(p) /\ op'[p] = Idle
  BY <1>1, WorksAlone DEF Failures, Stop, StopInAppend, End
<1>. QED
  BY <1>1, <1>2 DEF Works, Quiet, Failures, Stop, StopInAppend, stateVars, brokerVars

\* Every step is the work of one process or of the surroundings.
LEMMA StepShape ==
    ASSUME IInv, Next
    PROVE  (\E p \in Procs : Works(p)) \/ Surroundings
<1>1. ASSUME NEW p \in Procs,
             \/ SubmitSteps(p) \/ CancelSteps(p) \/ MutationSteps(p)
             \/ RecoverySteps(p) \/ KillSwitchSteps(p) \/ Failures(p)
      PROVE  Works(p)
  BY <1>1, SubmitShape, CancelShape, MutationShape, RecoveryShape, KillSwitchShape, FailuresShape
<1>2. ASSUME Tick \/ Regress \/ BrokerSteps PROVE Surroundings
  BY <1>2
  DEF Surroundings, Tick, Regress, BrokerSteps, BrokerTakesOrder, BrokerTakesCancel,
      BrokerRefuses, BrokerCancels, BrokerKeeps, BrokerFills, ForeignOrder, stateVars
<1>. QED
  BY <1>1, <1>2 DEF Next

-----------------------------------------------------------------------------
(* What each of them leaves of the attempts, outcomes and unresolved ids *)

\* The position of the next event.
NewAt == Len(ledger) + 1

LEMMA LedgerGrows ==
    ASSUME IInv, NEW e \in Events, ledger' = Append(ledger, e)
    PROVE  /\ DOMAIN ledger' = DOMAIN ledger \cup {NewAt} /\ NewAt \notin DOMAIN ledger
           /\ \A i \in DOMAIN ledger : ledger'[i] = ledger[i] /\ ledger[i] \in Events
           /\ ledger'[NewAt] = e
           /\ \A c : AttemptsOf(c)' =
                 AttemptsOf(c) \cup {i \in {NewAt} : e.id = c /\ e.type \in AttemptEvents}
           /\ \A c : OutcomesOf(c)' =
                 OutcomesOf(c) \cup {i \in {NewAt} : e.id = c /\ e.type \in ResolvedEvents}
<1>1. ledger \in Seq(Events)
  BY DEF IInv, TypeOK
<1>. QED
  BY <1>1, AppendKeeps, EventsOfAppend DEF AttemptsOf, OutcomesOf, NewAt

LEMMA NotesLeave ==
    ASSUME IInv, NEW p \in Procs, NEW e \in Events, Notes(p, e)
    PROVE  /\ Unresolved' = Unresolved
           /\ \A c : AttemptsOf(c)' = AttemptsOf(c) /\ OutcomesOf(c)' = OutcomesOf(c)
<1>1. ledger \in Seq(Events) /\ ledger' = Append(ledger, e)
  BY DEF IInv, TypeOK, Notes, Writes
<1>2. e.type \notin UnresolvedEvents \cup ResolvedEvents /\ e.type \notin AttemptEvents
  BY TypesListed DEF Notes
<1>3. Unresolved' = Unresolved
  BY <1>1, <1>2, UnresolvedKept DEF Unresolved
<1>g. \A c :
        /\ AttemptsOf(c)' =
             AttemptsOf(c) \cup {i \in {NewAt} : e.id = c /\ e.type \in AttemptEvents}
        /\ OutcomesOf(c)' =
             OutcomesOf(c) \cup {i \in {NewAt} : e.id = c /\ e.type \in ResolvedEvents}
  BY <1>1, LedgerGrows
<1>. QED
  BY <1>1, <1>2, <1>3, <1>g

LEMMA OpensLeave ==
    ASSUME IInv, NEW p \in Procs, NEW e \in Events, Opens(p, e)
    PROVE  /\ e.id \in ClientIds /\ Unresolved' = Unresolved \cup {e.id}
           /\ AttemptsOf(e.id) = {} /\ OutcomesOf(e.id) = {} /\ e.id \notin Unresolved
           /\ AttemptsOf(e.id)' = {NewAt}
           /\ \A c : c # e.id => AttemptsOf(c)' = AttemptsOf(c)
           /\ \A c : OutcomesOf(c)' = OutcomesOf(c)
<1>1. ledger \in Seq(Events) /\ ledger' = Append(ledger, e)
  BY DEF IInv, TypeOK, Opens, Writes
<1>2. e.type \in AttemptEvents /\ e.type \in UnresolvedEvents /\ e.type \notin ResolvedEvents
  BY TypesListed DEF Opens
<1>3. EventsOf(ledger, e.id, UnresolvedEvents \cup ResolvedEvents) = {}
  BY DEF Opens, Starting
<1>4. AttemptsOf(e.id) = {} /\ OutcomesOf(e.id) = {} /\ ~IsUnresolved(ledger, e.id)
  BY <1>3, TypesListed DEF AttemptsOf, OutcomesOf, EventsOf, IsUnresolved
<1>5. e.id \in ClientIds
  BY DEF Opens, ClientIds
<1>6. IsUnresolved(ledger', e.id)
  BY <1>1, <1>2, UnresolvedMade
<1>7. \A c : c # e.id => (IsUnresolved(ledger', c) <=> IsUnresolved(ledger, c))
  BY <1>1, UnresolvedKept
<1>8. Unresolved' = Unresolved \cup {e.id} /\ e.id \notin Unresolved
  BY <1>4, <1>5, <1>6, <1>7 DEF Unresolved
<1>g. \A c :
        /\ AttemptsOf(c)' =
             AttemptsOf(c) \cup {i \in {NewAt} : e.id = c /\ e.type \in AttemptEvents}
        /\ OutcomesOf(c)' =
             OutcomesOf(c) \cup {i \in {NewAt} : e.id = c /\ e.type \in ResolvedEvents}
  BY <1>1, LedgerGrows
<1>. QED
  BY <1>1, <1>2, <1>4, <1>5, <1>8, <1>g

LEMMA DoubtsLeave ==
    ASSUME IInv, NEW p \in Procs, NEW e \in Events, Doubts(p, e)
    PROVE  /\ Unresolved' = Unresolved
           /\ \A c : AttemptsOf(c)' = AttemptsOf(c) /\ OutcomesOf(c)' = OutcomesOf(c)
<1>1. ledger \in Seq(Events) /\ ledger' = Append(ledger, e)
  BY DEF IInv, TypeOK, Doubts, Writes
<1>2. e.type \in UnresolvedEvents /\ e.type \notin ResolvedEvents /\ e.type \notin AttemptEvents
  BY DEF Doubts, UnknownEvents, UnresolvedEvents, ResolvedEvents, AttemptEvents
<1>3. IsUnresolved(ledger', e.id)
  BY <1>1, <1>2, UnresolvedMade
<1>4. \A c : c # e.id => (IsUnresolved(ledger', c) <=> IsUnresolved(ledger, c))
  BY <1>1, UnresolvedKept
<1>5. Unresolved' = Unresolved
  BY <1>3, <1>4 DEF Unresolved, Doubts
<1>g. \A c :
        /\ AttemptsOf(c)' =
             AttemptsOf(c) \cup {i \in {NewAt} : e.id = c /\ e.type \in AttemptEvents}
        /\ OutcomesOf(c)' =
             OutcomesOf(c) \cup {i \in {NewAt} : e.id = c /\ e.type \in ResolvedEvents}
  BY <1>1, LedgerGrows
<1>. QED
  BY <1>1, <1>2, <1>5, <1>g

LEMMA DecidesLeave ==
    ASSUME IInv, NEW p \in Procs, NEW e \in Events, NEW verdict, Decides(p, e, verdict)
    PROVE  /\ Unresolved' = Unresolved \ {e.id}
           /\ \A c : AttemptsOf(c)' = AttemptsOf(c)
           /\ OutcomesOf(e.id)' = OutcomesOf(e.id) \cup {NewAt}
           /\ \A c : c # e.id => OutcomesOf(c)' = OutcomesOf(c)
<1>1. ledger \in Seq(Events) /\ ledger' = Append(ledger, e)
  BY DEF IInv, TypeOK, Decides, Writes
<1>2. e.type \in ResolvedEvents /\ e.type \notin UnresolvedEvents /\ e.type \notin AttemptEvents
  BY OutcomeTyped, TypesListed DEF Decides
<1>3. ~IsUnresolved(ledger', e.id)
  BY <1>1, <1>2, UnresolvedEnded
<1>4. \A c : c # e.id => (IsUnresolved(ledger', c) <=> IsUnresolved(ledger, c))
  BY <1>1, UnresolvedKept
<1>5. Unresolved' = Unresolved \ {e.id}
  BY <1>3, <1>4 DEF Unresolved
<1>g. \A c :
        /\ AttemptsOf(c)' =
             AttemptsOf(c) \cup {i \in {NewAt} : e.id = c /\ e.type \in AttemptEvents}
        /\ OutcomesOf(c)' =
             OutcomesOf(c) \cup {i \in {NewAt} : e.id = c /\ e.type \in ResolvedEvents}
  BY <1>1, LedgerGrows
<1>. QED
  BY <1>1, <1>2, <1>5, <1>g

\* The attempt of an unresolved id.
LEMMA AttemptThere ==
    ASSUME IInv, NEW c \in Unresolved
    PROVE  /\ AttemptOf(c) \in AttemptsOf(c) /\ AttemptsOf(c) = {AttemptOf(c)}
           /\ AttemptOf(c) \in DOMAIN ledger /\ ledger[AttemptOf(c)] \in Events
           /\ c \in ClientIds
<1>1. TypeOK /\ LedgerSound /\ c \in ClientIds
  BY DEF IInv, Unresolved
<1>2. AttemptOf(c) \in AttemptsOf(c) /\ ledger[AttemptOf(c)] \in Events
  BY <1>1, AttemptFound DEF AttemptsOf
<1>3. \A i, j \in AttemptsOf(c) : i = j
  BY <1>1 DEF LedgerSound, AttemptsOf
<1>. QED
  BY <1>1, <1>2, <1>3 DEF AttemptsOf, EventsOf

-----------------------------------------------------------------------------
(* An id is decided once, of its own kind and after its attempt *)

DecidedOnce ==
    \A c \in ClientIds :
        /\ OutcomesOf(c) # {} => AttemptsOf(c) # {} /\ c \notin Unresolved
        /\ \A i, j \in OutcomesOf(c) : i = j
        /\ \A i \in OutcomesOf(c) :
              ledger[i].type \in {Outcome(c, "accepted"), Outcome(c, "rejected")}

\* A step that adds no outcome and keeps the attempts; it may open an id without outcome.
LEMMA DecidedKept ==
    ASSUME DecidedOnce, \A i \in DOMAIN ledger : i \in DOMAIN ledger' /\ ledger'[i] = ledger[i],
           \A c \in ClientIds :
              /\ OutcomesOf(c)' = OutcomesOf(c) /\ AttemptsOf(c) \subseteq AttemptsOf(c)'
              /\ c \in Unresolved' => c \in Unresolved \/ OutcomesOf(c) = {}
    PROVE  DecidedOnce'
<1>1. \A c \in ClientIds : \A i \in OutcomesOf(c) : ledger'[i] = ledger[i]
  BY DEF OutcomesOf, EventsOf
<1>. QED
  BY <1>1 DEF DecidedOnce, Outcome

LEMMA DecidedStep ==
    ASSUME IInv, DecidedOnce, [Next]_vars
    PROVE  DecidedOnce'
<1>1. ASSUME NEW p \in Procs, NEW e \in Events, Notes(p, e) \/ Doubts(p, e) \/ Opens(p, e)
      PROVE  DecidedOnce'
  <2>1. ledger' = Append(ledger, e)
    BY <1>1 DEF Notes, Doubts, Opens, Writes
  <2>2. \A i \in DOMAIN ledger : i \in DOMAIN ledger' /\ ledger'[i] = ledger[i]
    BY <2>1, LedgerGrows
  <2>3. \A c \in ClientIds :
              /\ OutcomesOf(c)' = OutcomesOf(c) /\ AttemptsOf(c) \subseteq AttemptsOf(c)'
              /\ c \in Unresolved' => c \in Unresolved \/ OutcomesOf(c) = {}
    <3>1. CASE Notes(p, e)
      BY <3>1, NotesLeave
    <3>2. CASE Doubts(p, e)
      BY <3>2, DoubtsLeave
    <3>3. CASE Opens(p, e)
      BY <3>3, OpensLeave
    <3>. QED
      BY <1>1, <3>1, <3>2, <3>3
  <2>. QED
    BY <2>2, <2>3, DecidedKept
<1>2. ASSUME NEW p \in Procs, NEW e \in Events, NEW verdict \in Verdicts, Decides(p, e, verdict)
      PROVE  DecidedOnce'
  <2>1. ledger' = Append(ledger, e) /\ e.id \in Unresolved /\ e.type = Outcome(e.id, verdict)
    BY <1>2 DEF Decides, Writes
  <2>2. /\ \A i \in DOMAIN ledger : i \in DOMAIN ledger' /\ ledger'[i] = ledger[i]
        /\ ledger'[NewAt] = e
    BY <2>1, LedgerGrows
  <2>3. OutcomesOf(e.id) = {} /\ AttemptsOf(e.id) # {}
    BY <2>1, AttemptThere DEF DecidedOnce, Unresolved
  <2>4. /\ Unresolved' = Unresolved \ {e.id} /\ OutcomesOf(e.id)' = {NewAt}
        /\ \A c : AttemptsOf(c)' = AttemptsOf(c) /\ (c # e.id => OutcomesOf(c)' = OutcomesOf(c))
    BY <1>2, <2>3, DecidesLeave
  <2>5. \A c \in ClientIds : \A i \in OutcomesOf(c) : ledger'[i] = ledger[i]
    BY <2>2 DEF OutcomesOf, EventsOf
  <2>6. ASSUME NEW c \in ClientIds
        PROVE  /\ OutcomesOf(c)' # {} => AttemptsOf(c)' # {} /\ c \notin Unresolved'
               /\ \A i, j \in OutcomesOf(c)' : i = j
               /\ \A i \in OutcomesOf(c)' :
                    ledger'[i].type \in {Outcome(c, "accepted"), Outcome(c, "rejected")}
    <3>1. CASE c = e.id
      BY <2>1, <2>2, <2>3, <2>4, <3>1 DEF Verdicts
    <3>2. CASE c # e.id
      BY <2>4, <2>5, <3>2 DEF DecidedOnce
    <3>. QED
      BY <3>1, <3>2
  <2>. QED
    BY <2>6 DEF DecidedOnce, Outcome
<1>3. ASSUME UNCHANGED ledger PROVE DecidedOnce'
  BY <1>3 DEF DecidedOnce, OutcomesOf, AttemptsOf, Unresolved, Outcome
<1>4. CASE Next
  BY <1>1, <1>2, <1>3, <1>4, StepShape DEF Works, Sends, Transport, Quiet, Surroundings
<1>. QED
  BY <1>3, <1>4 DEF vars

-----------------------------------------------------------------------------
(* What p's operation becomes *)

\* Each step of p that neither appends nor sends, with what it makes of op[p].
SubmitBegun(p, c, cfg) ==
    /\ SubmitBegin(p, c, cfg)
    /\ op'[p] = [Idle EXCEPT !.kind = "submit", !.step = "preflight", !.id = c,
                            !.cfg = cfg, !.started = Now]
SubmitRechecked(p) == SubmitRecheck(p) /\ op'[p] = [op[p] EXCEPT !.step = "transport"]
CancelBegun(p, c, b, cfg) ==
    /\ CancelBegin(p, c, b, cfg)
    /\ op'[p] = [Idle EXCEPT !.kind = "cancel", !.step = "preflight", !.id = c,
                            !.cfg = cfg, !.target = b]
CandidateFound(p) == CancelCandidate(p) /\ op'[p] = [op[p] EXCEPT !.step = "attempt"]
OrdersRead(p, cfg, readable) ==
    /\ ReconcileRead(p, cfg, readable)
    /\ op'[p] = [Idle EXCEPT !.kind = "reconcile", !.step = "record", !.cfg = cfg,
                            !.items = {Evidence(c, cfg, readable) : c \in Unresolved}]
ResolveBegun(p, c, verdict, b) ==
    /\ ResolveBegin(p, c, verdict, b)
    /\ op'[p] = [Idle EXCEPT !.kind = "resolve", !.step = "fresh", !.id = c,
                            !.cfg = ledger[AttemptOf(c)].cfg, !.verdict = verdict,
                            !.target = IF verdict = "accepted" THEN b ELSE NoName,
                            !.ready = ledger[AttemptOf(c)].ts]
FreshlyRead(p) ==
    /\ ResolveFreshRead(p)
    /\ op'[p] = [op[p] EXCEPT !.step = "record",
                             !.items = {Evidence(op[p].id, op[p].cfg, TRUE)}]
EngageBegun(p) ==
    /\ EngageCreate(p)
    /\ op'[p] = [Idle EXCEPT !.kind = "engage", !.step = "write",
                            !.ready = clock, !.nonce = markers + 1]
EngageWritten(p) == EngageWrite(p) /\ op'[p] = [op[p] EXCEPT !.step = "record"]
ReleaseBegun(p, nonce) ==
    /\ ReleaseBegin(p, nonce)
    /\ op'[p] = [Idle EXCEPT !.kind = "release", !.step = "record", !.nonce = nonce]
Ended(p) == op'[p] = Idle /\ (ReleaseUnlink(p) \/ UNCHANGED marker)

LEMMA QuietBecomes ==
    ASSUME IInv, NEW p \in Procs, Quiet(p)
    PROVE  \/ \E c \in OrderIds, cfg \in Configs : SubmitBegun(p, c, cfg)
           \/ SubmitRechecked(p)
           \/ \E c \in CancelIds, b \in BrokerIds, cfg \in Configs : CancelBegun(p, c, b, cfg)
           \/ CandidateFound(p)
           \/ \E cfg \in Configs, readable \in BOOLEAN : OrdersRead(p, cfg, readable)
           \/ \E c \in ClientIds, verdict \in Verdicts, b \in BrokerIds :
                 ResolveBegun(p, c, verdict, b)
           \/ FreshlyRead(p) \/ EngageBegun(p) \/ EngageWritten(p)
           \/ \E nonce \in 1..markers : ReleaseBegun(p, nonce)
           \/ Ended(p)
<1>1. op \in [Procs -> Operations]
  BY DEF IInv, TypeOK
<1>2. \A o : op' = [op EXCEPT ![p] = o] => op'[p] = o
  BY <1>1
<1>3. \A c, cfg : SubmitBegin(p, c, cfg) => SubmitBegun(p, c, cfg)
  BY <1>2 DEF SubmitBegin, Begin, SubmitBegun
<1>4. SubmitRecheck(p) => SubmitRechecked(p)
  BY <1>2 DEF SubmitRecheck, Continue, SubmitRechecked
<1>5. \A c, b, cfg : CancelBegin(p, c, b, cfg) => CancelBegun(p, c, b, cfg)
  BY <1>2 DEF CancelBegin, Begin, CancelBegun
<1>6. CancelCandidate(p) => CandidateFound(p)
  BY <1>2 DEF CancelCandidate, Continue, CandidateFound
<1>7. \A cfg, readable : ReconcileRead(p, cfg, readable) => OrdersRead(p, cfg, readable)
  BY <1>2 DEF ReconcileRead, Begin, OrdersRead
<1>8. ASSUME NEW c, NEW verdict, NEW b, ResolveBegin(p, c, verdict, b)
      PROVE  ResolveBegun(p, c, verdict, b)
  <2>. DEFINE o == [Idle EXCEPT !.kind = "resolve", !.step = "fresh", !.id = c,
                            !.cfg = ledger[AttemptOf(c)].cfg, !.verdict = verdict,
                            !.target = IF verdict = "accepted" THEN b ELSE NoName,
                            !.ready = ledger[AttemptOf(c)].ts]
  <2>1. Begin(p, o)
    BY <1>8 DEF ResolveBegin
  <2>2. op'[p] = o
    <3>. HIDE DEF o
    <3>. QED
      BY <1>2, <2>1 DEF Begin
  <2>. QED
    BY <1>8, <2>2 DEF ResolveBegun
<1>9. ResolveFreshRead(p) => FreshlyRead(p)
  BY <1>1 DEF ResolveFreshRead, Operations, FreshlyRead
<1>10. EngageCreate(p) => EngageBegun(p)
  BY <1>2 DEF EngageCreate, Begin, EngageBegun
<1>11. EngageWrite(p) => EngageWritten(p)
  BY <1>2 DEF EngageWrite, Continue, EngageWritten
<1>12. \A nonce : ReleaseBegin(p, nonce) => ReleaseBegun(p, nonce)
  BY <1>2 DEF ReleaseBegin, Begin, ReleaseBegun
<1>13. ReleaseUnlink(p) => Ended(p)
  BY <1>2 DEF ReleaseUnlink, End, Ended
<1>14. op'[p] = Idle /\ UNCHANGED marker => Ended(p)
  BY DEF Ended
<1>. QED
  BY <1>3, <1>4, <1>5, <1>6, <1>7, <1>8, <1>9, <1>10, <1>11, <1>12, <1>13, <1>14 DEF Quiet

\* The fields of an operation that begins.
LEMMA BegunFields ==
    ASSUME NEW p
    PROVE  /\ \A c, cfg : SubmitBegun(p, c, cfg) =>
                 /\ op'[p].kind = "submit" /\ op'[p].step = "preflight" /\ op'[p].id = c
                 /\ op'[p].cfg = cfg /\ op'[p].started = Now /\ op'[p].target = NoName
           /\ \A c, b, cfg : CancelBegun(p, c, b, cfg) =>
                 /\ op'[p].kind = "cancel" /\ op'[p].step = "preflight" /\ op'[p].id = c
                 /\ op'[p].target = b
           /\ \A cfg, readable : OrdersRead(p, cfg, readable) =>
                 /\ op'[p].kind = "reconcile" /\ op'[p].step = "record"
                 /\ op'[p].items = {Evidence(c, cfg, readable) : c \in Unresolved}
           /\ \A c, verdict, b : ResolveBegun(p, c, verdict, b) =>
                 /\ op'[p].kind = "resolve" /\ op'[p].step = "fresh" /\ op'[p].id = c
                 /\ op'[p].cfg = ledger[AttemptOf(c)].cfg /\ op'[p].verdict = verdict
           /\ EngageBegun(p) =>
                 /\ op'[p].kind = "engage" /\ op'[p].step = "write" /\ op'[p].ready = clock
                 /\ op'[p].nonce = markers + 1
           /\ \A nonce : ReleaseBegun(p, nonce) =>
                 op'[p].kind = "release" /\ op'[p].step = "record" /\ op'[p].nonce = nonce
           /\ Ended(p) => op'[p].kind = "none" /\ op'[p].step = "idle"
<1>. USE DEF Idle
<1>1. ASSUME NEW c, NEW cfg, SubmitBegun(p, c, cfg)
      PROVE  /\ op'[p].kind = "submit" /\ op'[p].step = "preflight" /\ op'[p].id = c
             /\ op'[p].cfg = cfg /\ op'[p].started = Now /\ op'[p].target = NoName
  BY <1>1 DEF SubmitBegun
<1>2. ASSUME NEW c, NEW b, NEW cfg, CancelBegun(p, c, b, cfg)
      PROVE  /\ op'[p].kind = "cancel" /\ op'[p].step = "preflight" /\ op'[p].id = c
             /\ op'[p].target = b
  BY <1>2 DEF CancelBegun
<1>3. ASSUME NEW cfg, NEW readable, OrdersRead(p, cfg, readable)
      PROVE  /\ op'[p].kind = "reconcile" /\ op'[p].step = "record"
             /\ op'[p].items = {Evidence(c, cfg, readable) : c \in Unresolved}
  BY <1>3 DEF OrdersRead
<1>4. ASSUME NEW c, NEW verdict, NEW b, ResolveBegun(p, c, verdict, b)
      PROVE  /\ op'[p].kind = "resolve" /\ op'[p].step = "fresh" /\ op'[p].id = c
             /\ op'[p].cfg = ledger[AttemptOf(c)].cfg /\ op'[p].verdict = verdict
  BY <1>4 DEF ResolveBegun
<1>5. ASSUME EngageBegun(p)
      PROVE  /\ op'[p].kind = "engage" /\ op'[p].step = "write" /\ op'[p].ready = clock
             /\ op'[p].nonce = markers + 1
  BY <1>5 DEF EngageBegun
<1>6. ASSUME NEW nonce, ReleaseBegun(p, nonce)
      PROVE  op'[p].kind = "release" /\ op'[p].step = "record" /\ op'[p].nonce = nonce
  BY <1>6 DEF ReleaseBegun
<1>7. ASSUME Ended(p) PROVE op'[p].kind = "none" /\ op'[p].step = "idle"
  BY <1>7 DEF Ended
<1>. QED
  BY <1>1, <1>2, <1>3, <1>4, <1>5, <1>6, <1>7

\* The fields of one that goes on.
Keeps(p) ==
    /\ op'[p].kind = op[p].kind /\ op'[p].id = op[p].id /\ op'[p].cfg = op[p].cfg
    /\ op'[p].started = op[p].started /\ op'[p].target = op[p].target
    /\ op'[p].nonce = op[p].nonce /\ op'[p].verdict = op[p].verdict

LEMMA GoneFields ==
    ASSUME IInv, NEW p \in Procs
    PROVE  /\ SubmitRechecked(p) => Keeps(p) /\ op'[p].ready = op[p].ready
                 /\ op'[p].kind = "submit" /\ op[p].step = "recheck" /\ op'[p].step = "transport"
           /\ CandidateFound(p) => Keeps(p)
                 /\ op'[p].kind = "cancel" /\ op[p].step = "preflight" /\ op'[p].step = "attempt"
           /\ FreshlyRead(p) => Keeps(p)
                 /\ op'[p].kind = "resolve" /\ op[p].step = "fresh" /\ op'[p].step = "record"
                 /\ op'[p].items = {Evidence(op[p].id, op[p].cfg, TRUE)}
           /\ EngageWritten(p) => Keeps(p) /\ op'[p].ready = op[p].ready
                 /\ op'[p].kind = "engage" /\ op[p].step = "write" /\ op'[p].step = "record"
<1>1. op[p] \in Operations
  BY DEF IInv, TypeOK
<1>. USE DEF Keeps, Operations, At
<1>2. SubmitRechecked(p) => Keeps(p) /\ op'[p].ready = op[p].ready
                 /\ op'[p].kind = "submit" /\ op[p].step = "recheck" /\ op'[p].step = "transport"
  BY <1>1 DEF SubmitRechecked, SubmitRecheck
<1>3. CandidateFound(p) => Keeps(p)
                 /\ op'[p].kind = "cancel" /\ op[p].step = "preflight" /\ op'[p].step = "attempt"
  BY <1>1 DEF CandidateFound, CancelCandidate
<1>4. FreshlyRead(p) => Keeps(p)
                 /\ op'[p].kind = "resolve" /\ op[p].step = "fresh" /\ op'[p].step = "record"
                 /\ op'[p].items = {Evidence(op[p].id, op[p].cfg, TRUE)}
  BY <1>1 DEF FreshlyRead, ResolveFreshRead
<1>5. EngageWritten(p) => Keeps(p) /\ op'[p].ready = op[p].ready
                 /\ op'[p].kind = "engage" /\ op[p].step = "write" /\ op'[p].step = "record"
  BY <1>1 DEF EngageWritten, EngageWrite
<1>. QED
  BY <1>2, <1>3, <1>4, <1>5

\* In a step that appends an event.
LEMMA WritesBecome ==
    ASSUME IInv, NEW p \in Procs, NEW e
    PROVE  /\ Notes(p, e) =>
                \/ /\ SubmitPreflight(p)
                   /\ op'[p] = [op[p] EXCEPT !.step = "attempt", !.ready = clock]
                \/ ReconcileRecord(p) /\ op'[p] = Idle
                \/ EngageRecord(p) /\ op'[p] = Idle
                \/ ReleaseRecord(p) /\ op'[p] = [op[p] EXCEPT !.step = "unlink"]
           /\ Opens(p, e) => \E step \in {"recheck", "transport"} :
                /\ op'[p] = [op[p] EXCEPT !.step = step]
                /\ step = "transport" => op[p].kind = "cancel"
<1>1. op \in [Procs -> Operations]
  BY DEF IInv, TypeOK
<1>2. SubmitPreflight(p) => op'[p] = [op[p] EXCEPT !.step = "attempt", !.ready = clock]
  BY <1>1 DEF SubmitPreflight
<1>3. ReconcileRecord(p) => op'[p] = Idle
  BY <1>1 DEF ReconcileRecord, End
<1>4. EngageRecord(p) => op'[p] = Idle
  BY <1>1 DEF EngageRecord, End
<1>5. ReleaseRecord(p) => op'[p] = [op[p] EXCEPT !.step = "unlink"]
  BY <1>1 DEF ReleaseRecord, Continue
<1>6. Opens(p, e) => \E step \in {"recheck", "transport"} :
                /\ op'[p] = [op[p] EXCEPT !.step = step]
                /\ step = "transport" => op[p].kind = "cancel"
  BY <1>1 DEF Opens
<1>. QED
  BY <1>2, <1>3, <1>4, <1>5, <1>6 DEF Notes

LEMMA SendsBecomes ==
    ASSUME IInv, NEW p \in Procs, Sends(p)
    PROVE  /\ op'[p] = [op[p] EXCEPT !.step = "await"] /\ op[p] \in Operations
           /\ Mutating(op[p]) /\ op[p].step = "transport" /\ op[p].id \in ClientIds
           /\ op[p].id \in Unresolved /\ transports[op[p].id] = 0
           /\ \A c \in ClientIds \ {op[p].id} :
                 request'[c] = request[c] /\ transports'[c] = transports[c]
           /\ transports'[op[p].id] = 1
           /\ request'[op[p].id] = [state |-> "sent", target |-> op[p].target, sent |-> Now]
           /\ UNCHANGED <<ledger, book, clock, regress, marker>>
<1>1. /\ op \in [Procs -> Operations] /\ transports \in [ClientIds -> Nat]
      /\ request \in [ClientIds -> Requests]
  BY DEF IInv, TypeOK
<1>2. Transport(p) /\ op[p].id \in ClientIds /\ Underway(op[p])
  BY DEF Sends
<1>3. Mutating(op[p]) /\ op[p].step = "transport" /\ op[p].id \in Unresolved /\ transports[op[p].id] = 0
  BY <1>2 DEF Transport, At, Mutating, Underway, Unresolved
<1>4. op'[p] = [op[p] EXCEPT !.step = "await"]
  BY <1>1, <1>2 DEF Transport, Continue
<1>5. /\ \A c \in ClientIds \ {op[p].id} :
                 request'[c] = request[c] /\ transports'[c] = transports[c]
      /\ transports'[op[p].id] = transports[op[p].id] + 1
      /\ request'[op[p].id] = [state |-> "sent", target |-> op[p].target, sent |-> Now]
      /\ UNCHANGED <<ledger, book, clock, regress, marker>>
  BY <1>1, <1>2 DEF Transport
<1>. QED
  BY <1>1, <1>2, <1>3, <1>4, <1>5

\* When p works, what concerns the operations has to be shown of p's only.
LEMMA OthersIdle ==
    ASSUME NEW p \in Procs, Works(p)
    PROVE  \A q \in Procs \ {p} : op[q] = Idle /\ op'[q] = Idle
<1>1. ASSUME NEW e, Notes(p, e) \/ Opens(p, e) \/ Doubts(p, e) \/ \E verdict : Decides(p, e, verdict)
      PROVE  Alone(p)
  <2>1. /\ Notes(p, e) => Writes(p, e)
        /\ Opens(p, e) => Writes(p, e)
        /\ Doubts(p, e) => Writes(p, e)
    BY DEF Notes, Opens, Doubts
  <2>2. \A verdict : Decides(p, e, verdict) => Writes(p, e)
    BY DEF Decides
  <2>. QED
    BY <1>1, <2>1, <2>2 DEF Writes
<1>2. Sends(p) \/ Quiet(p) => Alone(p)
  BY DEF Sends, Quiet
<1>. QED
  BY <1>1, <1>2 DEF Works, Alone

-----------------------------------------------------------------------------
(* Two undecided cancellations never aim at one order *)

\* A cancellation that is about to be attempted finds none undecided for its
\* target: what CancelBegin read still holds.
AimSound(o) ==
    o.kind = "cancel" /\ o.step \in {"preflight", "attempt"} => ~CancelUnresolvedFor(o.target)
Aimed == CancelsDoNotOverlap /\ \A p \in Procs : AimSound(op[p])

\* A step that attempts no cancellation makes no order aimed at.
LEMMA AimsShrink ==
    ASSUME IInv, CancelsDoNotOverlap, Unresolved' \subseteq Unresolved,
           \A i \in DOMAIN ledger' : ledger'[i].type = "broker_cancel_attempt" =>
               i \in DOMAIN ledger /\ ledger'[i] = ledger[i]
    PROVE  /\ CancelsDoNotOverlap'
           /\ \A b : CancelUnresolvedFor(b)' => CancelUnresolvedFor(b)
<1>1. \A i \in DOMAIN ledger : ledger[i].type = "broker_cancel_attempt" => ledger[i].id \in ClientIds
  BY DEF IInv, LedgerSound, ClientIds
<1>2. ASSUME NEW b, CancelUnresolvedFor(b)' PROVE CancelUnresolvedFor(b)
  <2>1. PICK i \in DOMAIN ledger' : /\ ledger'[i].type = "broker_cancel_attempt"
                                    /\ ledger'[i].target = b
                                    /\ IsUnresolved(ledger', ledger'[i].id)
    BY <1>2 DEF CancelUnresolvedFor
  <2>2. ledger[i].id \in Unresolved'
    BY <1>1, <2>1 DEF Unresolved
  <2>. QED
    BY <2>1, <2>2 DEF CancelUnresolvedFor, Unresolved
<1>. QED
  BY <1>2 DEF CancelsDoNotOverlap

LEMMA AimedStep ==
    ASSUME IInv, Aimed, [Next]_vars
    PROVE  Aimed'
<1>1. ASSUME NEW p \in Procs, Works(p), CancelsDoNotOverlap', AimSound(op[p])'
      PROVE  Aimed'
  <2>1. \A q \in Procs \ {p} : op'[q].kind = "none"
    BY <1>1, OthersIdle DEF Idle
  <2>. QED
    BY <1>1, <2>1 DEF Aimed, AimSound
<1>2. ASSUME NEW p \in Procs, NEW e \in Events, NEW verdict \in Verdicts,
             Notes(p, e) \/ Doubts(p, e) \/ Decides(p, e, verdict)
      PROVE  Aimed'
  <2>1. ledger' = Append(ledger, e) /\ e.type # "broker_cancel_attempt"
    BY <1>2, OutcomeTyped, TypesListed
    DEF Notes, Doubts, Decides, Writes, OtherEvents, UnknownEvents, ResolvedEvents
  <2>2. Unresolved' \subseteq Unresolved
    BY <1>2, NotesLeave, DoubtsLeave, DecidesLeave
  <2>3. CancelsDoNotOverlap'
    BY <2>1, <2>2, LedgerGrows, AimsShrink DEF Aimed
  <2>4. op'[p].kind # "cancel"
    <3>1. op[p] \in Operations
      BY DEF IInv, TypeOK
    <3>2. ASSUME Notes(p, e) PROVE op'[p].kind # "cancel"
      <4>1. CASE SubmitPreflight(p) /\ op'[p] = [op[p] EXCEPT !.step = "attempt", !.ready = clock]
        BY <3>1, <4>1 DEF Operations, SubmitPreflight, At
      <4>2. CASE op'[p] = Idle
        BY <4>2 DEF Idle
      <4>3. CASE ReleaseRecord(p) /\ op'[p] = [op[p] EXCEPT !.step = "unlink"]
        BY <3>1, <4>3 DEF Operations, ReleaseRecord, At
      <4>. QED
        BY <3>2, <4>1, <4>2, <4>3, WritesBecome
    <3>. QED
      BY <1>2, <3>2 DEF Doubts, Decides, Idle
  <2>. QED
    BY <1>1, <1>2, <2>3, <2>4 DEF Works, AimSound
<1>3. ASSUME NEW p \in Procs, NEW e \in Events, Opens(p, e) PROVE Aimed'
  <2>1. CancelsDoNotOverlap'
    <3>. SUFFICES ASSUME NEW i \in DOMAIN ledger', NEW j \in DOMAIN ledger',
                         ledger'[i].type = "broker_cancel_attempt",
                         ledger'[j].type = "broker_cancel_attempt",
                         ledger'[i].id \in Unresolved', ledger'[j].id \in Unresolved',
                         ledger'[i].target = ledger'[j].target, ledger'[i].id # ledger'[j].id
                  PROVE  FALSE
      BY DEF CancelsDoNotOverlap
    <3>1. /\ DOMAIN ledger' = DOMAIN ledger \cup {NewAt}
          /\ \A k \in DOMAIN ledger : ledger'[k] = ledger[k]
          /\ ledger'[NewAt] = e
      BY <1>3, LedgerGrows DEF Opens, Writes
    <3>2. Unresolved' = Unresolved \cup {e.id} /\ AttemptsOf(e.id) = {}
      BY <1>3, OpensLeave
    <3>3. \A k \in DOMAIN ledger : ledger[k].type = "broker_cancel_attempt" => ledger[k].id # e.id
      BY <3>2 DEF AttemptsOf, EventsOf, AttemptEvents
    <3>4. ASSUME NEW k \in DOMAIN ledger, ledger[k].type = "broker_cancel_attempt",
                 ledger[k].id \in Unresolved'
          PROVE  ledger[k].target # e.target \/ e.type # "broker_cancel_attempt"
      <4>1. ledger[k].id \in Unresolved
        BY <3>2, <3>3, <3>4
      <4>2. CancelUnresolvedFor(ledger[k].target)
        BY <3>4, <4>1 DEF CancelUnresolvedFor, Unresolved
      <4>3. e.type = "broker_cancel_attempt" => op[p].kind = "cancel" /\ op[p].step = "attempt"
        BY <1>3 DEF Opens, Attempted
      <4>4. e.target = op[p].target
        BY <1>3 DEF Opens
      <4>. QED
        BY <4>2, <4>3, <4>4 DEF Aimed, AimSound
    <3>5. CASE i \in DOMAIN ledger /\ j \in DOMAIN ledger
      BY <3>1, <3>2, <3>3, <3>5 DEF Aimed, CancelsDoNotOverlap
    <3>. QED
      BY <3>1, <3>4, <3>5
  <2>2. op'[p].step \notin {"preflight", "attempt"}
    <3>1. op[p] \in Operations
      BY DEF IInv, TypeOK
    <3>. QED
      BY <1>3, <3>1, WritesBecome DEF Operations
  <2>. QED
    BY <1>1, <1>3, <2>1, <2>2 DEF Works, AimSound
<1>4. ASSUME NEW p \in Procs, Sends(p) PROVE Aimed'
  <2>1. UNCHANGED ledger /\ op'[p].step = "await"
    BY <1>4, SendsBecomes DEF Operations
  <2>2. CancelsDoNotOverlap'
    BY <2>1 DEF Aimed, CancelsDoNotOverlap, Unresolved
  <2>. QED
    BY <1>1, <1>4, <2>1, <2>2 DEF Works, AimSound
<1>5. ASSUME NEW p \in Procs, Quiet(p) PROVE Aimed'
  <2>1. UNCHANGED ledger /\ op[p] \in Operations
    BY <1>5 DEF Quiet, IInv, TypeOK
  <2>2. CancelsDoNotOverlap' /\ \A b : CancelUnresolvedFor(b)' = CancelUnresolvedFor(b)
    BY <2>1 DEF Aimed, CancelsDoNotOverlap, Unresolved, CancelUnresolvedFor
  <2>3. \/ op'[p].kind # "cancel" \/ op'[p].step \notin {"preflight", "attempt"}
        \/ ~CancelUnresolvedFor(op'[p].target)
    <3>1. CASE \E c \in CancelIds, b \in BrokerIds, cfg \in Configs : CancelBegun(p, c, b, cfg)
      <4>1. PICK c, b, cfg : CancelBegun(p, c, b, cfg)
        BY <3>1
      <4>2. ~CancelUnresolvedFor(b)
        BY <4>1 DEF CancelBegun, CancelBegin
      <4>3. op'[p].target = b
        BY <4>1, BegunFields
      <4>. QED
        BY <4>2, <4>3
    <3>2. CASE CandidateFound(p)
      BY <3>2, GoneFields DEF Keeps, Aimed, AimSound
    <3>. QED
      BY <1>5, <3>1, <3>2, QuietBecomes, BegunFields, GoneFields
  <2>4. AimSound(op[p])'
    BY <2>2, <2>3 DEF AimSound
  <2>. QED
    BY <1>1, <1>5, <2>2, <2>4 DEF Works
<1>6. ASSUME UNCHANGED <<op, ledger>> PROVE Aimed'
  BY <1>6 DEF Aimed, CancelsDoNotOverlap, AimSound, CancelUnresolvedFor, Unresolved
<1>7. CASE Next
  BY <1>2, <1>3, <1>4, <1>5, <1>6, <1>7, StepShape DEF Works, Surroundings, Verdicts
<1>. QED
  BY <1>6, <1>7 DEF vars

-----------------------------------------------------------------------------
(* A release under way finds the marker it was given, with nothing undecided *)

ReleaseSound(o) ==
    o.kind = "release" =>
        /\ Unresolved = {} /\ marker.state = "valid" /\ marker.nonce = o.nonce
        /\ o.step = "unlink" =>
              \E i \in DOMAIN ledger : /\ ledger[i].type = "broker_kill_switch_release_authorized"
                                       /\ ledger[i].nonce = o.nonce
ReleasesSound == \A p \in Procs : ReleaseSound(op[p])

LEMMA ReleasesStep ==
    ASSUME IInv, ReleasesSound, [Next]_vars
    PROVE  ReleasesSound'
<1>1. ASSUME NEW p \in Procs, Works(p), ReleaseSound(op[p])' PROVE ReleasesSound'
  <2>1. \A q \in Procs \ {p} : op'[q].kind = "none"
    BY <1>1, OthersIdle DEF Idle
  <2>. QED
    BY <1>1, <2>1 DEF ReleasesSound, ReleaseSound
<1>2. ASSUME NEW p \in Procs, NEW e \in Events, Notes(p, e) PROVE ReleasesSound'
  <2>1. op[p] \in Operations
    BY DEF IInv, TypeOK
  <2>2. CASE SubmitPreflight(p) /\ op'[p] = [op[p] EXCEPT !.step = "attempt", !.ready = clock]
    <3>1. op'[p].kind = "submit"
      BY <2>1, <2>2 DEF Operations, SubmitPreflight, At
    <3>. QED
      BY <1>1, <1>2, <3>1 DEF Works, ReleaseSound
  <2>3. CASE op'[p] = Idle
    BY <1>1, <1>2, <2>3 DEF Works, ReleaseSound, Idle
  <2>4. CASE ReleaseRecord(p) /\ op'[p] = [op[p] EXCEPT !.step = "unlink"]
    <3>1. op[p].kind = "release" /\ op'[p].nonce = op[p].nonce
      BY <2>1, <2>4 DEF Operations, ReleaseRecord, At
    <3>2. Unresolved' = Unresolved /\ marker' = marker
      BY <1>2, NotesLeave DEF Notes, Writes
    <3>3. e.type = "broker_kill_switch_release_authorized" /\ e.nonce = op[p].nonce
      BY <1>2, <2>4, <3>1 DEF Notes, SubmitPreflight, ReconcileRecord, EngageRecord, At
    <3>4. NewAt \in DOMAIN ledger' /\ ledger'[NewAt] = e
      BY <1>2, LedgerGrows DEF Notes, Writes
    <3>5. ReleaseSound(op[p])'
      BY <3>1, <3>2, <3>3, <3>4 DEF ReleasesSound, ReleaseSound
    <3>. QED
      BY <1>1, <1>2, <3>5 DEF Works
  <2>. QED
    BY <1>2, <2>2, <2>3, <2>4, WritesBecome
<1>3. ASSUME NEW p \in Procs, NEW e \in Events, Opens(p, e) PROVE ReleasesSound'
  <2>1. op[p] \in Operations /\ op[p].kind # "release"
    BY <1>3 DEF IInv, TypeOK, Opens, Mutating
  <2>2. op'[p].kind = op[p].kind
    BY <1>3, <2>1, WritesBecome DEF Operations
  <2>. QED
    BY <1>1, <1>3, <2>1, <2>2 DEF Works, ReleaseSound
<1>4. ASSUME NEW p \in Procs, NEW e \in Events, NEW verdict \in Verdicts,
             Doubts(p, e) \/ Decides(p, e, verdict)
      PROVE  ReleasesSound'
  <2>1. op'[p].kind = "none"
    BY <1>4 DEF Doubts, Decides, Idle
  <2>. QED
    BY <1>1, <1>4, <2>1 DEF Works, ReleaseSound
<1>5. ASSUME NEW p \in Procs, Sends(p) PROVE ReleasesSound'
  <2>1. op'[p].kind # "release"
    BY <1>5, SendsBecomes DEF Operations, Mutating
  <2>. QED
    BY <1>1, <1>5, <2>1 DEF Works, ReleaseSound
<1>6. ASSUME NEW p \in Procs, Quiet(p) PROVE ReleasesSound'
  <2>1. CASE \E nonce \in 1..markers : ReleaseBegun(p, nonce)
    <3>1. PICK nonce : ReleaseBegun(p, nonce)
      BY <2>1
    <3>2. Unresolved = {} /\ marker.state = "valid" /\ marker.nonce = nonce /\ marker' = marker
      BY <3>1 DEF ReleaseBegun, ReleaseBegin
    <3>3. Unresolved' = Unresolved
      BY <1>6 DEF Quiet, Unresolved
    <3>4. op'[p].step = "record" /\ op'[p].nonce = nonce
      BY <3>1, BegunFields
    <3>. QED
      BY <1>1, <1>6, <3>2, <3>3, <3>4 DEF Works, ReleaseSound
  <2>2. CASE \A nonce \in 1..markers : ~ReleaseBegun(p, nonce)
    <3>1. op'[p].kind # "release"
      BY <1>6, <2>2, QuietBecomes, BegunFields, GoneFields
    <3>. QED
      BY <1>1, <1>6, <3>1 DEF Works, ReleaseSound
  <2>. QED
    BY <2>1, <2>2
<1>7. ASSUME UNCHANGED <<op, ledger, marker>> PROVE ReleasesSound'
  BY <1>7 DEF ReleasesSound, ReleaseSound, Unresolved
<1>8. CASE Next
  BY <1>2, <1>3, <1>4, <1>5, <1>6, <1>7, <1>8, StepShape DEF Works, Surroundings, Verdicts
<1>. QED
  BY <1>7, <1>8 DEF vars

-----------------------------------------------------------------------------
(* The executor implements OrderLifecycle *)

\* Whether an id has events at all adds nothing to the rest of its phase.
LEMMA PhaseIs ==
    ASSUME NEW c
    PROVE  /\ Phase(c) = IF IsUnresolved(ledger, c) THEN "open"
                         ELSE IF HasOutcome(c, "accepted") THEN "accepted"
                         ELSE IF HasOutcome(c, "rejected") THEN "rejected" ELSE "new"
           /\ Phase(c)' = IF IsUnresolved(ledger', c) THEN "open"
                          ELSE IF HasOutcome(c, "accepted")' THEN "accepted"
                          ELSE IF HasOutcome(c, "rejected")' THEN "rejected" ELSE "new"
<1>1. \A l, types : ~Seen(l, c) => ~IsUnresolved(l, c) /\ EventsOf(l, c, types) = {}
  BY UnseenIsResolved
<1>. QED
  BY <1>1 DEF Phase, HasOutcome

LEMMA PhaseKept ==
    ASSUME NEW c, IsUnresolved(ledger', c) <=> IsUnresolved(ledger, c),
           HasOutcome(c, "accepted")' <=> HasOutcome(c, "accepted"),
           HasOutcome(c, "rejected")' <=> HasOutcome(c, "rejected")
    PROVE  Phase(c)' = Phase(c)
  BY PhaseIs

\* The outcomes after an event.
LEMMA OutcomesGrow ==
    ASSUME IInv, NEW e \in Events, ledger' = Append(ledger, e), NEW c, NEW verdict
    PROVE  HasOutcome(c, verdict)' <=>
              HasOutcome(c, verdict) \/ (e.id = c /\ e.type = Outcome(c, verdict))
<1>1. ledger \in Seq(Events)
  BY DEF IInv, TypeOK
<1>2. EventsOf(ledger', c, {Outcome(c, verdict)}) =
         EventsOf(ledger, c, {Outcome(c, verdict)}) \cup
         {i \in {Len(ledger) + 1} : e.id = c /\ e.type \in {Outcome(c, verdict)}}
  BY <1>1, EventsOfAppend
<1>3. HasOutcome(c, verdict)' <=> EventsOf(ledger', c, {Outcome(c, verdict)}) # {}
  BY DEF HasOutcome, Outcome
<1>. QED
  BY <1>2, <1>3 DEF HasOutcome

phaseOf == [c \in ClientIds |-> Phase(c)]

\* A note or a doubt changes no phase.
LEMMA NotesStutter ==
    ASSUME IInv, NEW p \in Procs, NEW e \in Events, Notes(p, e) \/ Doubts(p, e)
    PROVE  phaseOf' = phaseOf
<1>1. ledger' = Append(ledger, e) /\ e.type \notin ResolvedEvents
  BY TypesListed DEF Notes, Doubts, Writes
<1>2. Unresolved' = Unresolved
  BY NotesLeave, DoubtsLeave
<1>3. ASSUME NEW c \in ClientIds PROVE Phase(c)' = Phase(c)
  <2>1. \A verdict : HasOutcome(c, verdict)' <=> HasOutcome(c, verdict)
    BY <1>1, OutcomesGrow, OutcomeTyped
  <2>2. IsUnresolved(ledger', c) <=> IsUnresolved(ledger, c)
    BY <1>2 DEF Unresolved
  <2>. QED
    BY <2>1, <2>2, PhaseKept
<1>. QED
  BY <1>3 DEF phaseOf

LEMMA OpensPhase ==
    ASSUME IInv, NEW p \in Procs, NEW e \in Events, Opens(p, e)
    PROVE  /\ e.id \in ClientIds /\ Phase(e.id) = "new"
           /\ phaseOf' = [phaseOf EXCEPT ![e.id] = "open"]
           /\ e.id \in OrderIds => Unresolved = {} /\ marker.state = "absent"
<1>1. ledger' = Append(ledger, e) /\ e.type \notin ResolvedEvents
  BY TypesListed DEF Opens, Writes
<1>2. /\ e.id \in ClientIds /\ Unresolved' = Unresolved \cup {e.id}
      /\ OutcomesOf(e.id) = {} /\ e.id \notin Unresolved
  BY OpensLeave
<1>3. \A verdict : ~HasOutcome(e.id, verdict)
  BY <1>2, OutcomeTyped DEF HasOutcome, OutcomesOf, EventsOf
<1>4. Phase(e.id) = "new"
  BY <1>2, <1>3, PhaseIs DEF Unresolved
<1>5. Phase(e.id)' = "open"
  <2>1. IsUnresolved(ledger', e.id)
    BY <1>2 DEF Unresolved
  <2>. QED
    BY <2>1, PhaseIs
<1>6. ASSUME NEW c \in ClientIds, c # e.id PROVE Phase(c)' = Phase(c)
  <2>1. \A verdict : HasOutcome(c, verdict)' <=> HasOutcome(c, verdict)
    BY <1>1, <1>6, OutcomesGrow
  <2>2. IsUnresolved(ledger', c) <=> IsUnresolved(ledger, c)
    BY <1>2, <1>6 DEF Unresolved
  <2>. QED
    BY <2>1, <2>2, PhaseKept
<1>7. ASSUME e.id \in OrderIds PROVE Unresolved = {} /\ marker.state = "absent"
  <2>1. op[p].kind = "submit"
    BY <1>7, NamesAssumption DEF Opens, Mutating
  <2>. QED
    BY <2>1 DEF IInv, OperationsSound, OperationSound, Opens, Starting, Unresolved
<1>. QED
  BY <1>2, <1>4, <1>5, <1>6, <1>7 DEF phaseOf

LEMMA DecidesPhase ==
    ASSUME IInv, DecidedOnce, NEW p \in Procs, NEW e \in Events, NEW verdict \in Verdicts,
           Decides(p, e, verdict)
    PROVE  /\ e.id \in ClientIds /\ Phase(e.id) = "open"
           /\ phaseOf' = [phaseOf EXCEPT ![e.id] = verdict]
<1>1. ledger' = Append(ledger, e) /\ e.type = Outcome(e.id, verdict) /\ e.id \in Unresolved
  BY DEF Decides, Writes
<1>2. Unresolved' = Unresolved \ {e.id} /\ e.id \in ClientIds
  BY <1>1, DecidesLeave DEF Unresolved
<1>3. \A v : ~HasOutcome(e.id, v)
  BY <1>1, <1>2, OutcomeTyped DEF DecidedOnce, HasOutcome, OutcomesOf, EventsOf
<1>4. Phase(e.id) = "open"
  BY <1>1, PhaseIs DEF Unresolved
<1>5. Phase(e.id)' = verdict
  <2>1. ~IsUnresolved(ledger', e.id)
    BY <1>2 DEF Unresolved
  <2>2. \A v \in Verdicts : HasOutcome(e.id, v)' <=> Outcome(e.id, verdict) = Outcome(e.id, v)
    BY <1>1, <1>3, OutcomesGrow
  <2>3. Outcome(e.id, "accepted") # Outcome(e.id, "rejected")
    BY DEF Outcome
  <2>4. CASE verdict = "accepted"
    BY <2>1, <2>2, <2>3, <2>4, PhaseIs
  <2>5. CASE verdict = "rejected"
    BY <2>1, <2>2, <2>3, <2>5, PhaseIs DEF Verdicts
  <2>. QED
    BY <2>4, <2>5 DEF Verdicts
<1>6. ASSUME NEW c \in ClientIds, c # e.id PROVE Phase(c)' = Phase(c)
  <2>1. \A v : HasOutcome(c, v)' <=> HasOutcome(c, v)
    BY <1>1, <1>6, OutcomesGrow
  <2>2. IsUnresolved(ledger', c) <=> IsUnresolved(ledger, c)
    BY <1>2, <1>6 DEF Unresolved
  <2>. QED
    BY <2>1, <2>2, PhaseKept
<1>. QED
  BY <1>2, <1>4, <1>5, <1>6 DEF phaseOf

LEMMA QuietPhase ==
    ASSUME ledger' = ledger
    PROVE  phaseOf' = phaseOf
  BY DEF phaseOf, Phase, HasOutcome, Outcome

sentOf == {c \in ClientIds : transports[c] > 0}
haltedOf == marker.state # "absent"

LEMMA LifecycleIs ==
    /\ Lifecycle!ClientIds = ClientIds
    /\ \A c : Lifecycle!Open(c) <=>
          /\ phaseOf[c] = "new"
          /\ c \in OrderIds => (\A d \in ClientIds : phaseOf[d] # "open") /\ ~haltedOf
          /\ phaseOf' = [phaseOf EXCEPT ![c] = "open"]
          /\ sentOf' = sentOf /\ haltedOf' = haltedOf
    /\ \A c : Lifecycle!Send(c) <=>
          /\ phaseOf[c] = "open" /\ c \notin sentOf
          /\ c \in OrderIds => ~haltedOf
          /\ sentOf' = sentOf \cup {c}
          /\ phaseOf' = phaseOf /\ haltedOf' = haltedOf
    /\ \A c, verdict : Lifecycle!Decide(c, verdict) <=>
          /\ phaseOf[c] = "open"
          /\ phaseOf' = [phaseOf EXCEPT ![c] = verdict]
          /\ sentOf' = sentOf /\ haltedOf' = haltedOf
    /\ Lifecycle!Halt <=> ~haltedOf /\ haltedOf' = TRUE /\ phaseOf' = phaseOf /\ sentOf' = sentOf
    /\ Lifecycle!Resume <=>
          /\ haltedOf /\ (\A d \in ClientIds : phaseOf[d] # "open")
          /\ haltedOf' = FALSE /\ phaseOf' = phaseOf /\ sentOf' = sentOf
  BY DEF Lifecycle!ClientIds, Lifecycle!Open, Lifecycle!Send, Lifecycle!Decide, Lifecycle!Halt,
         Lifecycle!Resume, Lifecycle!NothingOpen, ClientIds, phaseOf, sentOf, haltedOf

LEMMA LifecycleStep ==
    ASSUME IInv, DecidedOnce, ReleasesSound, [Next]_vars
    PROVE  [Lifecycle!Next]_(Lifecycle!lifecycleVars)
<1>1. \A c \in ClientIds : phaseOf[c] = Phase(c) /\ (Phase(c) = "open" => c \in Unresolved)
  BY PhaseIs DEF phaseOf, Unresolved
<1>2. /\ \A c \in ClientIds : Lifecycle!Open(c) \/ Lifecycle!Send(c) => Lifecycle!Next
      /\ \A c \in ClientIds : \A verdict \in Verdicts : Lifecycle!Decide(c, verdict) => Lifecycle!Next
      /\ Lifecycle!Halt \/ Lifecycle!Resume => Lifecycle!Next
      /\ phaseOf' = phaseOf /\ sentOf' = sentOf /\ haltedOf' = haltedOf =>
            UNCHANGED Lifecycle!lifecycleVars
  BY LifecycleIs
  DEF Lifecycle!Next, Lifecycle!lifecycleVars, Verdicts, phaseOf, sentOf, haltedOf
<1>3. transports' = transports => sentOf' = sentOf
  BY DEF sentOf
<1>4. marker' = marker => haltedOf' = haltedOf
  BY DEF haltedOf
<1>5. ASSUME NEW p \in Procs, NEW e \in Events, Notes(p, e) \/ Doubts(p, e)
      PROVE  UNCHANGED Lifecycle!lifecycleVars
  BY <1>2, <1>3, <1>4, <1>5, NotesStutter DEF Notes, Doubts, Writes
<1>6. ASSUME NEW p \in Procs, NEW e \in Events, Opens(p, e) PROVE Lifecycle!Next
  <2>1. sentOf' = sentOf /\ haltedOf' = haltedOf
    BY <1>3, <1>4, <1>6 DEF Opens, Writes
  <2>2. /\ e.id \in ClientIds /\ Phase(e.id) = "new"
        /\ phaseOf' = [phaseOf EXCEPT ![e.id] = "open"]
        /\ e.id \in OrderIds => Unresolved = {} /\ marker.state = "absent"
    BY <1>6, OpensPhase
  <2>3. e.id \in OrderIds => (\A d \in ClientIds : phaseOf[d] # "open") /\ ~haltedOf
    BY <1>1, <2>2 DEF haltedOf
  <2>4. Lifecycle!Open(e.id)
    BY <1>1, <2>1, <2>2, <2>3, LifecycleIs
  <2>. QED
    BY <1>2, <2>2, <2>4
<1>7. ASSUME NEW p \in Procs, NEW e \in Events, NEW verdict \in Verdicts, Decides(p, e, verdict)
      PROVE  Lifecycle!Next
  <2>1. sentOf' = sentOf /\ haltedOf' = haltedOf
    BY <1>3, <1>4, <1>7 DEF Decides, Writes
  <2>2. /\ e.id \in ClientIds /\ Phase(e.id) = "open"
        /\ phaseOf' = [phaseOf EXCEPT ![e.id] = verdict]
    BY <1>7, DecidesPhase
  <2>3. Lifecycle!Decide(e.id, verdict)
    BY <1>1, <2>1, <2>2, LifecycleIs
  <2>. QED
    BY <1>2, <2>2, <2>3
<1>8. ASSUME NEW p \in Procs, Sends(p) PROVE Lifecycle!Next
  <2>0. PICK c : c = op[p].id
    OBVIOUS
  <2>1. /\ c \in ClientIds /\ c \in Unresolved /\ transports[c] = 0 /\ transports'[c] = 1
        /\ \A d \in ClientIds \ {c} : transports'[d] = transports[d]
        /\ UNCHANGED <<ledger, marker>>
    BY <1>8, <2>0, SendsBecomes
  <2>2. sentOf' = sentOf \cup {c} /\ c \notin sentOf
    BY <2>1 DEF sentOf
  <2>3. Phase(c) = "open"
    BY <2>1, PhaseIs DEF Unresolved
  <2>4. c \in OrderIds => ~haltedOf
    <3>1. c \in OrderIds => op[p].kind = "submit"
      BY <1>8, <2>0, SendsBecomes, NamesAssumption DEF Mutating, IInv, OperationsSound, OperationSound
    <3>. QED
      BY <3>1 DEF IInv, OperationsSound, OperationSound, haltedOf
  <2>5. Lifecycle!Send(c)
    BY <1>1, <1>4, <2>1, <2>2, <2>3, <2>4, LifecycleIs, QuietPhase
  <2>. QED
    BY <1>2, <2>1, <2>5
<1>9. ASSUME NEW p \in Procs, Quiet(p) PROVE [Lifecycle!Next]_(Lifecycle!lifecycleVars)
  <2>1. phaseOf' = phaseOf /\ sentOf' = sentOf
    BY <1>3, <1>9, QuietPhase DEF Quiet
  <2>2. CASE marker' = marker
    BY <1>2, <1>4, <2>1, <2>2
  <2>3. CASE EngageCreate(p)
    <3>1. ~haltedOf /\ haltedOf' = TRUE
      BY <2>3 DEF EngageCreate, haltedOf
    <3>. QED
      BY <1>2, <2>1, <3>1, LifecycleIs
  <2>4. CASE EngageWrite(p)
    <3>1. marker'.state = "valid"
      BY <2>4 DEF EngageWrite, IInv, TypeOK
    <3>2. haltedOf' = TRUE
      BY <3>1 DEF haltedOf
    <3>3. CASE haltedOf
      <4>1. haltedOf' = haltedOf
        BY <3>1, <3>3 DEF haltedOf
      <4>. QED
        BY <1>2, <2>1, <4>1
    <3>4. CASE ~haltedOf
      BY <1>2, <2>1, <3>2, <3>4, LifecycleIs
    <3>. QED
      BY <3>3, <3>4
  <2>5. CASE ReleaseUnlink(p)
    <3>1. haltedOf' = FALSE /\ haltedOf \in BOOLEAN
      BY <2>5 DEF ReleaseUnlink, haltedOf, NoMarker
    <3>2. haltedOf /\ Unresolved = {}
      BY <2>5 DEF ReleaseUnlink, At, ReleasesSound, ReleaseSound, haltedOf
    <3>3. Lifecycle!Resume
      BY <1>1, <2>1, <3>1, <3>2, LifecycleIs
    <3>. QED
      BY <1>2, <3>3
  <2>6. marker' = marker \/ EngageCreate(p) \/ EngageWrite(p) \/ ReleaseUnlink(p)
    BY <1>9 DEF Quiet, SubmitBegin, SubmitRecheck, CancelBegin, CancelCandidate, ReconcileRead,
       ResolveBegin, ResolveFreshRead, ReleaseBegin
  <2>. QED
    BY <2>2, <2>3, <2>4, <2>5, <2>6
<1>10. ASSUME UNCHANGED <<ledger, transports, marker>> PROVE UNCHANGED Lifecycle!lifecycleVars
  BY <1>2, <1>3, <1>4, <1>10, QuietPhase
<1>11. CASE Next
  <2>1. ASSUME NEW p \in Procs, Works(p) PROVE [Lifecycle!Next]_(Lifecycle!lifecycleVars)
    BY <1>5, <1>6, <1>7, <1>8, <1>9, <2>1 DEF Works
  <2>. QED
    BY <1>10, <1>11, <2>1, StepShape DEF Surroundings
<1>. QED
  BY <1>10, <1>11 DEF vars

LEMMA LifecycleInit == Init => Lifecycle!Init
<1>. SUFFICES ASSUME Init PROVE Lifecycle!Init
  OBVIOUS
<1>1. \A c : ~Seen(ledger, c)
  BY DEF Init, Seen
<1>2. \A c : Phase(c) = "new"
  BY <1>1 DEF Phase
<1>3. {c \in ClientIds : transports[c] > 0} = {}
  BY DEF Init
<1>4. marker.state = "absent"
  BY DEF Init, NoMarker
<1>. QED
  BY <1>2, <1>3, <1>4 DEF Lifecycle!Init, Lifecycle!ClientIds, ClientIds

\* What the broker's answers rest on, so far.
LInv == IInv /\ DecidedOnce /\ Aimed /\ ReleasesSound

LEMMA LInvInit == Init => LInv
<1>. SUFFICES ASSUME Init PROVE LInv
  OBVIOUS
<1>1. ledger = <<>> /\ \A p \in Procs : op[p] = Idle
  BY DEF Init
<1>2. \A c, types : EventsOf(ledger, c, types) = {}
  BY <1>1 DEF EventsOf
<1>3. DecidedOnce
  BY <1>2 DEF DecidedOnce, OutcomesOf
<1>4. Aimed
  BY <1>1 DEF Aimed, CancelsDoNotOverlap, AimSound, Idle
<1>5. ReleasesSound
  BY <1>1 DEF ReleasesSound, ReleaseSound, Idle
<1>. QED
  BY <1>3, <1>4, <1>5, InductiveInit DEF LInv

LEMMA LInvStep == LInv /\ [Next]_vars => LInv'
  BY InductiveStep, DecidedStep, AimedStep, ReleasesStep DEF LInv

\* The inductive invariant of the ledger, the operations and the marker.
THEOREM LedgerInvariance == Spec => []LInv
  BY LInvInit, LInvStep, PTL DEF Spec

\* Two undecided cancellations never aim at one broker order, whatever processes
\* run cancel_order and wherever they stop.
THEOREM CancelsAimApart == Spec => []CancelsDoNotOverlap
<1>1. LInv => CancelsDoNotOverlap
  BY DEF LInv, Aimed
<1>. QED
  BY <1>1, LedgerInvariance, PTL

\* The executor implements OrderLifecycle: whatever is interleaved or interrupted,
\* its commands only open, send, decide, halt and resume as the lifecycle allows.
THEOREM ImplementsLifecycle == Spec => KeepsLifecycle
<1>1. LInv /\ [Next]_vars => [Lifecycle!Next]_(Lifecycle!lifecycleVars)
  BY LifecycleStep DEF LInv
<1>. QED
  BY <1>1, LifecycleInit, LedgerInvariance, PTL DEF Spec, KeepsLifecycle, Lifecycle!Spec
=============================================================================
