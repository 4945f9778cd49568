------------------------ MODULE BrokerVerdictProofs ------------------------
(***************************************************************************)
(* What the executor records of a mutation is what the broker did of it:   *)
(* for any processes, ids, configs and limits, under the two hypotheses    *)
(* that are named below.                                                   *)
(***************************************************************************)
EXTENDS BrokerExecutorProofs, WellFoundedInduction

-----------------------------------------------------------------------------
(* The clocks: what is written is dated at most now, and what is sent is sent *)
(* soon after the date of its attempt.                                        *)

TimeSound(o) ==
    /\ o.kind = "engage" => o.ready <= Now
    /\ o.kind = "submit" =>
          /\ o.started <= Now
          /\ o.step # "preflight" => o.ready <= Now /\ o.started <= o.ready + regress
          /\ o.step = "transport" => Now <= o.started + MaxPreflight
    /\ Mutating(o) => \A i \in AttemptsOf(o.id) :
          /\ ledger[i].target = o.target
          /\ o.kind = "submit" => ledger[i].ts = o.ready /\ ledger[i].cfg = o.cfg
          /\ o.kind = "cancel" /\ o.step = "transport" => Now <= ledger[i].ts + regress
Timely ==
    /\ regress <= MaxRegress
    /\ \A i \in DOMAIN ledger : ledger[i].ts <= Now
    /\ \A p \in Procs : TimeSound(op[p])

LEMMA NowTyped ==
    ASSUME IInv
    PROVE  /\ Now \in Nat /\ clock \in Nat /\ regress \in Nat /\ Now = clock + regress
           /\ MaxRegress \in Nat /\ MaxPreflight \in Nat /\ MaxFlight \in Nat /\ MaxFlight > 0
           /\ MatchSeconds \in Nat
  BY LimitsAssumption DEF IInv, TypeOK, Now

LEMMA TimelyStep ==
    ASSUME IInv, IInv', Timely, [Next]_vars
    PROVE  Timely'
<1>1. ASSUME NEW p \in Procs, Works(p), UNCHANGED <<clock, regress>>, TimeSound(op[p])',
             \A i \in DOMAIN ledger' : ledger'[i].ts <= Now
      PROVE  Timely'
  <2>1. \A q \in Procs \ {p} : op'[q].kind = "none"
    BY <1>1, OthersIdle DEF Idle
  <2>2. \A q \in Procs : TimeSound(op[q])'
    BY <1>1, <2>1 DEF TimeSound, Mutating
  <2>3. Now' = Now
    BY <1>1 DEF Now
  <2>. QED
    BY <1>1, <2>2, <2>3 DEF Timely
<1>2. ASSUME NEW p \in Procs, NEW e \in Events, Writes(p, e), e.ts <= Now
      PROVE  /\ UNCHANGED <<clock, regress>> /\ Now' = Now
             /\ \A i \in DOMAIN ledger' : ledger'[i].ts <= Now
             /\ \A i \in DOMAIN ledger : ledger'[i] = ledger[i]
             /\ ledger'[NewAt] = e
  BY <1>2, LedgerGrows DEF Writes, Timely, Now
<1>3. ASSUME NEW p \in Procs, NEW e \in Events, Notes(p, e) PROVE Timely'
  <2>1. op[p] \in Operations
    BY DEF IInv, TypeOK
  <2>2. e.ts <= Now
    BY <1>3, NowTyped DEF Notes, EngageRecord, At, Timely, TimeSound
  <2>3. TimeSound(op[p])'
    <3>1. CASE SubmitPreflight(p) /\ op'[p] = [op[p] EXCEPT !.step = "attempt", !.ready = clock]
      <4>1. /\ op'[p].kind = "submit" /\ op'[p].step = "attempt" /\ op'[p].ready = clock
            /\ op'[p].started = op[p].started /\ op'[p].id = op[p].id
            /\ op[p].kind = "submit" /\ op[p].step = "preflight" /\ op[p].started \in Nat
        <5>1. op[p].kind = "submit" /\ op[p].step = "preflight"
          BY <3>1 DEF SubmitPreflight, At
        <5>. QED
          BY <2>1, <3>1, <5>1 DEF Operations
      <4>2. PICK c : c = op[p].id /\ AttemptsOf(c) = {}
        BY <4>1, TypesListed DEF IInv, OperationsSound, OperationSound, Starting, AttemptsOf, EventsOf
      <4>3. AttemptsOf(c)' = {}
        BY <1>3, <4>2, NotesLeave
      <4>4. op[p].started <= Now
        BY <4>1 DEF Timely, TimeSound
      <4>5. Now' = Now /\ op[p].started <= clock + regress /\ clock <= Now
        BY <1>2, <1>3, <2>2, <4>1, <4>4, NowTyped DEF Notes, Timely
      <4>. QED
        BY <1>2, <1>3, <2>2, <4>1, <4>2, <4>3, <4>4, <4>5 DEF Notes, TimeSound
    <3>2. CASE op'[p] = Idle
      BY <3>2 DEF Idle, TimeSound, Mutating
    <3>3. CASE ReleaseRecord(p) /\ op'[p] = [op[p] EXCEPT !.step = "unlink"]
      <4>1. op'[p].kind = "release"
        BY <2>1, <3>3 DEF Operations, ReleaseRecord, At
      <4>. QED
        BY <4>1 DEF TimeSound, Mutating
    <3>. QED
      BY <1>3, <3>1, <3>2, <3>3, WritesBecome
  <2>. QED
    BY <1>1, <1>2, <1>3, <2>2, <2>3 DEF Works, Notes
<1>4. ASSUME NEW p \in Procs, NEW e \in Events, Opens(p, e) PROVE Timely'
  <2>1. op[p] \in Operations /\ op[p].ready \in Nat /\ op[p].started \in Nat
    BY DEF IInv, TypeOK, Operations
  <2>2. /\ op[p].step = "attempt" /\ Mutating(op[p])
        /\ op[p].kind = "submit" => e.ts = op[p].ready /\ op'[p] = [op[p] EXCEPT !.step = "recheck"]
        /\ op[p].kind = "cancel" => e.ts = clock /\ op'[p] = [op[p] EXCEPT !.step = "transport"]
        /\ e.id = op[p].id /\ e.target = op[p].target /\ e.cfg = op[p].cfg
        /\ Writes(p, e)
    BY <1>4 DEF Opens
  <2>3. e.ts <= Now
    BY <2>2, NowTyped DEF Mutating, Timely, TimeSound
  <2>4. /\ Keeps(p) /\ op'[p].ready = op[p].ready
        /\ op[p].kind = "submit" => op'[p].step = "recheck"
    BY <2>1, <2>2 DEF Operations, Keeps, Mutating
  <2>5. AttemptsOf(e.id)' = {NewAt} /\ ledger'[NewAt] = e /\ Now' = Now
    BY <1>2, <1>4, <2>2, <2>3, OpensLeave
  <2>6. TimeSound(op[p])'
    <3>1. CASE op[p].kind = "submit"
      BY <1>2, <2>2, <2>3, <2>4, <2>5, <3>1 DEF Keeps, Timely, TimeSound
    <3>2. CASE op[p].kind = "cancel"
      <4>1. Now <= clock + regress
        BY NowTyped DEF Timely
      <4>. QED
        BY <1>2, <2>2, <2>3, <2>4, <2>5, <3>2, <4>1 DEF Keeps, TimeSound
    <3>. QED
      BY <2>2, <3>1, <3>2 DEF Mutating
  <2>. QED
    BY <1>1, <1>2, <1>4, <2>2, <2>3, <2>6 DEF Works
<1>5. ASSUME NEW p \in Procs, NEW e \in Events, NEW verdict \in Verdicts,
             Doubts(p, e) \/ Decides(p, e, verdict)
      PROVE  Timely'
  <2>1. Writes(p, e) /\ e.ts <= Now /\ op'[p].kind = "none"
    BY <1>5, NowTyped DEF Doubts, Decides, Idle
  <2>2. TimeSound(op[p])'
    BY <2>1 DEF TimeSound, Mutating
  <2>. QED
    BY <1>1, <1>2, <1>5, <2>1, <2>2 DEF Works
<1>6. ASSUME NEW p \in Procs, Sends(p) PROVE Timely'
  <2>1. op'[p] = [op[p] EXCEPT !.step = "await"] /\ op[p] \in Operations
    BY <1>6, SendsBecomes
  <2>2. Keeps(p) /\ op'[p].ready = op[p].ready /\ op'[p].step = "await"
    BY <2>1 DEF Operations, Keeps
  <2>3. UNCHANGED <<ledger, clock, regress>> /\ op[p].step = "transport"
    BY <1>6, SendsBecomes
  <2>4. Now' = Now /\ \A c : AttemptsOf(c)' = AttemptsOf(c)
    BY <2>3 DEF Now, AttemptsOf
  <2>5. TimeSound(op[p])'
    BY <2>2, <2>3, <2>4 DEF Keeps, Timely, TimeSound, Mutating
  <2>. QED
    BY <1>1, <1>6, <2>3, <2>5 DEF Works, Timely
<1>7. ASSUME NEW p \in Procs, Quiet(p) PROVE Timely'
  <2>1. /\ UNCHANGED <<ledger, clock, regress>> /\ Now' = Now
        /\ \A c : AttemptsOf(c)' = AttemptsOf(c)
    BY <1>7 DEF Quiet, Now, AttemptsOf
  <2>2. CASE \E c \in OrderIds, cfg \in Configs : SubmitBegun(p, c, cfg)
    <3>1. PICK c, cfg : SubmitBegun(p, c, cfg)
      BY <2>2
    <3>2. AttemptsOf(c) = {}
      BY <3>1, UnseenIsResolved DEF SubmitBegun, SubmitBegin, AttemptsOf
    <3>3. op'[p].kind = "submit" /\ op'[p].step = "preflight" /\ op'[p].id = c /\ op'[p].started = Now
      BY <3>1, BegunFields
    <3>. QED
      BY <1>1, <1>7, <2>1, <3>2, <3>3, NowTyped DEF Works, Timely, TimeSound, Mutating
  <2>3. CASE \E c \in CancelIds, b \in BrokerIds, cfg \in Configs : CancelBegun(p, c, b, cfg)
    <3>1. PICK c, b, cfg : CancelBegun(p, c, b, cfg)
      BY <2>3
    <3>2. AttemptsOf(c) = {}
      BY <3>1, UnseenIsResolved DEF CancelBegun, CancelBegin, AttemptsOf
    <3>3. op'[p].kind = "cancel" /\ op'[p].id = c
      BY <3>1, BegunFields
    <3>. QED
      BY <1>1, <1>7, <2>1, <3>2, <3>3 DEF Works, Timely, TimeSound
  <2>4. CASE SubmitRechecked(p)
    <3>1. /\ Keeps(p) /\ op'[p].ready = op[p].ready /\ op[p].kind = "submit"
          /\ op[p].step = "recheck" /\ op'[p].step = "transport"
      BY <2>4, GoneFields DEF Keeps
    <3>2. Now <= op[p].started + MaxPreflight
      <4>1. Now - op[p].started <= MaxPreflight
        BY <2>4 DEF SubmitRechecked, SubmitRecheck, PreflightInTime
      <4>2. op[p].started \in Nat
        BY DEF IInv, TypeOK, Operations
      <4>. QED
        BY <4>1, <4>2, NowTyped
    <3>3. TimeSound(op[p])'
      BY <2>1, <3>1, <3>2 DEF Keeps, Timely, TimeSound, Mutating
    <3>. QED
      BY <1>1, <1>7, <2>1, <3>3 DEF Works, Timely
  <2>5. CASE CandidateFound(p)
    <3>1. Keeps(p) /\ op'[p].kind = "cancel" /\ op'[p].step = "attempt"
      BY <2>5, GoneFields
    <3>2. TimeSound(op[p])'
      BY <2>1, <3>1 DEF Keeps, Timely, TimeSound, Mutating
    <3>. QED
      BY <1>1, <1>7, <2>1, <3>2 DEF Works, Timely
  <2>6. CASE EngageBegun(p)
    <3>1. op'[p].kind = "engage" /\ op'[p].ready = clock
      BY <2>6, BegunFields
    <3>. QED
      BY <1>1, <1>7, <2>1, <3>1, NowTyped DEF Works, Timely, TimeSound, Mutating
  <2>7. CASE EngageWritten(p)
    <3>1. Keeps(p) /\ op'[p].kind = "engage" /\ op'[p].ready = op[p].ready
      BY <2>7, GoneFields
    <3>2. TimeSound(op[p])'
      BY <2>1, <3>1 DEF Keeps, Timely, TimeSound, Mutating
    <3>. QED
      BY <1>1, <1>7, <2>1, <3>2 DEF Works, Timely
  <2>8. CASE op'[p].kind \notin {"submit", "cancel", "engage"}
    BY <1>1, <1>7, <2>1, <2>8 DEF Works, Timely, TimeSound, Mutating
  <2>9. \/ op'[p].kind \notin {"submit", "cancel", "engage"}
        \/ \E c \in OrderIds, cfg \in Configs : SubmitBegun(p, c, cfg)
        \/ \E c \in CancelIds, b \in BrokerIds, cfg \in Configs : CancelBegun(p, c, b, cfg)
        \/ SubmitRechecked(p) \/ CandidateFound(p) \/ EngageBegun(p) \/ EngageWritten(p)
    BY <1>7, QuietBecomes, BegunFields, GoneFields
  <2>. QED
    BY <2>2, <2>3, <2>4, <2>5, <2>6, <2>7, <2>8, <2>9
<1>8. ASSUME Surroundings PROVE Timely'
  <2>1. UNCHANGED <<op, ledger>> /\ \A c : AttemptsOf(c)' = AttemptsOf(c)
    BY <1>8 DEF Surroundings, AttemptsOf
  <2>2. CASE Tick
    <3>1. Now' = Now + 1 /\ regress' = regress /\ \A p \in Procs : op[p].step # "transport"
      BY <2>2, NowTyped DEF Tick, Now
    <3>2. \A i \in DOMAIN ledger : ledger[i].ts <= Now + 1
      <4>1. \A i \in DOMAIN ledger : ledger[i].ts \in Nat
        <5>1. \A i \in DOMAIN ledger : ledger[i] \in Events
          BY DEF IInv, TypeOK
        <5>. QED
          BY <5>1 DEF Events
      <4>. QED
        BY <4>1, NowTyped DEF Timely
    <3>3. ASSUME NEW p \in Procs PROVE TimeSound(op[p])'
      <4>1. op[p].ready \in Nat /\ op[p].started \in Nat
        BY DEF IInv, TypeOK, Operations
      <4>2. TimeSound(op[p])
        BY DEF Timely
      <4>. QED
        BY <2>1, <3>1, <4>1, <4>2, NowTyped DEF TimeSound, Mutating
    <3>. QED
      BY <2>1, <3>1, <3>2, <3>3 DEF Timely
  <2>3. CASE Regress
    <3>1. Now' = Now /\ regress' <= MaxRegress /\ regress <= regress' /\ regress' \in Nat
      BY <2>3, NowTyped DEF Regress, Now
    <3>2. ASSUME NEW p \in Procs PROVE TimeSound(op[p])'
      <4>1. op[p].ready \in Nat /\ op[p].started \in Nat
        BY DEF IInv, TypeOK, Operations
      <4>2. ASSUME NEW i \in AttemptsOf(op[p].id) PROVE ledger[i].ts \in Nat
        <5>1. ledger[i] \in Events
          BY DEF AttemptsOf, EventsOf, IInv, TypeOK
        <5>. QED
          BY <5>1 DEF Events
      <4>3. TimeSound(op[p])
        BY DEF Timely
      <4>. QED
        BY <2>1, <3>1, <4>1, <4>2, <4>3, NowTyped DEF TimeSound, Mutating
    <3>. QED
      BY <2>1, <3>1, <3>2 DEF Timely
  <2>4. CASE BrokerSteps
    <3>1. UNCHANGED <<clock, regress>>
      BY <2>4 DEF BrokerSteps, BrokerTakesOrder, BrokerTakesCancel, BrokerRefuses, BrokerCancels,
         BrokerKeeps, BrokerFills, ForeignOrder
    <3>2. Now' = Now
      BY <3>1 DEF Now
    <3>. QED
      BY <2>1, <3>1, <3>2 DEF Timely, TimeSound, Mutating
  <2>. QED
    BY <1>8, <2>2, <2>3, <2>4 DEF Surroundings
<1>9. ASSUME UNCHANGED vars PROVE Timely'
  BY <1>9 DEF vars, Timely, TimeSound, Mutating, AttemptsOf, Now
<1>10. CASE Next
  BY <1>3, <1>4, <1>5, <1>6, <1>7, <1>8, <1>10, StepShape DEF Works, Verdicts
<1>. QED
  BY <1>9, <1>10

-----------------------------------------------------------------------------
(* A request goes out within the preflight of its attempt, and what the broker *)
(* makes of it is dated within one flight of that.                             *)

Within(i, t) ==
    ledger[i].ts <= t /\ t < ledger[i].ts + MaxPreflight + MaxRegress + MaxFlight
Punctual(c) ==
    /\ request[c].sent <= Now
    /\ \A i \in AttemptsOf(c) :
          /\ request[c].target = ledger[i].target
          /\ ledger[i].ts <= request[c].sent
          /\ request[c].sent <= ledger[i].ts + MaxPreflight + regress
TakenOrder(c) ==
    /\ request[c].state = "taken" <=> book[c].state # "none"
    /\ request[c].state = "taken" => \A i \in AttemptsOf(c) : Within(i, book[c].recv)
TakenCancel(c) ==
    request[c].state = "taken" =>
        \A i \in AttemptsOf(c) : \E t \in book[ledger[i].target].cancels : Within(i, t)
RequestSound(c) ==
    /\ request[c].state = "none" <=> transports[c] = 0
    /\ request[c].state # "none" => Punctual(c)
    /\ request[c].state = "sent" => Now < request[c].sent + MaxFlight
    /\ c \in OrderIds => TakenOrder(c)
    /\ c \in CancelIds => TakenCancel(c)
RequestsSound == \A c \in ClientIds : RequestSound(c)

\* A step that leaves c's request, or has none, and takes nothing back in the book.
LEMMA RequestKept ==
    ASSUME IInv, IInv', NEW c \in ClientIds, RequestSound(c),
           request'[c] = request[c], transports'[c] = transports[c],
           \/ /\ \A i \in AttemptsOf(c) : ledger'[i] = ledger[i]
              /\ AttemptsOf(c)' = AttemptsOf(c)
           \/ request[c].state = "none",
           Now <= Now', regress <= regress', request[c].state = "sent" => Now' < request[c].sent + MaxFlight,
           c \in OrderIds => /\ book'[c].state = "none" <=> book[c].state = "none"
                             /\ book[c].state # "none" => book'[c].recv = book[c].recv,
           \A b \in BrokerIds : book[b].cancels \subseteq book'[b].cancels
    PROVE  RequestSound(c)'
<1>1. /\ Now \in Nat /\ Now' \in Nat /\ request[c] \in Requests /\ request[c].sent \in Nat
      /\ regress \in Nat /\ regress' \in Nat
  <2>1. Now \in Nat /\ request[c] \in Requests /\ regress \in Nat /\ regress' \in Nat
    BY NowTyped DEF IInv, TypeOK
  <2>2. Now' \in Nat
    <3>1. PICK t \in Nat, r \in Nat : t = clock' /\ r = regress'
      BY DEF IInv, TypeOK
    <3>2. Now' = t + r
      BY <3>1 DEF Now
    <3>. QED
      BY <3>2
  <2>. QED
    BY <2>1, <2>2 DEF Requests
<1>2. CASE request[c].state = "none"
  BY <1>2 DEF RequestSound, TakenOrder, TakenCancel
<1>3. CASE request[c].state # "none"
  <2>1. AttemptsOf(c)' = AttemptsOf(c) /\ \A i \in AttemptsOf(c) : ledger'[i] = ledger[i]
    BY <1>3
  <2>2. Punctual(c)'
    <3>1. Punctual(c) /\ \A i \in AttemptsOf(c) : ledger[i].ts \in Nat
      <4>1. \A i \in AttemptsOf(c) : ledger[i] \in Events
        BY DEF AttemptsOf, EventsOf, IInv, TypeOK
      <4>. QED
        BY <1>3, <4>1 DEF RequestSound, Events
    <3>. QED
      BY <1>1, <2>1, <3>1, NowTyped DEF Punctual
  <2>3. c \in OrderIds => TakenOrder(c)'
    BY <1>3, <2>1 DEF RequestSound, TakenOrder, Within
  <2>4. c \in CancelIds => TakenCancel(c)'
    <3>. SUFFICES ASSUME c \in CancelIds, request[c].state = "taken", NEW i \in AttemptsOf(c)
                  PROVE  \E t \in book'[ledger[i].target].cancels : Within(i, t)'
      BY <2>1 DEF TakenCancel
    <3>1. ledger[i].target \in BrokerIds
      <4>1. i \in DOMAIN ledger /\ ledger[i].id = c /\ ledger[i].type \in AttemptEvents
        BY DEF AttemptsOf, EventsOf
      <4>. QED
        BY <4>1, NamesAssumption DEF IInv, LedgerSound, AttemptEvents
    <3>2. PICK t \in book[ledger[i].target].cancels : Within(i, t)
      BY DEF RequestSound, TakenCancel
    <3>. QED
      BY <2>1, <3>1, <3>2 DEF Within
  <2>. QED
    BY <1>1, <2>2, <2>3, <2>4 DEF RequestSound
<1>. QED
  BY <1>2, <1>3

\* A step of a process, apart from the call itself.
LEMMA RequestsUntouched ==
    ASSUME IInv, IInv', RequestsSound, UNCHANGED <<transports, request, book, clock, regress>>,
           \A c \in ClientIds :
              \/ /\ \A i \in AttemptsOf(c) : ledger'[i] = ledger[i]
                 /\ AttemptsOf(c)' = AttemptsOf(c)
              \/ request[c].state = "none"
    PROVE  RequestsSound'
<1>1. Now' = Now /\ Now <= Now' /\ regress <= regress'
  BY NowTyped DEF Now
<1>2. ASSUME NEW c \in ClientIds PROVE RequestSound(c)'
  BY <1>1, RequestKept DEF RequestsSound, RequestSound
<1>. QED
  BY <1>2 DEF RequestsSound

LEMMA RequestsWork ==
    ASSUME IInv, IInv', Timely, RequestsSound, NEW p \in Procs, Works(p)
    PROVE  RequestsSound'
<1>1. ASSUME NEW e \in Events, Notes(p, e) \/ Doubts(p, e) \/ \E verdict \in Verdicts : Decides(p, e, verdict)
      PROVE  RequestsSound'
  <2>1. Writes(p, e) /\ \A c : AttemptsOf(c)' = AttemptsOf(c)
    BY <1>1, NotesLeave, DoubtsLeave, DecidesLeave DEF Notes, Doubts, Decides
  <2>2. \A c : \A i \in AttemptsOf(c) : ledger'[i] = ledger[i]
    BY <2>1, LedgerGrows DEF Writes, AttemptsOf, EventsOf
  <2>. QED
    BY <2>1, <2>2, RequestsUntouched DEF Writes
<1>2. ASSUME NEW e \in Events, Opens(p, e) PROVE RequestsSound'
  <2>1. Writes(p, e) /\ e.id = op[p].id /\ transports[e.id] = 0
    BY <1>2 DEF Opens, Starting
  <2>2. e.id \in ClientIds /\ \A c : c # e.id => AttemptsOf(c)' = AttemptsOf(c)
    BY <1>2, OpensLeave
  <2>3. request[e.id].state = "none"
    BY <2>1, <2>2 DEF RequestsSound, RequestSound
  <2>4. \A c : \A i \in AttemptsOf(c) : ledger'[i] = ledger[i]
    BY <2>1, LedgerGrows DEF Writes, AttemptsOf, EventsOf
  <2>. QED
    BY <2>1, <2>2, <2>3, <2>4, RequestsUntouched DEF Writes
<1>3. ASSUME Sends(p) PROVE RequestsSound'
  <2>0. PICK d : d = op[p].id
    OBVIOUS
  <2>1. /\ Mutating(op[p]) /\ op[p].step = "transport" /\ d \in ClientIds
        /\ transports[d] = 0 /\ transports'[d] = 1
        /\ request'[d] = [state |-> "sent", target |-> op[p].target, sent |-> Now]
        /\ \A c \in ClientIds \ {d} : request'[c] = request[c] /\ transports'[c] = transports[c]
        /\ UNCHANGED <<ledger, book, clock, regress>>
    BY <1>3, <2>0, SendsBecomes
  <2>2. /\ Now' = Now /\ Now <= Now' /\ Now \in Nat /\ regress' = regress /\ regress <= regress'
        /\ \A c : AttemptsOf(c)' = AttemptsOf(c)
    BY <2>1, NowTyped DEF Now, AttemptsOf
  <2>3. ASSUME NEW c \in ClientIds, c # d PROVE RequestSound(c)'
    BY <2>1, <2>2, <2>3, RequestKept DEF RequestsSound, RequestSound
  <2>4. RequestSound(d)'
    <3>1. request[d].state = "none"
      BY <2>1 DEF RequestsSound, RequestSound
    <3>2. request'[d].state = "sent" /\ request'[d].target = op[p].target /\ request'[d].sent = Now
      BY <2>1
    <3>3. ASSUME NEW i \in AttemptsOf(d)
          PROVE  /\ ledger[i].target = op[p].target /\ ledger[i].ts <= Now
                 /\ Now <= ledger[i].ts + MaxPreflight + regress
      <4>1. i \in DOMAIN ledger /\ ledger[i].ts \in Nat
        <5>1. i \in DOMAIN ledger
          BY DEF AttemptsOf, EventsOf
        <5>2. ledger[i] \in Events
          BY <5>1 DEF IInv, TypeOK
        <5>. QED
          BY <5>1, <5>2 DEF Events
      <4>2. TimeSound(op[p]) /\ op[p].ready \in Nat /\ op[p].started \in Nat
        BY DEF Timely, IInv, TypeOK, Operations
      <4>3. ledger[i].target = op[p].target /\ ledger[i].ts <= Now
        BY <2>0, <2>1, <4>1, <4>2 DEF TimeSound, Timely
      <4>4. CASE op[p].kind = "submit"
        <5>1. /\ ledger[i].ts = op[p].ready /\ op[p].started <= op[p].ready + regress
              /\ Now <= op[p].started + MaxPreflight
          BY <2>0, <2>1, <4>2, <4>4 DEF TimeSound, Mutating
        <5>. QED
          BY <4>2, <4>3, <5>1, NowTyped
      <4>5. CASE op[p].kind = "cancel"
        <5>1. Now <= ledger[i].ts + regress
          BY <2>0, <2>1, <4>2, <4>5 DEF TimeSound, Mutating
        <5>. QED
          BY <4>1, <4>3, <5>1, NowTyped
      <4>. QED
        BY <2>1, <4>4, <4>5 DEF Mutating
    <3>4. Punctual(d)'
      BY <2>1, <2>2, <3>2, <3>3 DEF Punctual
    <3>5. Now' < request'[d].sent + MaxFlight
      BY <2>2, <3>2, NowTyped
    <3>6. d \in OrderIds => TakenOrder(d)'
      BY <2>1, <3>1, <3>2 DEF RequestsSound, RequestSound, TakenOrder
    <3>7. TakenCancel(d)'
      BY <3>2 DEF TakenCancel
    <3>. QED
      BY <2>1, <3>2, <3>4, <3>5, <3>6, <3>7 DEF RequestSound
  <2>. QED
    BY <2>3, <2>4 DEF RequestsSound
<1>4. ASSUME Quiet(p) PROVE RequestsSound'
  BY <1>4, RequestsUntouched DEF Quiet, AttemptsOf
<1>. QED
  BY <1>1, <1>2, <1>3, <1>4 DEF Works

\* A step of the broker: the clocks and the ledger stay, one request may be
\* answered and one order of the book may change.
LEMMA RequestsAnswered ==
    ASSUME IInv, IInv', Timely, RequestsSound, BrokerSteps, Surroundings
    PROVE  RequestsSound'
<1>1. /\ request \in [ClientIds -> Requests] /\ book \in [BrokerIds -> Orders]
  BY DEF IInv, TypeOK
<1>2. UNCHANGED <<ledger, transports, clock, regress>>
  BY DEF Surroundings, BrokerSteps, BrokerTakesOrder, BrokerTakesCancel, BrokerRefuses,
     BrokerCancels, BrokerKeeps, BrokerFills, ForeignOrder
<1>3. /\ Now' = Now /\ Now <= Now' /\ regress <= regress' /\ regress' = regress
      /\ \A c : AttemptsOf(c)' = AttemptsOf(c)
  BY <1>2, NowTyped DEF Now, AttemptsOf
<1>4. ASSUME NEW c \in ClientIds, request'[c] = request[c],
             c \in OrderIds => /\ book'[c].state = "none" <=> book[c].state = "none"
                               /\ book[c].state # "none" => book'[c].recv = book[c].recv,
             \A b \in BrokerIds : book[b].cancels \subseteq book'[b].cancels
      PROVE  RequestSound(c)'
  BY <1>2, <1>3, <1>4, RequestKept DEF RequestsSound, RequestSound
<1>5. ASSUME NEW d \in ClientIds, request[d].state = "sent", request'[d].target = request[d].target,
             request'[d].sent = request[d].sent
      PROVE  /\ Punctual(d)' /\ transports'[d] # 0
             /\ \A i \in AttemptsOf(d) : /\ request[d].target = ledger[i].target
                                         /\ ledger'[i] = ledger[i] /\ Within(i, Now)
  <2>1. RequestSound(d) /\ Punctual(d) /\ transports'[d] # 0 /\ Now < request[d].sent + MaxFlight
    BY <1>2, <1>5 DEF RequestsSound, RequestSound
  <2>2. Punctual(d)'
    BY <1>2, <1>3, <1>5, <2>1 DEF Punctual
  <2>3. ASSUME NEW i \in AttemptsOf(d) PROVE Within(i, Now)
    <3>1. ledger[i] \in Events
      BY DEF IInv, TypeOK, AttemptsOf, EventsOf
    <3>2. ledger[i].ts \in Nat /\ request[d].sent \in Nat
      BY <1>1, <3>1 DEF Events, Requests
    <3>3. /\ ledger[i].ts <= request[d].sent /\ request[d].sent <= Now
          /\ request[d].sent <= ledger[i].ts + MaxPreflight + regress
      BY <2>1 DEF Punctual
    <3>4. regress <= MaxRegress
      BY DEF Timely
    <3>. QED
      BY <2>1, <3>2, <3>3, <3>4, NowTyped DEF Within
  <2>. QED
    BY <1>2, <2>1, <2>2, <2>3 DEF Punctual
<1>6. ASSUME NEW d \in OrderIds, BrokerTakesOrder(d) PROVE RequestsSound'
  <2>1. /\ d \in ClientIds /\ d \in BrokerIds /\ d \notin CancelIds
    BY NamesAssumption DEF ClientIds, BrokerIds
  <2>2. /\ request[d].state = "sent" /\ request'[d].state = "taken"
        /\ request'[d].target = request[d].target /\ request'[d].sent = request[d].sent
        /\ \A c \in ClientIds \ {d} : request'[c] = request[c]
    BY <1>1, <1>6, <2>1 DEF BrokerTakesOrder, Answer, Requests
  <2>3. /\ book'[d].state = "working" /\ book'[d].recv = Now /\ book'[d].cancels = book[d].cancels
        /\ \A b \in BrokerIds \ {d} : book'[b] = book[b]
    BY <1>1, <1>6, <2>1 DEF BrokerTakesOrder, Orders
  <2>4. ASSUME NEW c \in ClientIds, c # d PROVE RequestSound(c)'
    BY <1>4, <2>2, <2>3, <2>4 DEF BrokerIds
  <2>5. RequestSound(d)'
    <3>1. /\ Punctual(d)' /\ transports'[d] # 0
          /\ \A i \in AttemptsOf(d) : ledger'[i] = ledger[i] /\ Within(i, Now)
      BY <1>5, <2>1, <2>2
    <3>2. TakenOrder(d)'
      BY <1>3, <2>2, <2>3, <3>1 DEF TakenOrder, Within
    <3>. QED
      BY <2>1, <2>2, <3>1, <3>2 DEF RequestSound
  <2>. QED
    BY <2>4, <2>5 DEF RequestsSound
<1>7. ASSUME NEW d \in CancelIds, BrokerTakesCancel(d) PROVE RequestsSound'
  <2>0. PICK b : b = request[d].target
    OBVIOUS
  <2>1. d \in ClientIds /\ d \notin OrderIds
    BY NamesAssumption DEF ClientIds
  <2>2. /\ request[d].state = "sent" /\ request'[d].state = "taken"
        /\ request'[d].target = request[d].target /\ request'[d].sent = request[d].sent
        /\ \A c \in ClientIds \ {d} : request'[c] = request[c]
    BY <1>1, <1>7, <2>1 DEF BrokerTakesCancel, Answer, Requests
  <2>3. \A x \in BrokerIds :
           /\ book'[x].state = "none" <=> book[x].state = "none"
           /\ book'[x].recv = book[x].recv /\ book[x].cancels \subseteq book'[x].cancels
           /\ x = b => Now \in book'[x].cancels
    BY <1>1, <1>7, <2>0 DEF BrokerTakesCancel, Orders
  <2>4. ASSUME NEW c \in ClientIds, c # d PROVE RequestSound(c)'
    BY <1>4, <2>2, <2>3, <2>4 DEF BrokerIds
  <2>5. RequestSound(d)'
    <3>1. /\ Punctual(d)' /\ transports'[d] # 0
          /\ \A i \in AttemptsOf(d) : /\ request[d].target = ledger[i].target
                                      /\ ledger'[i] = ledger[i] /\ Within(i, Now)
      BY <1>5, <2>1, <2>2
    <3>2. ASSUME NEW i \in AttemptsOf(d)
          PROVE  \E t \in book'[ledger'[i].target].cancels : Within(i, t)'
      <4>1. i \in DOMAIN ledger /\ ledger[i].id = d /\ ledger[i].type \in AttemptEvents
        BY DEF AttemptsOf, EventsOf
      <4>2. ledger[i].target \in BrokerIds
        BY <4>1, NamesAssumption DEF IInv, LedgerSound, AttemptEvents
      <4>. QED
        BY <2>0, <2>3, <3>1, <4>2 DEF Within
    <3>3. TakenCancel(d)'
      BY <1>3, <3>2 DEF TakenCancel
    <3>. QED
      BY <2>1, <2>2, <3>1, <3>3 DEF RequestSound
  <2>. QED
    BY <2>4, <2>5 DEF RequestsSound
<1>8. ASSUME NEW d \in ClientIds, BrokerRefuses(d) PROVE RequestsSound'
  <2>1. /\ request[d].state = "sent" /\ request'[d].state = "refused"
        /\ request'[d].target = request[d].target /\ request'[d].sent = request[d].sent
        /\ \A c \in ClientIds \ {d} : request'[c] = request[c]
        /\ book' = book
    BY <1>1, <1>8 DEF BrokerRefuses, Answer, Requests
  <2>2. ASSUME NEW c \in ClientIds, c # d PROVE RequestSound(c)'
    BY <1>4, <2>1, <2>2
  <2>3. RequestSound(d)'
    <3>1. Punctual(d)' /\ transports'[d] # 0
      BY <1>5, <2>1
    <3>2. d \in OrderIds => TakenOrder(d)'
      BY <2>1 DEF TakenOrder, RequestsSound, RequestSound
    <3>3. TakenCancel(d)'
      BY <2>1 DEF TakenCancel
    <3>. QED
      BY <2>1, <3>1, <3>2, <3>3 DEF RequestSound
  <2>. QED
    BY <2>2, <2>3 DEF RequestsSound
<1>9. ASSUME request' = request,
             \A b \in BrokerIds :
                /\ book[b].cancels \subseteq book'[b].cancels
                /\ b \in OrderIds => /\ book'[b].state = "none" <=> book[b].state = "none"
                                    /\ book'[b].recv = book[b].recv
      PROVE  RequestsSound'
  BY <1>4, <1>9 DEF RequestsSound, BrokerIds
<1>10. ASSUME NEW b \in BrokerIds, BrokerCancels(b) \/ BrokerKeeps(b) \/ BrokerFills(b)
       PROVE  RequestsSound'
  <2>1. /\ request' = request
        /\ \A x \in BrokerIds :
              /\ book'[x].state = "none" <=> book[x].state = "none"
              /\ book'[x].recv = book[x].recv
              /\ book'[x].cancels = book[x].cancels
    <3>1. CASE BrokerCancels(b)
      <4>1. PICK t : book' = [book EXCEPT ![b].state = "done", ![b].cancelled = {t}]
        BY <3>1 DEF BrokerCancels
      <4>. QED
        BY <1>1, <3>1, <4>1 DEF BrokerCancels, Orders
    <3>2. CASE BrokerKeeps(b)
      BY <1>1, <3>2 DEF BrokerKeeps, Orders
    <3>3. CASE BrokerFills(b)
      BY <1>1, <3>3 DEF BrokerFills, Orders
    <3>. QED
      BY <1>10, <3>1, <3>2, <3>3
  <2>. QED
    BY <1>9, <2>1
<1>11. ASSUME NEW b \in ForeignIds, ForeignOrder(b) PROVE RequestsSound'
  <2>1. b \notin OrderIds
    BY NamesAssumption
  <2>2. /\ request' = request /\ \A x \in BrokerIds : book'[x].cancels = book[x].cancels
        /\ \A x \in BrokerIds \ {b} : book'[x] = book[x]
    BY <1>1, <1>11 DEF ForeignOrder, Orders
  <2>. QED
    BY <1>9, <2>1, <2>2
<1>. QED
  BY <1>6, <1>7, <1>8, <1>10, <1>11 DEF BrokerSteps

LEMMA RequestsStep ==
    ASSUME IInv, IInv', Timely, RequestsSound, [Next]_vars
    PROVE  RequestsSound'
<1>1. CASE Tick
  <2>1. UNCHANGED <<ledger, transports, request, book>> /\ Now' = Now + 1
    BY <1>1, NowTyped DEF Tick, stateVars, brokerVars, Now
  <2>2. \A c \in ClientIds : request[c].state = "sent" => Now + 1 < request[c].sent + MaxFlight
    BY <1>1 DEF Tick
  <2>3. ASSUME NEW c \in ClientIds PROVE RequestSound(c)'
    <3>1. AttemptsOf(c)' = AttemptsOf(c) /\ Now <= Now' /\ regress <= regress'
      BY <1>1, <2>1, NowTyped DEF AttemptsOf, Tick
    <3>. QED
      BY <2>1, <2>2, <3>1, RequestKept DEF RequestsSound
  <2>. QED
    BY <2>3 DEF RequestsSound
<1>2. ASSUME UNCHANGED <<ledger, transports, request, book>>, Now' = Now, regress <= regress' PROVE RequestsSound'
  <2>1. \A c : AttemptsOf(c)' = AttemptsOf(c)
    BY <1>2 DEF AttemptsOf
  <2>2. ASSUME NEW c \in ClientIds PROVE RequestSound(c)'
    BY <1>2, <2>1, RequestKept, NowTyped DEF RequestsSound, RequestSound
  <2>. QED
    BY <2>2 DEF RequestsSound
<1>3. CASE Regress
  <2>1. UNCHANGED <<ledger, transports, request, book>> /\ Now' = Now /\ regress <= regress'
    BY <1>3, NowTyped DEF Regress, stateVars, brokerVars, Now
  <2>. QED
    BY <1>2, <2>1
<1>4. CASE UNCHANGED vars
  BY <1>2, <1>4, NowTyped DEF vars, Now
<1>5. CASE Next
  BY <1>1, <1>3, <1>5, StepShape, RequestsWork, RequestsAnswered DEF Surroundings
<1>. QED
  BY <1>4, <1>5

-----------------------------------------------------------------------------
(* The match window of an unresolved mutation *)

\* The local clock steps back, in all, by no more than the match window leaves
\* over beyond a preflight and one transport. InWindow grants the one tick.
ClocksAgree == MaxRegress + MaxPreflight + MaxFlight <= MatchSeconds + 1

\* A bounded nonempty set of naturals has a greatest element.
LEMMA MaxThere ==
    ASSUME NEW S \in SUBSET Nat, S # {}, NEW n \in Nat, \A i \in S : i <= n
    PROVE  Max(S) \in S /\ \A i \in S : i <= Max(S)
<1>. DEFINE T == {n - i : i \in S}
<1>1. T \in SUBSET Nat /\ T # {}
  <2>1. \A i \in S : n - i \in Nat
    OBVIOUS
  <2>. QED
    BY <2>1
<1>2. PICK k \in T : \A j \in T : <<j, k>> \notin OpToRel(<, Nat)
  <2>. HIDE DEF T
  <2>. QED
    BY <1>1, NatLessThanWellFounded, WFMin, ZenonT(30)
<1>3. ASSUME NEW j \in T, j < k PROVE FALSE
  <2>1. <<j, k>> \in Nat \X Nat
    BY <1>1
  <2>2. <<j, k>>[1] < <<j, k>>[2]
    BY <1>3
  <2>3. <<j, k>> \in OpToRel(<, Nat)
    BY <2>1, <2>2, Zenon DEF OpToRel
  <2>. QED
    BY <1>2, <2>3
<1>4. PICK m \in S : k = n - m
  OBVIOUS
<1>5. \A i \in S : m >= i
  <2>. SUFFICES ASSUME NEW i \in S, i > m PROVE FALSE
    BY <1>4
  <2>1. n - i \in T /\ n - i < k
    BY <1>4
  <2>. QED
    BY <1>3, <2>1
<1>. QED
  BY <1>4, <1>5 DEF Max

\* The events of an id are dated, and the last of them is dated at most now.
LEMMA AnchorThere ==
    ASSUME IInv, Timely, NEW c \in Unresolved
    PROVE  /\ WindowEnd(c) \in Nat /\ ledger[AttemptOf(c)].ts \in Nat
           /\ ledger[AttemptOf(c)].ts + MatchSeconds <= WindowEnd(c)
<1>. DEFINE S == {ledger[i].ts : i \in {AttemptOf(c)} \cup EventsOf(ledger, c, UnknownEvents)}
<1>1. AttemptOf(c) \in DOMAIN ledger /\ ledger[AttemptOf(c)] \in Events
  BY AttemptThere
<1>2. {AttemptOf(c)} \cup EventsOf(ledger, c, UnknownEvents) \subseteq DOMAIN ledger
  BY <1>1 DEF EventsOf
<1>3. \A i \in DOMAIN ledger : ledger[i].ts \in Nat /\ ledger[i].ts <= Now
  <2>1. \A i \in DOMAIN ledger : ledger[i] \in Events
    BY DEF IInv, TypeOK
  <2>. QED
    BY <2>1 DEF Events, Timely
<1>4. S \in SUBSET Nat /\ ledger[AttemptOf(c)].ts \in S /\ \A t \in S : t <= Now
  BY <1>2, <1>3
<1>5. Max(S) \in S /\ \A t \in S : t <= Max(S)
  <2>. HIDE DEF S
  <2>. QED
    BY <1>4, MaxThere, NowTyped
<1>6. AnchorOf(c) \in Nat /\ ledger[AttemptOf(c)].ts <= AnchorOf(c)
  BY <1>4, <1>5 DEF AnchorOf
<1>. QED
  BY <1>1, <1>3, <1>6, NowTyped DEF WindowEnd

\* Once the window is over, a request is no longer on its way.
LEMMA WindowPassed ==
    ASSUME IInv, Timely, RequestsSound, NEW c \in Unresolved, clock >= WindowEnd(c)
    PROVE  request[c].state # "sent"
<1>. SUFFICES ASSUME request[c].state = "sent" PROVE FALSE
  OBVIOUS
<1>. DEFINE i == AttemptOf(c)
<1>1. i \in AttemptsOf(c) /\ c \in ClientIds
  BY AttemptThere
<1>2. /\ Now < request[c].sent + MaxFlight
      /\ request[c].sent <= ledger[i].ts + MaxPreflight + regress
  BY <1>1 DEF RequestsSound, RequestSound, Punctual
<1>3. request[c].sent \in Nat
  BY <1>1 DEF IInv, TypeOK, Requests
<1>4. ledger[i].ts \in Nat /\ ledger[i].ts + MatchSeconds <= clock
  BY AnchorThere, NowTyped
<1>. HIDE DEF i
<1>. QED
  BY <1>2, <1>3, <1>4, NowTyped, WindowAssumption

\* What the broker has taken of c shows in the window of c.
LEMMA TakenShows ==
    ASSUME ClocksAgree, IInv, Timely, NEW c \in Unresolved, NEW t \in Nat,
           Within(AttemptOf(c), t)
    PROVE  InWindow(c, t)
<1>1. /\ WindowEnd(c) \in Nat /\ ledger[AttemptOf(c)].ts \in Nat
      /\ ledger[AttemptOf(c)].ts + MatchSeconds <= WindowEnd(c)
  BY AnchorThere
<1>2. /\ ledger[AttemptOf(c)].ts <= t
      /\ t < ledger[AttemptOf(c)].ts + MaxPreflight + MaxRegress + MaxFlight
  BY DEF Within
<1>3. PICK a \in Nat, w \in Nat : a = ledger[AttemptOf(c)].ts /\ w = WindowEnd(c)
  BY <1>1
<1>4. a <= t + 1 /\ t <= w
  BY <1>1, <1>2, <1>3, NowTyped DEF ClocksAgree
<1>. QED
  BY <1>3, <1>4 DEF InWindow

-----------------------------------------------------------------------------
(* A mutation is settled when nothing is under way for it any more, here or   *)
(* on its way to the broker; that stays so.                                   *)

Settled(c) ==
    /\ AttemptsOf(c) # {} /\ request[c].state # "sent"
    /\ \A p \in Procs : ~(Mutating(op[p]) /\ op[p].id = c)

\* A mutation under way was so before, or is one that nothing was attempted of.
LEMMA MutationsGoOn ==
    ASSUME IInv, NEW p \in Procs, Works(p), Mutating(op'[p])
    PROVE  \/ Mutating(op[p]) /\ op'[p].id = op[p].id
           \/ AttemptsOf(op'[p].id) = {}
<1>1. op[p] \in Operations
  BY DEF IInv, TypeOK
<1>2. op'[p] # Idle
  BY DEF Mutating, Idle
<1>3. ASSUME NEW e, Notes(p, e) PROVE Mutating(op[p]) /\ op'[p].id = op[p].id
  <2>1. ReleaseRecord(p) => op[p].kind = "release"
    BY DEF ReleaseRecord, At
  <2>2. SubmitPreflight(p) => op[p].kind = "submit"
    BY DEF SubmitPreflight, At
  <2>. QED
    BY <1>1, <1>2, <1>3, <2>1, <2>2, WritesBecome DEF Operations, Mutating
<1>4. ASSUME NEW e, Opens(p, e) PROVE Mutating(op[p]) /\ op'[p].id = op[p].id
  BY <1>1, <1>4, WritesBecome DEF Opens, Operations
<1>5. ASSUME NEW e, Doubts(p, e) \/ \E verdict : Decides(p, e, verdict) PROVE FALSE
  BY <1>2, <1>5 DEF Doubts, Decides
<1>6. ASSUME Sends(p) PROVE Mutating(op[p]) /\ op'[p].id = op[p].id
  BY <1>1, <1>6, SendsBecomes DEF Operations
<1>7. ASSUME Quiet(p)
      PROVE  \/ Mutating(op[p]) /\ op'[p].id = op[p].id
             \/ AttemptsOf(op'[p].id) = {}
  <2>1. \A c, cfg : SubmitBegun(p, c, cfg) => ~Seen(ledger, c)
    BY DEF SubmitBegun, SubmitBegin
  <2>2. \A c, b, cfg : CancelBegun(p, c, b, cfg) => ~Seen(ledger, c)
    BY DEF CancelBegun, CancelBegin
  <2>3. \A c : ~Seen(ledger, c) => AttemptsOf(c) = {}
    BY UnseenIsResolved DEF AttemptsOf
  <2>4. \A c, cfg : SubmitBegun(p, c, cfg) => op'[p].id = c
    BY BegunFields
  <2>5. \A c, b, cfg : CancelBegun(p, c, b, cfg) => op'[p].id = c
    BY BegunFields
  <2>6. SubmitRechecked(p) \/ CandidateFound(p) => Mutating(op[p]) /\ op'[p].id = op[p].id
    BY GoneFields DEF Keeps, Mutating
  <2>7. \/ \E c \in OrderIds, cfg \in Configs : SubmitBegun(p, c, cfg)
        \/ \E c \in CancelIds, b \in BrokerIds, cfg \in Configs : CancelBegun(p, c, b, cfg)
        \/ SubmitRechecked(p) \/ CandidateFound(p)
    BY <1>7, QuietBecomes, BegunFields, GoneFields DEF Mutating
  <2>. QED
    BY <2>1, <2>2, <2>3, <2>4, <2>5, <2>6, <2>7
<1>. QED
  BY <1>3, <1>4, <1>5, <1>6, <1>7 DEF Works

LEMMA AttemptsKept ==
    ASSUME IInv, NEW c, [Next]_vars
    PROVE  AttemptsOf(c) \subseteq AttemptsOf(c)'
<1>1. ASSUME NEW e \in Events, ledger' = Append(ledger, e)
      PROVE  AttemptsOf(c) \subseteq AttemptsOf(c)'
  BY <1>1, LedgerGrows
<1>2. ASSUME UNCHANGED ledger PROVE AttemptsOf(c) \subseteq AttemptsOf(c)'
  BY <1>2 DEF AttemptsOf
<1>3. CASE Next
  <2>1. ASSUME NEW p \in Procs, Works(p) PROVE AttemptsOf(c) \subseteq AttemptsOf(c)'
    <3>1. \A e : Notes(p, e) \/ Opens(p, e) \/ Doubts(p, e) => ledger' = Append(ledger, e)
      BY DEF Notes, Opens, Doubts, Writes
    <3>2. \A e, verdict : Decides(p, e, verdict) => ledger' = Append(ledger, e)
      BY DEF Decides, Writes
    <3>3. Sends(p) \/ Quiet(p) => UNCHANGED ledger
      BY DEF Sends, Transport, Quiet
    <3>. QED
      BY <1>1, <1>2, <2>1, <3>1, <3>2, <3>3 DEF Works
  <2>. QED
    BY <1>2, <1>3, <2>1, StepShape DEF Surroundings
<1>. QED
  BY <1>2, <1>3 DEF vars

\* What the broker does to a request: it answers one that was sent.
LEMMA AnsweredOnce ==
    ASSUME IInv, Surroundings, NEW c \in ClientIds
    PROVE  \/ request'[c] = request[c]
           \/ request[c].state = "sent" /\ request'[c].state \in {"taken", "refused"}
<1>1. request \in [ClientIds -> Requests]
  BY DEF IInv, TypeOK
<1>2. ASSUME NEW d \in ClientIds, BrokerTakesOrder(d) \/ BrokerTakesCancel(d) \/ BrokerRefuses(d)
      PROVE  \/ request'[c] = request[c]
             \/ request[c].state = "sent" /\ request'[c].state \in {"taken", "refused"}
  BY <1>1, <1>2 DEF BrokerTakesOrder, BrokerTakesCancel, BrokerRefuses, Answer, Requests
<1>3. CASE Tick \/ Regress
  BY <1>3 DEF Tick, Regress, brokerVars
<1>4. CASE BrokerSteps
  BY <1>2, <1>4 DEF BrokerSteps, BrokerCancels, BrokerKeeps, BrokerFills, ForeignOrder, ClientIds
<1>. QED
  BY <1>3, <1>4 DEF Surroundings

\* A process changes a request only by sending it, for the first time.
LEMMA SentByCall ==
    ASSUME IInv, NEW p \in Procs, Works(p), NEW c \in ClientIds
    PROVE  \/ request'[c] = request[c]
           \/ /\ Sends(p) /\ op[p].id = c /\ Mutating(op[p]) /\ c \in Unresolved
              /\ op[p].step = "transport" /\ transports[c] = 0
<1>1. CASE Sends(p)
  BY <1>1, SendsBecomes
<1>2. CASE ~Sends(p)
  BY <1>2 DEF Works, Notes, Opens, Doubts, Decides, Writes, Quiet
<1>. QED
  BY <1>1, <1>2

LEMMA SettledKept ==
    ASSUME IInv, NEW c \in ClientIds, Settled(c), [Next]_vars
    PROVE  Settled(c)' /\ request'[c] = request[c]
<1>1. AttemptsOf(c)' # {}
  BY AttemptsKept DEF Settled
<1>2. ASSUME NEW p \in Procs, Works(p) PROVE Settled(c)' /\ request'[c] = request[c]
  <2>1. request'[c] = request[c]
    BY <1>2, SentByCall DEF Settled
  <2>2. \A q \in Procs \ {p} : op'[q] = Idle
    BY <1>2, OthersIdle
  <2>3. \A q \in Procs \ {p} : ~Mutating(op'[q])
    BY <2>2 DEF Idle, Mutating
  <2>4. ~(Mutating(op'[p]) /\ op'[p].id = c)
    BY <1>2, MutationsGoOn DEF Settled
  <2>. QED
    BY <1>1, <2>1, <2>3, <2>4 DEF Settled, Mutating
<1>3. ASSUME Surroundings PROVE Settled(c)' /\ request'[c] = request[c]
  BY <1>1, <1>3, AnsweredOnce DEF Settled, Surroundings, Mutating
<1>4. ASSUME UNCHANGED vars PROVE Settled(c)' /\ request'[c] = request[c]
  BY <1>1, <1>4 DEF vars, Settled, Mutating
<1>5. CASE Next
  BY <1>2, <1>3, <1>5, StepShape
<1>. QED
  BY <1>4, <1>5

-----------------------------------------------------------------------------
(* Evidence: a complete item is about a settled mutation, and an operator's  *)
(* rejection goes on only while the broker shows nothing of the mutation.    *)

EvidenceLedger ==
    \A i \in Reconciliations : \A item \in ledger[i].items : item.complete => Settled(item.id)

EvidenceSound(o) ==
    /\ o.kind = "reconcile" => \A item \in o.items : item.id \in Unresolved
    /\ o.kind = "resolve" =>
          /\ \A i \in AttemptsOf(o.id) : ledger[i].cfg = o.cfg
          /\ o.verdict = "rejected" => Settled(o.id)
          /\ o.verdict = "rejected" /\ o.step = "record" =>
                \/ \E item \in o.items : item.candidates # {}
                \/ request[o.id].state # "taken"
EvidencesSound == \A p \in Procs : EvidenceSound(op[p])

LEMMA ReconciliationTyped ==
    ASSUME IInv, NEW i \in Reconciliations
    PROVE  i \in DOMAIN ledger /\ ledger[i].items \subseteq Items
<1>1. i \in DOMAIN ledger
  BY DEF Reconciliations, EventsOfType
<1>2. ledger[i] \in Events
  BY <1>1 DEF IInv, TypeOK
<1>. QED
  BY <1>1, <1>2 DEF Events

\* The reconciliation a resolution rests on.
LEMMA ReconciliationThere ==
    ASSUME IInv, NEW c, ReconciliationsOf(c) # {}
    PROVE  Max(ReconciliationsOf(c)) \in Reconciliations
<1>1. ReconciliationsOf(c) \in SUBSET Nat /\ \A i \in ReconciliationsOf(c) : i <= Len(ledger)
  <2>1. ledger \in Seq(Events)
    BY DEF IInv, TypeOK
  <2>. QED
    BY <2>1 DEF ReconciliationsOf, Reconciliations, EventsOfType
<1>2. Len(ledger) \in Nat
  BY DEF IInv, TypeOK
<1>3. Max(ReconciliationsOf(c)) \in ReconciliationsOf(c)
  BY <1>1, <1>2, MaxThere
<1>. QED
  BY <1>3 DEF ReconciliationsOf

\* Whoever reconciles finds no mutation under way.
LEMMA ObservedSettled ==
    ASSUME IInv, Timely, RequestsSound, NEW p \in Procs, op[p].kind = "reconcile",
           \A q \in Procs \ {p} : op[q] = Idle,
           NEW item \in Items, item.id \in Unresolved, Observed(item).complete
    PROVE  Settled(item.id)
<1>1. clock >= WindowEnd(item.id)
  BY DEF Observed, Items
<1>2. request[item.id].state # "sent"
  BY <1>1, WindowPassed
<1>3. AttemptsOf(item.id) # {}
  BY AttemptThere
<1>4. \A q \in Procs : ~Mutating(op[q])
  BY DEF Mutating, Idle
<1>. QED
  BY <1>2, <1>3, <1>4 DEF Settled

LEMMA EvidenceLedgerStep ==
    ASSUME IInv, IInv', Timely, RequestsSound, EvidenceLedger, EvidencesSound, [Next]_vars
    PROVE  EvidenceLedger'
<1>1. ASSUME NEW i \in Reconciliations, NEW item \in ledger[i].items, item.complete
      PROVE  Settled(item.id)'
  <2>1. item.id \in ClientIds
    BY ReconciliationTyped DEF Items
  <2>2. Settled(item.id)
    BY <1>1 DEF EvidenceLedger
  <2>. QED
    BY <2>1, <2>2, SettledKept
<1>2. ASSUME NEW e \in Events, ledger' = Append(ledger, e), e.type # "broker_reconciliation"
      PROVE  EvidenceLedger'
  <2>1. \A i \in Reconciliations' : i \in Reconciliations /\ ledger'[i] = ledger[i]
    BY <1>2, LedgerGrows DEF Reconciliations, EventsOfType
  <2>. QED
    BY <1>1, <2>1 DEF EvidenceLedger
<1>3. ASSUME UNCHANGED ledger PROVE EvidenceLedger'
  BY <1>1, <1>3 DEF EvidenceLedger, Reconciliations, EventsOfType
<1>4. ASSUME NEW p \in Procs, NEW e \in Events, Notes(p, e) PROVE EvidenceLedger'
  <2>1. ledger' = Append(ledger, e)
    BY <1>4 DEF Notes, Writes
  <2>2. CASE e.type # "broker_reconciliation"
    BY <1>2, <2>1, <2>2
  <2>3. CASE e.type = "broker_reconciliation"
    <3>1. ReconcileRecord(p) /\ e.items = {Observed(item) : item \in op[p].items}
      BY <1>4, <2>3 DEF Notes
    <3>2. op[p].kind = "reconcile" /\ \A q \in Procs \ {p} : op[q] = Idle
      BY <1>4, <3>1 DEF ReconcileRecord, At, Notes, Writes, Alone
    <3>3. ASSUME NEW item \in op[p].items
          PROVE  /\ Observed(item).id = item.id /\ item.id \in ClientIds
                 /\ Observed(item).complete => Settled(item.id)
      <4>1. item \in Items
        BY DEF IInv, TypeOK, Operations
      <4>2. item.id \in Unresolved
        BY <3>2 DEF EvidencesSound, EvidenceSound
      <4>3. Observed(item).complete => Settled(item.id)
        BY <3>2, <4>1, <4>2, ObservedSettled
      <4>. QED
        BY <4>1, <4>3 DEF Observed, Items
    <3>4. \A item \in e.items : item.complete => Settled(item.id)'
      BY <3>1, <3>3, SettledKept
    <3>5. \A i \in Reconciliations' : i = NewAt \/ (i \in Reconciliations /\ ledger'[i] = ledger[i])
      BY <2>1, LedgerGrows DEF Reconciliations, EventsOfType
    <3>6. ledger'[NewAt] = e
      BY <2>1, LedgerGrows
    <3>. QED
      BY <1>1, <3>4, <3>5, <3>6 DEF EvidenceLedger
  <2>. QED
    BY <2>2, <2>3
<1>5. ASSUME NEW p \in Procs, NEW e \in Events, NEW verdict \in Verdicts,
             Opens(p, e) \/ Doubts(p, e) \/ Decides(p, e, verdict)
      PROVE  EvidenceLedger'
  <2>1. ledger' = Append(ledger, e)
    BY <1>5 DEF Opens, Doubts, Decides, Writes
  <2>2. e.type # "broker_reconciliation"
    BY <1>5 DEF Opens, Attempted, Doubts, UnknownEvents, Decides, Outcome
  <2>. QED
    BY <1>2, <2>1, <2>2
<1>6. CASE Next
  BY <1>3, <1>4, <1>5, <1>6, StepShape DEF Works, Verdicts, Sends, Transport, Quiet, Surroundings
<1>. QED
  BY <1>3, <1>6 DEF vars

\* A fresh read that shows no candidate: the broker has not taken the mutation.
LEMMA NothingSeen ==
    ASSUME ClocksAgree, IInv, Timely, RequestsSound, NEW c \in Unresolved, NEW cfg,
           ledger[AttemptOf(c)].cfg = cfg, Evidence(c, cfg, TRUE).candidates = {}
    PROVE  request[c].state # "taken"
<1>. SUFFICES ASSUME request[c].state = "taken" PROVE FALSE
  OBVIOUS
<1>. DEFINE i == AttemptOf(c)
<1>1. i \in AttemptsOf(c) /\ c \in ClientIds /\ RequestSound(c)
  BY AttemptThere DEF RequestsSound
<1>2. CASE c \in CancelIds
  <2>1. CancelCandidates(c, ledger[i].target) = {}
    BY <1>2 DEF Evidence
  <2>2. PICK t \in book[ledger[i].target].cancels : Within(i, t)
    BY <1>1, <1>2 DEF RequestSound, TakenCancel
  <2>3. ledger[i].target \in BrokerIds
    BY <1>2, AttemptFound DEF IInv
  <2>4. t \in Nat
    BY <2>3 DEF IInv, TypeOK, Orders
  <2>5. InWindow(c, t)
    BY <2>2, <2>4, TakenShows
  <2>. QED
    BY <2>1, <2>2, <2>5 DEF CancelCandidates
<1>3. CASE c \in OrderIds
  <2>1. c \notin CancelIds /\ c \in Alike[c] /\ c \in BrokerIds
    BY <1>3, NamesAssumption, LimitsAssumption DEF BrokerIds
  <2>2. OrdersInWindow(c, Alike[c]) = {}
    BY <2>1 DEF Evidence
  <2>3. book[c].state # "none" /\ Within(i, book[c].recv)
    BY <1>1, <1>3 DEF RequestSound, TakenOrder
  <2>4. book[c].recv \in Nat
    BY <2>1 DEF IInv, TypeOK, Orders
  <2>5. InWindow(c, book[c].recv)
    BY <2>3, <2>4, TakenShows
  <2>. QED
    BY <2>1, <2>2, <2>3, <2>5 DEF OrdersInWindow
<1>. QED
  BY <1>1, <1>2, <1>3 DEF ClientIds

\* What an operation can become in a step that appends or sends.
LEMMA LoudBecome ==
    ASSUME IInv, NEW p \in Procs, Works(p), ~Quiet(p)
    PROVE  /\ op'[p].kind \notin {"reconcile", "resolve"}
           /\ ~(op'[p].kind = "cancel" /\ op'[p].step = "attempt")
<1>. DEFINE o == op'[p]
<1>1. op[p] \in Operations
  BY DEF IInv, TypeOK
<1>2. ASSUME NEW e, Notes(p, e) PROVE o.kind \notin {"reconcile", "resolve", "cancel"}
  <2>1. ReleaseRecord(p) => op[p].kind = "release"
    BY DEF ReleaseRecord, At
  <2>2. SubmitPreflight(p) => op[p].kind = "submit"
    BY DEF SubmitPreflight, At
  <2>3. CASE o = Idle
    BY <2>3 DEF Idle
  <2>4. CASE ReleaseRecord(p) /\ o = [op[p] EXCEPT !.step = "unlink"]
    BY <1>1, <2>1, <2>4 DEF Operations
  <2>5. CASE SubmitPreflight(p) /\ o = [op[p] EXCEPT !.step = "attempt", !.ready = clock]
    BY <1>1, <2>2, <2>5 DEF Operations
  <2>. QED
    BY <1>2, <2>3, <2>4, <2>5, WritesBecome
<1>3. ASSUME NEW e, Opens(p, e) PROVE o.kind \in {"submit", "cancel"} /\ o.step # "attempt"
  <2>1. op[p].kind \in {"submit", "cancel"}
    BY <1>3 DEF Opens, Mutating
  <2>. QED
    BY <1>1, <1>3, <2>1, WritesBecome DEF Operations
<1>4. ASSUME NEW e, Doubts(p, e) \/ \E verdict : Decides(p, e, verdict) PROVE o.kind = "none"
  BY <1>4 DEF Doubts, Decides, Idle
<1>5. ASSUME Sends(p) PROVE o.kind \in {"submit", "cancel"} /\ o.step # "attempt"
  <2>1. op[p].kind \in {"submit", "cancel"} /\ o = [op[p] EXCEPT !.step = "await"]
    BY <1>5, SendsBecomes DEF Mutating
  <2>. QED
    BY <1>1, <2>1 DEF Operations
<1>. QED
  BY <1>2, <1>3, <1>4, <1>5 DEF Works

LEMMA EvidencesStep ==
    ASSUME ClocksAgree, IInv, IInv', Timely, RequestsSound, EvidenceLedger, EvidencesSound,
           [Next]_vars
    PROVE  EvidencesSound'
<1>1. ASSUME NEW p \in Procs, Works(p), EvidenceSound(op[p])' PROVE EvidencesSound'
  <2>1. \A q \in Procs \ {p} : op'[q].kind = "none"
    BY <1>1, OthersIdle DEF Idle
  <2>. QED
    BY <1>1, <2>1 DEF EvidencesSound, EvidenceSound
<1>2. ASSUME NEW p \in Procs, Works(p), op'[p].kind \notin {"reconcile", "resolve"}
      PROVE  EvidencesSound'
  BY <1>1, <1>2 DEF EvidenceSound
<1>3. ASSUME NEW p \in Procs, Works(p), ~Quiet(p) PROVE EvidencesSound'
  BY <1>2, <1>3, LoudBecome
<1>4. ASSUME NEW p \in Procs, Quiet(p) PROVE EvidencesSound'
  <2>0. Works(p) /\ UNCHANGED <<ledger, request>>
    BY <1>4 DEF Works, Quiet
  <2>1. Unresolved' = Unresolved /\ \A c : AttemptsOf(c)' = AttemptsOf(c)
    BY <2>0 DEF Unresolved, AttemptsOf
  <2>2. CASE \E cfg \in Configs, readable \in BOOLEAN : OrdersRead(p, cfg, readable)
    <3>1. PICK cfg, readable : OrdersRead(p, cfg, readable)
      BY <2>2
    <3>2. /\ op'[p].kind = "reconcile"
          /\ op'[p].items = {Evidence(c, cfg, readable) : c \in Unresolved}
      BY <3>1, BegunFields
    <3>3. \A c : Evidence(c, cfg, readable).id = c
      BY DEF Evidence
    <3>4. \A item \in op'[p].items : item.id \in Unresolved
      BY <3>2, <3>3
    <3>5. EvidenceSound(op[p])'
      BY <2>1, <3>2, <3>4 DEF EvidenceSound
    <3>. QED
      BY <1>1, <2>0, <3>5
  <2>3. CASE \E c \in ClientIds, verdict \in Verdicts, b \in BrokerIds : ResolveBegun(p, c, verdict, b)
    <3>1. PICK c \in ClientIds, verdict \in Verdicts, b \in BrokerIds : ResolveBegun(p, c, verdict, b)
      BY <2>3
    <3>2. /\ op'[p].kind = "resolve" /\ op'[p].step = "fresh" /\ op'[p].id = c
          /\ op'[p].cfg = ledger[AttemptOf(c)].cfg /\ op'[p].verdict = verdict
      BY <3>1, BegunFields
    <3>3. /\ c \in Unresolved /\ ReconciliationsOf(c) # {}
          /\ \E item \in ledger[Max(ReconciliationsOf(c))].items :
                item.id = c /\ Supports(item, verdict, b)
      BY <3>1 DEF ResolveBegun, ResolveBegin
    <3>4. AttemptsOf(c) = {AttemptOf(c)}
      BY <3>3, AttemptThere
    <3>5. verdict = "rejected" => Settled(c)
      BY <3>3, ReconciliationThere DEF EvidenceLedger, Supports
    <3>6. verdict = "rejected" => Settled(c)'
      BY <3>5, SettledKept
    <3>7. EvidenceSound(op[p])'
      BY <2>0, <2>1, <3>2, <3>4, <3>6 DEF EvidenceSound
    <3>. QED
      BY <1>1, <2>0, <3>7
  <2>4. CASE FreshlyRead(p)
    <3>1. PICK c, cfg : c = op[p].id /\ cfg = op[p].cfg
      OBVIOUS
    <3>2. /\ op[p].kind = "resolve" /\ op'[p].kind = "resolve" /\ op'[p].id = c /\ op'[p].cfg = cfg
          /\ op'[p].verdict = op[p].verdict /\ op'[p].items = {Evidence(c, cfg, TRUE)}
      BY <2>4, <3>1, GoneFields DEF Keeps
    <3>3. c \in Unresolved
      BY <3>1, <3>2 DEF IInv, OperationsSound, OperationSound
    <3>4. /\ \A i \in AttemptsOf(c) : ledger[i].cfg = cfg
          /\ op[p].verdict = "rejected" => Settled(c)
      BY <3>1, <3>2 DEF EvidencesSound, EvidenceSound
    <3>5. op[p].verdict = "rejected" => Settled(c)'
      BY <3>3, <3>4, SettledKept DEF Unresolved
    <3>6. Evidence(c, cfg, TRUE).candidates = {} => request[c].state # "taken"
      BY <3>3, <3>4, AttemptThere, NothingSeen
    <3>7. EvidenceSound(op[p])'
      BY <2>0, <2>1, <3>2, <3>4, <3>5, <3>6 DEF EvidenceSound
    <3>. QED
      BY <1>1, <2>0, <3>7
  <2>5. CASE op'[p].kind \notin {"reconcile", "resolve"}
    BY <1>2, <2>0, <2>5
  <2>. QED
    BY <1>4, <2>2, <2>3, <2>4, <2>5, QuietBecomes, BegunFields, GoneFields
<1>5. ASSUME UNCHANGED <<op, ledger>>,
             \A c \in ClientIds : Settled(c) => Settled(c)' /\ request'[c] = request[c]
      PROVE  EvidencesSound'
  <2>1. Unresolved' = Unresolved /\ \A c : AttemptsOf(c)' = AttemptsOf(c)
    BY <1>5 DEF Unresolved, AttemptsOf
  <2>2. ASSUME NEW p \in Procs PROVE EvidenceSound(op[p])'
    <3>1. PICK o : o = op[p]
      OBVIOUS
    <3>2. EvidenceSound(o) /\ op'[p] = o
      BY <1>5, <3>1 DEF EvidencesSound
    <3>3. o.kind = "resolve" => o.id \in ClientIds
      BY <3>1 DEF IInv, OperationsSound, OperationSound, Unresolved
    <3>. QED
      BY <1>5, <2>1, <3>2, <3>3 DEF EvidenceSound
  <2>. QED
    BY <2>2 DEF EvidencesSound
<1>6. \A c \in ClientIds : Settled(c) => Settled(c)' /\ request'[c] = request[c]
  BY SettledKept
<1>7. CASE Next
  BY <1>3, <1>4, <1>5, <1>6, <1>7, StepShape DEF Surroundings
<1>. QED
  BY <1>5, <1>6, <1>7 DEF vars

-----------------------------------------------------------------------------
(* What is recorded as rejected *)

\* The outcome event that a decision appends is the one of its verdict.
LEMMA OutcomesApart ==
    \A c, v, w : v \in Verdicts /\ w \in Verdicts /\ Outcome(c, v) = Outcome(c, w) => v = w
  BY DEF Outcome, Verdicts

\* A step changes what is recorded of a verdict only by deciding on it.
LEMMA OutcomeRecorded ==
    ASSUME IInv, NEW c \in ClientIds, NEW v \in Verdicts, [Next]_vars
    PROVE  \/ HasOutcome(c, v)' <=> HasOutcome(c, v)
           \/ \E p \in Procs, e \in Events : Decides(p, e, v) /\ e.id = c
<1>1. ASSUME NEW e \in Events, ledger' = Append(ledger, e), e.id # c \/ e.type # Outcome(c, v)
      PROVE  HasOutcome(c, v)' <=> HasOutcome(c, v)
  <2>1. ledger \in Seq(Events)
    BY DEF IInv, TypeOK
  <2>2. PICK types : types = {Outcome(c, v)}
    OBVIOUS
  <2>3. {i \in {Len(ledger) + 1} : e.id = c /\ e.type \in types} = {}
    BY <1>1, <2>2
  <2>4. EventsOf(ledger', c, types) = EventsOf(ledger, c, types)
    <3>1. EventsOf(Append(ledger, e), c, types) =
             EventsOf(ledger, c, types) \cup {i \in {Len(ledger) + 1} : e.id = c /\ e.type \in types}
      BY <2>1, EventsOfAppend
    <3>. QED
      BY <1>1, <2>3, <3>1
  <2>. QED
    BY <2>2, <2>4 DEF HasOutcome, Outcome
<1>2. ASSUME UNCHANGED ledger PROVE HasOutcome(c, v)' <=> HasOutcome(c, v)
  BY <1>2 DEF HasOutcome, Outcome
<1>3. ASSUME NEW p \in Procs, NEW e \in Events, Notes(p, e) \/ Opens(p, e) \/ Doubts(p, e)
      PROVE  HasOutcome(c, v)' <=> HasOutcome(c, v)
  <2>1. ledger' = Append(ledger, e)
    BY <1>3 DEF Notes, Opens, Doubts, Writes
  <2>2. e.type \notin ResolvedEvents /\ Outcome(c, v) \in ResolvedEvents
    BY <1>3, OutcomeTyped DEF Notes, Opens, Doubts, Attempted, OtherEvents, UnknownEvents, ResolvedEvents
  <2>. QED
    BY <1>1, <2>1, <2>2
<1>4. ASSUME NEW p \in Procs, NEW e \in Events, NEW verdict \in Verdicts, Decides(p, e, verdict)
      PROVE  \/ HasOutcome(c, v)' <=> HasOutcome(c, v)
             \/ Decides(p, e, v) /\ e.id = c
  <2>1. ledger' = Append(ledger, e) /\ e.type = Outcome(e.id, verdict)
    BY <1>4 DEF Decides, Writes
  <2>. QED
    BY <1>1, <1>4, <2>1, OutcomesApart
<1>5. CASE Next
  <2>1. ASSUME NEW p \in Procs, Works(p)
        PROVE  \/ HasOutcome(c, v)' <=> HasOutcome(c, v)
               \/ \E e \in Events : Decides(p, e, v) /\ e.id = c
    BY <1>2, <1>3, <1>4, <2>1 DEF Works, Sends, Transport, Quiet
  <2>. QED
    BY <1>2, <1>5, <2>1, StepShape DEF Surroundings
<1>. QED
  BY <1>2, <1>5 DEF vars

\* What is decided is not unresolved.
LEMMA DecidedResolved ==
    ASSUME DecidedOnce, NEW c \in ClientIds, NEW v, HasOutcome(c, v)
    PROVE  c \notin Unresolved
<1>1. Outcome(c, v) \in ResolvedEvents
  BY DEF Outcome, ResolvedEvents
<1>2. OutcomesOf(c) # {}
  BY <1>1 DEF HasOutcome, OutcomesOf, EventsOf
<1>. QED
  BY <1>2 DEF DecidedOnce

\* What is over stays over.
LEMMA OverKept ==
    ASSUME IInv, NEW c \in ClientIds, c \notin Unresolved, ~Live(c), [Next]_vars
    PROVE  ~Live(c)'
<1>1. ASSUME NEW p \in Procs, Works(p) PROVE ~Live(c)'
  BY <1>1, SentByCall DEF Live
<1>2. ASSUME Surroundings PROVE ~Live(c)'
  BY <1>2, AnsweredOnce DEF Live
<1>3. CASE Next
  BY <1>1, <1>2, <1>3, StepShape
<1>. QED
  BY <1>3 DEF vars, Live

LEMMA RejectionStep ==
    ASSUME IInv, DecidedOnce, RequestsSound, EvidencesSound, RejectionIsTrue, [Next]_vars
    PROVE  RejectionIsTrue'
<1>. SUFFICES ASSUME NEW c \in ClientIds, HasOutcome(c, "rejected")' PROVE ~Live(c)'
  BY DEF RejectionIsTrue
<1>1. CASE HasOutcome(c, "rejected")
  <2>1. c \notin Unresolved
    BY <1>1, DecidedResolved
  <2>. QED
    BY <1>1, <2>1, OverKept DEF RejectionIsTrue
<1>2. ASSUME NEW p \in Procs, NEW e \in Events, Decides(p, e, "rejected"), e.id = c
      PROVE  ~Live(c)'
  <2>1. op[p].id = c /\ Grounds(p, "rejected") /\ request'[c] = request[c]
    BY <1>2 DEF Decides, Writes
  <2>2. CASE op[p].kind = "submit" /\ op[p].step = "recheck"
    <3>1. transports[c] = 0
      BY <2>1, <2>2 DEF IInv, OperationsSound, OperationSound, Underway, Starting
    <3>2. request[c].state = "none"
      BY <3>1 DEF RequestsSound, RequestSound
    <3>. QED
      BY <2>1, <3>2 DEF Live
  <2>3. CASE op[p].kind = "resolve" /\ op[p].step = "record" /\ op[p].verdict = "rejected"
    <3>1. \A item \in op[p].items : Supports(Observed(item), "rejected", op[p].target)
      BY <2>1, <2>3 DEF Grounds
    <3>2. \A item \in op[p].items : item.candidates = {}
      <4>. SUFFICES ASSUME NEW item \in op[p].items PROVE item.candidates = {}
        OBVIOUS
      <4>1. item \in Items
        BY DEF IInv, TypeOK, Operations
      <4>2. Observed(item).candidates = item.candidates
        BY <4>1 DEF Observed, Items
      <4>. QED
        BY <3>1, <4>2 DEF Supports
    <3>3. Settled(c) /\ request[c].state # "taken"
      BY <2>1, <2>3, <3>2 DEF EvidencesSound, EvidenceSound
    <3>. QED
      BY <2>1, <3>3 DEF Settled, Live
  <2>. QED
    BY <2>1, <2>2, <2>3 DEF Grounds
<1>. QED
  BY <1>1, <1>2, OutcomeRecorded DEF Verdicts

-----------------------------------------------------------------------------
(* What is recorded as accepted *)

\* No broker order but its own has all the fields that are compared of an order.
FieldsIdentify == \A c \in OrderIds : Exact[c] = {c}

\* Only an order that is done has details of a processed cancellation.
BookSound == \A b \in BrokerIds : book[b].state # "done" => book[b].cancelled = {}

\* No cancellation of b has been processed, and none but c is on its way to it.
Clear(c, b) ==
    /\ book[b].state \in {"working", "done"} /\ book[b].cancelled = {}
    /\ \A d \in CancelIds \ {c} : request[d].state = "sent" => request[d].target # b

CancelSound ==
    /\ \A i \in EventsOfType("broker_cancel_attempt") :
          ledger[i].id \in Unresolved =>
             request[ledger[i].id].state = "taken" \/ Clear(ledger[i].id, ledger[i].target)
    /\ \A p \in Procs : At(p, {"cancel"}, "attempt") => Clear(op[p].id, op[p].target)

AcceptSound(o) ==
    o.kind = "resolve" /\ o.verdict = "accepted" /\ o.step = "record" =>
        \/ \E item \in o.items : item.exact = {}
        \/ request[o.id].state = "taken"
AcceptsSound == \A p \in Procs : AcceptSound(op[p])

\* The broker takes a request once.
LEMMA TakenKept ==
    ASSUME IInv, RequestsSound, NEW c \in ClientIds, request[c].state = "taken", [Next]_vars
    PROVE  request'[c] = request[c]
<1>1. transports[c] # 0
  BY DEF RequestsSound, RequestSound
<1>2. ASSUME NEW p \in Procs, Works(p) PROVE request'[c] = request[c]
  BY <1>1, <1>2, SentByCall
<1>3. ASSUME Surroundings PROVE request'[c] = request[c]
  BY <1>3, AnsweredOnce
<1>4. CASE Next
  BY <1>2, <1>3, <1>4, StepShape
<1>. QED
  BY <1>4 DEF vars

LEMMA BookStep ==
    ASSUME IInv, RequestsSound, BookSound, [Next]_vars
    PROVE  BookSound'
<1>1. book \in [BrokerIds -> Orders]
  BY DEF IInv, TypeOK
<1>2. ASSUME UNCHANGED book PROVE BookSound'
  BY <1>2 DEF BookSound
<1>3. ASSUME NEW c \in OrderIds, BrokerTakesOrder(c) PROVE BookSound'
  <2>1. c \in BrokerIds /\ c \in ClientIds
    BY DEF BrokerIds, ClientIds
  <2>2. book[c].state = "none"
    BY <1>3, <2>1 DEF BrokerTakesOrder, RequestsSound, RequestSound, TakenOrder
  <2>3. book[c].cancelled = {}
    BY <2>1, <2>2 DEF BookSound
  <2>. QED
    BY <1>1, <1>3, <2>3 DEF BrokerTakesOrder, BookSound, Orders
<1>4. ASSUME NEW c \in CancelIds, BrokerTakesCancel(c) PROVE BookSound'
  BY <1>1, <1>4 DEF BrokerTakesCancel, BookSound, Orders
<1>5. ASSUME NEW b \in BrokerIds, BrokerCancels(b) PROVE BookSound'
  <2>1. PICK t : book' = [book EXCEPT ![b].state = "done", ![b].cancelled = {t}]
    BY <1>5 DEF BrokerCancels
  <2>. QED
    BY <1>1, <2>1 DEF BookSound, Orders
<1>6. ASSUME NEW b \in BrokerIds, BrokerKeeps(b) \/ BrokerFills(b) PROVE BookSound'
  BY <1>1, <1>6 DEF BrokerKeeps, BrokerFills, BookSound, Orders
<1>7. ASSUME NEW b \in ForeignIds, ForeignOrder(b) PROVE BookSound'
  BY <1>1, <1>7 DEF ForeignOrder, BookSound, Orders
<1>8. CASE BrokerSteps
  BY <1>2, <1>3, <1>4, <1>5, <1>6, <1>7, <1>8 DEF BrokerSteps, BrokerRefuses
<1>9. CASE Tick \/ Regress
  BY <1>2, <1>9 DEF Tick, Regress, brokerVars
<1>10. ASSUME NEW p \in Procs, Works(p) PROVE BookSound'
  BY <1>2, <1>10 DEF Works, Notes, Opens, Doubts, Decides, Writes, Sends, Transport, Quiet
<1>11. CASE Next
  BY <1>8, <1>9, <1>10, <1>11, StepShape DEF Surroundings
<1>. QED
  BY <1>2, <1>11 DEF vars

\* While no other cancellation is sent to b, it stays clear until c is taken.
LEMMA ClearKept ==
    ASSUME IInv, RequestsSound, NEW c \in CancelIds, NEW b \in BrokerIds, Clear(c, b),
           [Next]_vars,
           \A p \in Procs : Sends(p) /\ op[p].id \in CancelIds \ {c} => op[p].target # b
    PROVE  Clear(c, b)' \/ request'[c].state = "taken"
<1>1. book \in [BrokerIds -> Orders] /\ request \in [ClientIds -> Requests]
  BY DEF IInv, TypeOK
<1>2. CancelIds \subseteq ClientIds /\ c \in ClientIds /\ OrderIds \cap CancelIds = {}
  BY NamesAssumption DEF ClientIds
<1>3. ASSUME UNCHANGED book, \A d \in CancelIds : request'[d] = request[d]
      PROVE  Clear(c, b)'
  BY <1>3 DEF Clear
<1>4. ASSUME NEW p \in Procs, Sends(p) PROVE Clear(c, b)'
  <2>1. PICK d : d = op[p].id
    OBVIOUS
  <2>2. /\ UNCHANGED book /\ \A x \in ClientIds \ {d} : request'[x] = request[x]
        /\ request'[d].target = op[p].target
    <3>1. /\ UNCHANGED book /\ \A x \in ClientIds \ {d} : request'[x] = request[x]
          /\ request'[d] = [state |-> "sent", target |-> op[p].target, sent |-> Now]
      BY <1>4, <2>1, SendsBecomes
    <3>. QED
      BY <3>1
  <2>. QED
    BY <1>2, <1>4, <2>1, <2>2 DEF Clear
<1>5. ASSUME NEW p \in Procs, Works(p) PROVE Clear(c, b)'
  <2>1. CASE Sends(p)
    BY <1>4, <2>1
  <2>2. CASE ~Sends(p)
    <3>1. UNCHANGED <<book, request>>
      BY <1>5, <2>2 DEF Works, Notes, Opens, Doubts, Decides, Writes, Quiet
    <3>. QED
      BY <1>3, <3>1
  <2>. QED
    BY <2>1, <2>2
<1>6. ASSUME NEW d \in OrderIds, BrokerTakesOrder(d) PROVE Clear(c, b)'
  <2>1. d \in ClientIds /\ book[d].state = "none"
    BY <1>6 DEF BrokerTakesOrder, RequestsSound, RequestSound, TakenOrder, ClientIds
  <2>2. d # b
    BY <2>1 DEF Clear
  <2>3. book'[b] = book[b] /\ \A x \in CancelIds : request'[x] = request[x]
    BY <1>1, <1>2, <1>6, <2>2 DEF BrokerTakesOrder, Answer
  <2>. QED
    BY <2>3 DEF Clear
<1>7. ASSUME NEW d \in CancelIds, BrokerTakesCancel(d)
      PROVE  Clear(c, b)' \/ request'[c].state = "taken"
  <2>1. /\ request[d].state = "sent" /\ request'[d].state = "taken"
        /\ \A x \in ClientIds \ {d} : request'[x] = request[x]
        /\ \A x \in BrokerIds \ {request[d].target} : book'[x] = book[x]
    BY <1>1, <1>2, <1>7 DEF BrokerTakesCancel, Answer, Requests
  <2>2. CASE d = c
    BY <2>1, <2>2
  <2>3. CASE d # c
    <3>1. request[d].target # b
      BY <2>1, <2>3 DEF Clear
    <3>2. book'[b] = book[b]
      BY <2>1, <3>1
    <3>3. \A x \in CancelIds \ {c} : request'[x].state = "sent" => request'[x] = request[x]
      BY <1>2, <2>1
    <3>. QED
      BY <3>2, <3>3 DEF Clear
  <2>. QED
    BY <2>2, <2>3
<1>8. ASSUME NEW d \in ClientIds, BrokerRefuses(d) PROVE Clear(c, b)'
  <2>1. /\ UNCHANGED book /\ request'[d].state = "refused"
        /\ \A x \in ClientIds \ {d} : request'[x] = request[x]
    BY <1>1, <1>8 DEF BrokerRefuses, Answer, Requests
  <2>2. \A x \in CancelIds \ {c} : request'[x].state = "sent" => request'[x] = request[x]
    BY <1>2, <2>1
  <2>. QED
    BY <2>1, <2>2 DEF Clear
<1>9. ASSUME NEW x \in BrokerIds, BrokerCancels(x) \/ BrokerKeeps(x) \/ BrokerFills(x)
      PROVE  Clear(c, b)'
  <2>1. UNCHANGED request /\ (x = b => BrokerFills(b))
    BY <1>9 DEF BrokerCancels, BrokerKeeps, BrokerFills, Clear
  <2>2. /\ book'[b].state \in {book[b].state, "done"} /\ book'[b].cancelled = book[b].cancelled
    <3>1. CASE x = b
      BY <1>1, <2>1, <3>1 DEF BrokerFills, Orders
    <3>2. CASE x # b
      BY <1>1, <1>9, <3>2 DEF BrokerCancels, BrokerKeeps, BrokerFills
    <3>. QED
      BY <3>1, <3>2
  <2>. QED
    BY <2>1, <2>2 DEF Clear
<1>10. ASSUME NEW x \in ForeignIds, ForeignOrder(x) PROVE Clear(c, b)'
  <2>1. x # b
    BY <1>10 DEF ForeignOrder, Clear
  <2>2. book'[b] = book[b] /\ UNCHANGED request
    BY <1>1, <1>10, <2>1 DEF ForeignOrder
  <2>. QED
    BY <2>2 DEF Clear
<1>11. CASE BrokerSteps
  BY <1>6, <1>7, <1>8, <1>9, <1>10, <1>11 DEF BrokerSteps
<1>12. CASE Tick \/ Regress
  BY <1>3, <1>12 DEF Tick, Regress, brokerVars
<1>13. CASE Next
  BY <1>5, <1>11, <1>12, <1>13, StepShape DEF Surroundings
<1>. QED
  BY <1>3, <1>13 DEF vars

\* What is on its way to the broker is undecided.
LEMMA SentUndecided ==
    ASSUME IInv, DecidedOnce, RequestsSound, RejectionIsTrue, AcceptanceIsTrue,
           NEW c \in ClientIds, request[c].state = "sent"
    PROVE  c \in Unresolved /\ AttemptsOf(c) # {}
<1>1. transports[c] # 0 /\ transports[c] \in Nat
  BY DEF RequestsSound, RequestSound, IInv, TypeOK
<1>2. AttemptsOf(c) # {}
  BY <1>1 DEF IInv, SentOnceAfterAttempt, AttemptsOf
<1>3. ~HasOutcome(c, "accepted") /\ ~HasOutcome(c, "rejected")
  BY DEF AcceptanceIsTrue, RejectionIsTrue, Live
<1>4. OutcomesOf(c) = {}
  BY <1>3 DEF DecidedOnce, OutcomesOf, HasOutcome, EventsOf
<1>5. IsUnresolved(ledger, c)
  BY <1>2, <1>4, TypesListed DEF IsUnresolved, OutcomesOf, AttemptsOf, EventsOf
<1>. QED
  BY <1>2, <1>5 DEF Unresolved

\* An id that was attempted is not made undecided by a later step.
LEMMA UnresolvedBefore ==
    ASSUME IInv, NEW c, AttemptsOf(c) # {}, c \in Unresolved', [Next]_vars
    PROVE  c \in Unresolved
<1>1. ASSUME UNCHANGED ledger PROVE c \in Unresolved
  BY <1>1 DEF Unresolved
<1>2. ASSUME NEW p \in Procs, Works(p) PROVE c \in Unresolved
  BY <1>1, <1>2, NotesLeave, OpensLeave, DoubtsLeave, DecidesLeave
  DEF Works, Sends, Transport, Quiet
<1>3. CASE Next
  BY <1>1, <1>2, <1>3, StepShape DEF Surroundings
<1>. QED
  BY <1>1, <1>3 DEF vars

LEMMA CancelAttemptThere ==
    ASSUME IInv, NEW c \in CancelIds, NEW i \in AttemptsOf(c)
    PROVE  i \in EventsOfType("broker_cancel_attempt") /\ ledger[i].id = c
  BY NamesAssumption DEF AttemptsOf, EventsOf, AttemptEvents, EventsOfType, IInv, LedgerSound

\* No other cancellation is on its way to an order that one may be aimed at.
LEMMA NoneInFlight ==
    ASSUME IInv, DecidedOnce, RequestsSound, RejectionIsTrue, AcceptanceIsTrue, NEW b,
           ~CancelUnresolvedFor(b), NEW d \in CancelIds, request[d].state = "sent"
    PROVE  request[d].target # b
<1>1. d \in ClientIds
  BY DEF ClientIds
<1>2. d \in Unresolved /\ AttemptsOf(d) # {}
  BY <1>1, SentUndecided
<1>3. PICK i \in AttemptsOf(d) : TRUE
  BY <1>2
<1>4. request[d].target = ledger[i].target
  BY <1>1, <1>3 DEF RequestsSound, RequestSound, Punctual
<1>5. /\ i \in DOMAIN ledger /\ ledger[i].type = "broker_cancel_attempt"
      /\ IsUnresolved(ledger, ledger[i].id)
  BY <1>2, <1>3, CancelAttemptThere DEF EventsOfType, Unresolved
<1>. QED
  BY <1>4, <1>5 DEF CancelUnresolvedFor

LEMMA CancelsStep ==
    ASSUME IInv, IInv', DecidedOnce, Aimed, Timely, RequestsSound, RejectionIsTrue,
           AcceptanceIsTrue, BookSound, CancelSound, [Next]_vars
    PROVE  CancelSound'
<1>1. ASSUME NEW i \in EventsOfType("broker_cancel_attempt")
      PROVE  /\ i \in DOMAIN ledger /\ ledger[i].id \in CancelIds /\ ledger[i].id \in ClientIds
             /\ ledger[i].target \in BrokerIds /\ i \in AttemptsOf(ledger[i].id)
  <2>1. i \in DOMAIN ledger /\ ledger[i].type = "broker_cancel_attempt"
    BY DEF EventsOfType
  <2>. QED
    BY <2>1 DEF IInv, LedgerSound, AttemptsOf, EventsOf, AttemptEvents, ClientIds
\* An undecided cancellation, by what was attempted before.
<1>2. ASSUME NEW i \in EventsOfType("broker_cancel_attempt"), NEW c, NEW b,
             c = ledger[i].id, b = ledger[i].target, c \in Unresolved
      PROVE  request'[c].state = "taken" \/ Clear(c, b)'
  <2>1. c \in CancelIds /\ c \in ClientIds /\ b \in BrokerIds
    BY <1>1, <1>2
  <2>2. CASE request[c].state = "taken"
    BY <2>1, <2>2, TakenKept
  <2>3. CASE Clear(c, b)
    <3>1. ASSUME NEW p \in Procs, Sends(p), op[p].id \in CancelIds \ {c} PROVE op[p].target # b
      <4>. SUFFICES ASSUME op[p].target = b PROVE FALSE
        OBVIOUS
      <4>1. PICK d : d = op[p].id /\ d \in CancelIds /\ d \in Unresolved /\ Mutating(op[p])
        BY <3>1, SendsBecomes
      <4>2. PICK j : j \in AttemptsOf(d)
        BY <4>1, AttemptThere
      <4>3. j \in EventsOfType("broker_cancel_attempt") /\ ledger[j].id = d
        BY <4>1, <4>2, CancelAttemptThere
      <4>4. ledger[j].target = b
        BY <4>1, <4>2 DEF Timely, TimeSound
      <4>5. ledger[i].id = ledger[j].id
        BY <1>2, <4>1, <4>3, <4>4 DEF Aimed, CancelsDoNotOverlap, EventsOfType
      <4>. QED
        BY <1>2, <3>1, <4>1, <4>3, <4>5
    <3>. QED
      BY <2>1, <2>3, <3>1, ClearKept
  <2>. QED
    BY <1>2, <2>2, <2>3 DEF CancelSound
<1>. DEFINE Attempts == \A i \in EventsOfType("broker_cancel_attempt") :
                ledger[i].id \in Unresolved =>
                   request[ledger[i].id].state = "taken" \/ Clear(ledger[i].id, ledger[i].target)
            Aiming == \A p \in Procs :
                At(p, {"cancel"}, "attempt") => Clear(op[p].id, op[p].target)
<1>3. ASSUME NEW i \in EventsOfType("broker_cancel_attempt"), ledger'[i] = ledger[i],
             ledger'[i].id \in Unresolved'
      PROVE  \/ request'[ledger'[i].id].state = "taken"
             \/ Clear(ledger[i].id, ledger[i].target)'
  <2>1. PICK c, b : c = ledger[i].id /\ b = ledger[i].target
    OBVIOUS
  <2>2. c \in Unresolved' /\ AttemptsOf(c) # {}
    BY <1>1, <1>3, <2>1
  <2>3. c \in Unresolved
    BY <2>2, UnresolvedBefore
  <2>4. request'[c].state = "taken" \/ Clear(c, b)'
    BY <1>2, <2>1, <2>3
  <2>5. ledger'[i].id = c /\ ledger'[i].target = b
    BY <1>3, <2>1
  <2>. QED
    BY <2>4, <2>5 DEF Clear
<1>4. ASSUME UNCHANGED ledger PROVE Attempts'
  BY <1>3, <1>4 DEF EventsOfType, Clear
<1>5. ASSUME NEW p \in Procs, NEW e \in Events, Writes(p, e), e.type # "broker_cancel_attempt"
      PROVE  Attempts'
  <2>1. \A i \in EventsOfType("broker_cancel_attempt")' :
           i \in EventsOfType("broker_cancel_attempt") /\ ledger'[i] = ledger[i]
    BY <1>5, LedgerGrows DEF EventsOfType, Writes
  <2>. QED
    BY <1>3, <2>1 DEF Clear
<1>6. ASSUME NEW p \in Procs, NEW e \in Events, Opens(p, e) PROVE Attempts'
  <2>1. Writes(p, e) /\ e.id = op[p].id /\ e.target = op[p].target
    BY <1>6 DEF Opens
  <2>2. CASE e.type # "broker_cancel_attempt"
    BY <1>5, <2>1, <2>2
  <2>3. CASE e.type = "broker_cancel_attempt"
    <3>1. At(p, {"cancel"}, "attempt")
      BY <1>6, <2>3 DEF Opens, Attempted, Mutating, At
    <3>2. Clear(e.id, e.target)
      BY <2>1, <3>1 DEF CancelSound
    <3>3. UNCHANGED <<book, request>>
      BY <2>1 DEF Writes
    <3>4. \A i \in EventsOfType("broker_cancel_attempt")' :
             \/ i \in EventsOfType("broker_cancel_attempt") /\ ledger'[i] = ledger[i]
             \/ ledger'[i] = e
      BY <2>1, LedgerGrows DEF EventsOfType, Writes
    <3>. QED
      BY <1>3, <3>2, <3>3, <3>4 DEF Clear
  <2>. QED
    BY <2>2, <2>3
<1>7. Attempts'
  <2>1. ASSUME NEW p \in Procs, NEW e \in Events, NEW verdict \in Verdicts,
               Notes(p, e) \/ Doubts(p, e) \/ Decides(p, e, verdict)
        PROVE  Attempts'
    <3>1. Writes(p, e)
      BY <2>1 DEF Notes, Doubts, Decides
    <3>2. e.type # "broker_cancel_attempt"
      BY <2>1 DEF Notes, OtherEvents, Doubts, UnknownEvents, Decides, Outcome
    <3>. QED
      BY <1>5, <3>1, <3>2
  <2>2. CASE Next
    <3>. HIDE DEF Attempts
    <3>1. ASSUME NEW p \in Procs, Works(p) PROVE Attempts'
      BY <1>4, <1>6, <2>1, <3>1 DEF Works, Verdicts, Sends, Transport, Quiet
    <3>. QED
      BY <1>4, <2>2, <3>1, StepShape DEF Surroundings
  <2>. QED
    BY <1>4, <2>2 DEF vars
\* A cancellation about to be attempted.
<1>8. ASSUME NEW p \in Procs, NEW c, NEW b, c = op'[p].id, b = op'[p].target,
             op'[p].kind = "cancel", op'[p].step = "attempt"
      PROVE  Clear(c, b)'
  <2>1. CASE op'[p] = op[p]
    <3>1. At(p, {"cancel"}, "attempt") /\ c = op[p].id /\ b = op[p].target
      BY <1>8, <2>1 DEF At
    <3>2. Clear(c, b) /\ c \in CancelIds /\ b \in BrokerIds /\ transports[c] = 0
      BY <3>1 DEF CancelSound, At, IInv, OperationsSound, OperationSound, Starting
    <3>3. \A q \in Procs : ~Sends(q)
      <4>1. ASSUME NEW q \in Procs, Sends(q) PROVE FALSE
        <5>1. op[q].step = "transport"
          BY <4>1, SendsBecomes
        <5>2. lock = p /\ lock = q
          BY <3>1, <5>1, NotIdle DEF IInv, LockHeld, At
        <5>. QED
          BY <3>1, <5>1, <5>2 DEF At
      <4>. QED
        BY <4>1
    <3>4. request[c].state = "none" /\ c \in ClientIds
      BY <3>2 DEF RequestsSound, RequestSound, ClientIds
    <3>5. request'[c].state # "taken"
      <4>1. \A q \in Procs : Works(q) => request'[c] = request[c]
        BY <3>3, <3>4, SentByCall
      <4>2. Surroundings => request'[c] = request[c]
        BY <3>4, AnsweredOnce
      <4>3. UNCHANGED vars => request'[c] = request[c]
        BY DEF vars
      <4>. QED
        BY <3>4, <4>1, <4>2, <4>3, StepShape
    <3>. QED
      BY <3>2, <3>3, <3>5, ClearKept
  <2>2. CASE CandidateFound(p) /\ Quiet(p)
    <3>1. Keeps(p) /\ op[p].kind = "cancel" /\ op[p].step = "preflight"
      BY <2>2, GoneFields DEF Keeps
    <3>2. c = op[p].id /\ b = op[p].target
      BY <1>8, <3>1 DEF Keeps
    <3>3. book[b].state = "working" /\ b \in BrokerIds
      BY <2>2, <3>1, <3>2 DEF CandidateFound, CancelCandidate, IInv, OperationsSound, OperationSound
    <3>4. book[b].cancelled = {}
      BY <3>3 DEF BookSound
    <3>5. ~CancelUnresolvedFor(b)
      BY <3>1, <3>2 DEF Aimed, AimSound
    <3>6. \A d \in CancelIds : request[d].state = "sent" => request[d].target # b
      BY <3>5, NoneInFlight
    <3>7. UNCHANGED <<book, request>>
      BY <2>2 DEF Quiet
    <3>. QED
      BY <3>3, <3>4, <3>6, <3>7 DEF Clear
  <2>3. op'[p] # Idle
    BY <1>8 DEF Idle
  <2>4. ASSUME NEW q \in Procs, Works(q) PROVE CandidateFound(p) /\ Quiet(p)
    <3>1. p = q
      BY <2>3, <2>4, OthersIdle
    <3>2. Quiet(p)
      BY <1>8, <2>4, <3>1, LoudBecome
    <3>. QED
      BY <1>8, <3>2, QuietBecomes, BegunFields, GoneFields
  <2>5. \/ op'[p] = op[p]
        \/ \E q \in Procs : Works(q)
    BY StepShape DEF Surroundings, vars
  <2>. QED
    BY <2>1, <2>2, <2>4, <2>5
<1>9. Aiming'
  <2>. SUFFICES ASSUME NEW p \in Procs, At(p, {"cancel"}, "attempt")'
                PROVE  Clear(op[p].id, op[p].target)'
    OBVIOUS
  <2>1. PICK c, b : c = op'[p].id /\ b = op'[p].target
    OBVIOUS
  <2>2. Clear(c, b)'
    BY <1>8, <2>1 DEF At
  <2>. QED
    BY <2>1, <2>2 DEF Clear
<1>. QED
  BY <1>7, <1>9 DEF CancelSound

\* An exact match in a fresh read: the broker has taken the mutation.
LEMMA SomethingSeen ==
    ASSUME FieldsIdentify, IInv, RequestsSound, CancelSound, NEW c \in Unresolved, NEW cfg,
           Evidence(c, cfg, TRUE).exact # {}
    PROVE  request[c].state = "taken"
<1>. DEFINE i == AttemptOf(c)
<1>1. i \in AttemptsOf(c) /\ c \in ClientIds /\ RequestSound(c)
  BY AttemptThere DEF RequestsSound
<1>2. CASE c \in CancelIds
  <2>1. CancelMatches(c, ledger[i].target) # {}
    BY <1>2 DEF Evidence
  <2>2. book[ledger[i].target].cancelled # {}
    BY <2>1 DEF CancelMatches
  <2>3. i \in EventsOfType("broker_cancel_attempt") /\ ledger[i].id = c
    BY <1>1, <1>2, CancelAttemptThere
  <2>. QED
    BY <2>2, <2>3 DEF CancelSound, Clear
<1>3. CASE c \in OrderIds
  <2>1. c \notin CancelIds /\ Exact[c] = {c}
    BY <1>3, NamesAssumption DEF FieldsIdentify
  <2>2. OrdersInWindow(c, {c}) # {}
    BY <2>1 DEF Evidence
  <2>3. book[c].state # "none"
    BY <2>2 DEF OrdersInWindow
  <2>. QED
    BY <1>1, <1>3, <2>3 DEF RequestSound, TakenOrder
<1>. QED
  BY <1>1, <1>2, <1>3 DEF ClientIds

LEMMA AcceptsStep ==
    ASSUME FieldsIdentify, IInv, RequestsSound, CancelSound, AcceptsSound, [Next]_vars
    PROVE  AcceptsSound'
<1>1. ASSUME NEW p \in Procs, op'[p] = op[p] PROVE AcceptSound(op[p])'
  <2>1. PICK o : o = op[p] /\ op'[p] = o /\ AcceptSound(o)
    BY <1>1 DEF AcceptsSound
  <2>2. o.kind = "resolve" => o.id \in ClientIds
    BY <2>1 DEF IInv, OperationsSound, OperationSound, Unresolved
  <2>. QED
    BY <2>1, <2>2, TakenKept DEF AcceptSound
<1>2. ASSUME NEW p \in Procs, Quiet(p), FreshlyRead(p) PROVE AcceptSound(op[p])'
  <2>1. PICK c, cfg : c = op[p].id /\ cfg = op[p].cfg
    OBVIOUS
  <2>2. /\ op[p].kind = "resolve" /\ op'[p].id = c
        /\ op'[p].items = {Evidence(c, cfg, TRUE)}
    BY <1>2, <2>1, GoneFields DEF Keeps
  <2>3. c \in Unresolved
    BY <2>1, <2>2 DEF IInv, OperationsSound, OperationSound
  <2>4. Evidence(c, cfg, TRUE).exact = {} \/ request[c].state = "taken"
    BY <2>3, SomethingSeen
  <2>5. UNCHANGED request
    BY <1>2 DEF Quiet
  <2>. QED
    BY <2>2, <2>4, <2>5 DEF AcceptSound
<1>3. ASSUME NEW p \in Procs, Works(p) PROVE AcceptSound(op[p])'
  <2>1. CASE op'[p].kind = "resolve" /\ op'[p].step = "record"
    <3>1. Quiet(p)
      BY <1>3, <2>1, LoudBecome
    <3>2. FreshlyRead(p)
      BY <2>1, <3>1, QuietBecomes, BegunFields, GoneFields
    <3>. QED
      BY <1>2, <3>1, <3>2
  <2>2. CASE ~(op'[p].kind = "resolve" /\ op'[p].step = "record")
    BY <2>2 DEF AcceptSound
  <2>. QED
    BY <2>1, <2>2
<1>4. ASSUME NEW p \in Procs, NEW q \in Procs, Works(q) PROVE AcceptSound(op[p])'
  <2>1. CASE p = q
    BY <1>3, <1>4, <2>1
  <2>2. CASE p # q
    <3>1. op'[p] = op[p]
      BY <1>4, <2>2, OthersIdle
    <3>. QED
      BY <1>1, <3>1
  <2>. QED
    BY <2>1, <2>2
<1>5. ASSUME UNCHANGED op PROVE AcceptsSound'
  BY <1>1, <1>5 DEF AcceptsSound
<1>6. CASE Next
  BY <1>4, <1>5, <1>6, StepShape DEF AcceptsSound, Surroundings
<1>. QED
  BY <1>5, <1>6 DEF vars

LEMMA AcceptanceStep ==
    ASSUME IInv, RequestsSound, AcceptsSound, AcceptanceIsTrue, [Next]_vars
    PROVE  AcceptanceIsTrue'
<1>. SUFFICES ASSUME NEW c \in ClientIds, HasOutcome(c, "accepted")'
              PROVE  request'[c].state = "taken"
  BY DEF AcceptanceIsTrue
<1>1. CASE HasOutcome(c, "accepted")
  BY <1>1, TakenKept DEF AcceptanceIsTrue
<1>2. ASSUME NEW p \in Procs, NEW e \in Events, Decides(p, e, "accepted"), e.id = c
      PROVE  request'[c].state = "taken"
  <2>1. op[p].id = c /\ Grounds(p, "accepted") /\ request'[c] = request[c]
    BY <1>2 DEF Decides, Writes
  <2>2. CASE op[p].kind = "resolve" /\ op[p].step = "record" /\ op[p].verdict = "accepted"
    <3>1. \A item \in op[p].items : Supports(Observed(item), "accepted", op[p].target)
      BY <2>1, <2>2 DEF Grounds
    <3>2. \A item \in op[p].items : item.exact # {}
      <4>. SUFFICES ASSUME NEW item \in op[p].items PROVE item.exact # {}
        OBVIOUS
      <4>1. item \in Items
        BY DEF IInv, TypeOK, Operations
      <4>2. Observed(item).exact = item.exact
        BY <4>1 DEF Observed, Items
      <4>. QED
        BY <3>1, <4>2 DEF Supports
    <3>. QED
      BY <2>1, <2>2, <3>2 DEF AcceptsSound, AcceptSound
  <2>. QED
    BY <2>1, <2>2 DEF Grounds
<1>. QED
  BY <1>1, <1>2, OutcomeRecorded DEF Verdicts

-----------------------------------------------------------------------------
(* The invariants *)

\* What rests on the ledger and the clocks: no hypothesis.
TInv == LInv /\ Timely /\ RequestsSound
\* What rests on the match window.
RInv == TInv /\ EvidenceLedger /\ EvidencesSound /\ RejectionIsTrue
\* What rests on the fields of an order too.
AInv == RInv /\ BookSound /\ CancelSound /\ AcceptsSound /\ AcceptanceIsTrue

LEMMA AInvInit == Init => AInv
<1>. SUFFICES ASSUME Init PROVE AInv
  OBVIOUS
<1>1. ledger = <<>> /\ \A p \in Procs : op[p] = Idle
  BY DEF Init
<1>2. \A c, types : EventsOf(ledger, c, types) = {}
  BY <1>1 DEF EventsOf
<1>3. LInv
  BY LInvInit
<1>4. Timely
  <2>1. regress <= MaxRegress
    BY LimitsAssumption DEF Init
  <2>. QED
    BY <1>1, <2>1 DEF Timely, TimeSound, Mutating, Idle
<1>5. /\ \A c \in ClientIds : request[c].state = "none" /\ transports[c] = 0
      /\ \A b \in BrokerIds : book[b].state = "none" /\ book[b].cancelled = {}
  BY DEF Init, NoRequest, NoOrder
<1>6. RequestsSound
  BY <1>5 DEF RequestsSound, RequestSound, TakenOrder, TakenCancel, BrokerIds
<1>7. EvidenceLedger /\ EvidencesSound /\ AcceptsSound
  BY <1>1 DEF EvidenceLedger, Reconciliations, EventsOfType, EvidencesSound, EvidenceSound,
     AcceptsSound, AcceptSound, Idle
<1>8. RejectionIsTrue /\ AcceptanceIsTrue
  BY <1>2 DEF RejectionIsTrue, AcceptanceIsTrue, HasOutcome
<1>9. BookSound /\ CancelSound
  BY <1>1, <1>5 DEF BookSound, CancelSound, EventsOfType, At, Idle
<1>. QED
  BY <1>3, <1>4, <1>6, <1>7, <1>8, <1>9 DEF AInv, RInv, TInv

LEMMA RInvStep ==
    ASSUME ClocksAgree
    PROVE  RInv /\ [Next]_vars => RInv'
<1>. SUFFICES ASSUME RInv, [Next]_vars PROVE RInv'
  OBVIOUS
<1>1. LInv /\ IInv /\ DecidedOnce
  BY DEF RInv, TInv, LInv
<1>2. LInv' /\ IInv'
  <2>1. LInv'
    BY <1>1, LInvStep
  <2>. QED
    BY <2>1 DEF LInv
<1>3. Timely' /\ RequestsSound'
  BY <1>1, <1>2, TimelyStep, RequestsStep DEF RInv, TInv
<1>4. EvidenceLedger' /\ EvidencesSound'
  BY <1>1, <1>2, EvidenceLedgerStep, EvidencesStep DEF RInv, TInv
<1>5. RejectionIsTrue'
  BY <1>1, RejectionStep DEF RInv, TInv
<1>. QED
  BY <1>2, <1>3, <1>4, <1>5 DEF RInv, TInv

LEMMA AInvStep ==
    ASSUME ClocksAgree, FieldsIdentify
    PROVE  AInv /\ [Next]_vars => AInv'
<1>. SUFFICES ASSUME AInv, [Next]_vars PROVE AInv'
  OBVIOUS
<1>1. /\ RInv /\ IInv /\ DecidedOnce /\ Aimed /\ Timely /\ RequestsSound /\ RejectionIsTrue
      /\ BookSound /\ CancelSound /\ AcceptsSound /\ AcceptanceIsTrue
  BY DEF AInv, RInv, TInv, LInv
<1>2. RInv'
  BY <1>1, RInvStep
<1>3. IInv'
  BY <1>2 DEF RInv, TInv, LInv
<1>4. BookSound' /\ CancelSound'
  BY <1>1, <1>3, BookStep, CancelsStep
<1>5. AcceptsSound' /\ AcceptanceIsTrue'
  BY <1>1, AcceptsStep, AcceptanceStep
<1>. QED
  BY <1>2, <1>4, <1>5 DEF AInv

\* A mutation recorded as rejected (submit_order's final recheck, or
\* resolve_unknown from a complete reconciliation without candidates and a fresh
\* read) has no effect at the broker and will have none, where the local clock
\* falls behind the broker's by no more than the match window leaves over.
THEOREM RejectionsAreTrue ==
    ASSUME ClocksAgree
    PROVE  Spec => []RejectionIsTrue
<1>1. Init => RInv
  BY AInvInit DEF AInv
<1>2. RInv => RejectionIsTrue
  BY DEF RInv
<1>. QED
  BY <1>1, <1>2, RInvStep, PTL DEF Spec

\* The inductive invariant of what both verdicts rest on.
THEOREM VerdictInvariance ==
    ASSUME ClocksAgree, FieldsIdentify
    PROVE  Spec => []AInv
  BY AInvInit, AInvStep, PTL DEF Spec

\* A mutation recorded as accepted, by the broker's answer or by resolve_unknown
\* from one exact match, was taken by the broker, where no other order of the
\* account has all the compared fields.
THEOREM AcceptancesAreTrue ==
    ASSUME ClocksAgree, FieldsIdentify
    PROVE  Spec => []AcceptanceIsTrue
<1>1. AInv => AcceptanceIsTrue
  BY DEF AInv
<1>. QED
  BY <1>1, VerdictInvariance, PTL

\* release_kill_switch unlinks a marker only after the audited release of that
\* marker, at a moment when nothing is undecided and nothing is on its way.
THEOREM ReleasesAreSafe ==
    ASSUME ClocksAgree, FieldsIdentify
    PROVE  Spec => ReleaseIsSafe
<1>1. ASSUME AInv, [Next]_vars, marker.state # "absent", marker'.state = "absent"
      PROVE  /\ Unresolved = {}
             /\ \A c \in ClientIds : request[c].state # "sent"
             /\ \E i \in DOMAIN ledger :
                   /\ ledger[i].type = "broker_kill_switch_release_authorized"
                   /\ ledger[i].nonce = marker.nonce
  <2>1. /\ IInv /\ DecidedOnce /\ RequestsSound /\ RejectionIsTrue /\ AcceptanceIsTrue
        /\ ReleasesSound
    BY <1>1 DEF AInv, RInv, TInv, LInv
  <2>2. PICK p \in Procs : ReleaseUnlink(p)
    <3>1. \A p \in Procs : EngageCreate(p) \/ EngageWrite(p) => marker'.state # "absent"
      BY <2>1 DEF EngageCreate, EngageWrite, IInv, TypeOK
    <3>2. marker' # marker
      BY <1>1
    <3>3. PICK p \in Procs : Works(p)
      BY <1>1, <2>1, <3>2, StepShape DEF Surroundings, vars
    <3>4. Quiet(p)
      <4>1. \A e : Notes(p, e) \/ Opens(p, e) \/ Doubts(p, e) => marker' = marker
        BY DEF Notes, Opens, Doubts, Writes
      <4>2. \A e, verdict : Decides(p, e, verdict) => marker' = marker
        BY DEF Decides, Writes
      <4>3. Sends(p) => marker' = marker
        BY <2>1, SendsBecomes
      <4>. QED
        BY <3>2, <3>3, <4>1, <4>2, <4>3 DEF Works
    <3>5. /\ \A c, cfg : ~SubmitBegin(p, c, cfg)
          /\ \A c, b, cfg : ~CancelBegin(p, c, b, cfg)
          /\ ~SubmitRecheck(p) /\ ~CancelCandidate(p) /\ ~ResolveFreshRead(p)
          /\ \A cfg, readable : ~ReconcileRead(p, cfg, readable)
          /\ \A c, verdict, b : ~ResolveBegin(p, c, verdict, b)
          /\ \A nonce : ~ReleaseBegin(p, nonce)
      BY <3>2 DEF SubmitBegin, CancelBegin, SubmitRecheck, CancelCandidate, ResolveFreshRead,
         ReconcileRead, ResolveBegin, ReleaseBegin
    <3>. QED
      BY <1>1, <3>1, <3>2, <3>4, <3>5 DEF Quiet
  <2>3. op[p].kind = "release" /\ op[p].step = "unlink"
    BY <2>2 DEF ReleaseUnlink, At
  <2>4. /\ Unresolved = {} /\ marker.nonce = op[p].nonce
        /\ \E i \in DOMAIN ledger : /\ ledger[i].type = "broker_kill_switch_release_authorized"
                                    /\ ledger[i].nonce = op[p].nonce
    BY <2>1, <2>3 DEF ReleasesSound, ReleaseSound
  <2>5. \A c \in ClientIds : request[c].state # "sent"
    BY <2>1, <2>4, SentUndecided
  <2>. QED
    BY <2>4, <2>5
<1>. QED
  BY <1>1, VerdictInvariance, PTL DEF Spec, ReleaseIsSafe
=============================================================================
