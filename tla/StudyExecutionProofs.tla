------------------------ MODULE StudyExecutionProofs ------------------------
(***************************************************************************)
(* What holds of StudyExecution for any number of processes, studies and   *)
(* holdouts, any budget and any of the faults: its types; the budget; a    *)
(* pipeline runs only on what the registry holds; a holdout is used once;  *)
(* a study rests on its evidence, and its life is that of StudyLifecycle.  *)
(***************************************************************************)
EXTENDS StudyExecution, TLAPS

-----------------------------------------------------------------------------
(* The inductive invariant *)

Pairs ==
    {<<"create", "study_registered">>, <<"reserve", "proposal_attempt_reserved">>,
     <<"propose", "proposal_attempt_completed">>, <<"propose", "proposal_verified">>,
     <<"approve", "development_execution_approved">>, <<"run", "development_run_started">>,
     <<"run", "development_run_failed">>, <<"run", "development_run_completed">>,
     <<"freeze", "candidate_frozen">>, <<"external", "external_holdout_registered">>,
     <<"reveal", "holdout_reveal_reserved">>, <<"reveal", "holdout_reveal_failed">>,
     <<"reveal", "holdout_revealed">>, <<"close", "study_closed">>}

\* A command appends events of its own kind, and where it is says which.
OperationSound(o) ==
    /\ o.step = "idle" => o = Idle
    /\ o.step # "idle" => <<o.cmd, o.event.type>> \in Pairs
                          /\ (o.event.study = NoName <=> o.cmd = "external")
    /\ o.event.type \in {"external_holdout_registered", "candidate_frozen"} =>
           o.event.holdout \in Holdouts
    /\ o.step \in {"rundir", "model", "verify"} => o.event.type = "proposal_attempt_completed"
    /\ o.step = "rundir" => o.session \in Sessions
    /\ o.step = "recover" => o.cmd \in {"propose", "run"} /\ o.event.type \in Tried
    /\ o.step = "mkdir" => o.event.type = "development_run_started"
    /\ o.step = "pipeline" => o.event.type = "development_run_completed"
    /\ o.step \in Evaluation => o.event.type = "holdout_revealed"
    /\ o.step = "record" => o.cmd \in {"approve", "freeze"}
    /\ o.step \in {"head", "transition", "append"} /\ o.event.type = "proposal_attempt_completed" =>
           o.event.outcome \in Outcomes

OperationsSound == \A p \in Procs : OperationSound(op[p])

\* Who appends holds the lock, and what it appends is still to be accepted.
LockSound ==
    \A p \in Procs :
        /\ op[p].step = "append" <=> lock = p
        /\ op[p].step = "append" =>
               /\ Accepts(op[p].event)
               /\ op[p].event.type = "development_run_started" =>
                      op[p].event.n = study[op[p].event.study].runs + 1

\* The process that started run n of a study, or reserved its reveal.
OwnsRun(o) ==
    o.step = "mkdir" \/ o.event.type \in {"development_run_failed", "development_run_completed"}
OwnsReveal(o) == o.event.type \in {"holdout_reveal_failed", "holdout_revealed"}

OwnersSound ==
    /\ \A p \in Procs :
          /\ OwnsRun(op[p]) => op[p].event.n <= study[op[p].event.study].runs
          /\ OwnsReveal(op[p]) => study[op[p].event.study].reveal # "none"
    /\ \A p, q \in Procs :
          op[p].event.study = op[q].event.study =>
              /\ OwnsRun(op[p]) /\ OwnsRun(op[q]) /\ op[p].event.n = op[q].event.n => p = q
              /\ OwnsReveal(op[p]) /\ OwnsReveal(op[q]) => p = q

\* Of the uses on record, and of a study's holdout.
UsesSound ==
    /\ \A u, v \in uses : u # v => <<u.holdout, v.holdout>> \notin Overlap
    /\ \A u \in uses : u.study # NoName => study[u.study].reveal # "none"
    /\ \A s \in Studies :
          /\ study[s].reveal # "none" =>
                 /\ study[s].state \in {"candidate_frozen", "holdout_revealed", "closed"}
                 /\ [holdout |-> study[s].holdout, study |-> s] \in uses
          /\ study[s].state \in {"candidate_frozen", "holdout_revealed"} =>
                 study[s].holdout \in Holdouts
          /\ reads[s] <= 1 /\ (reads[s] = 1 => study[s].reveal # "none")
    /\ \A p \in Procs : op[p].event.type = "holdout_revealed" =>
          reads[op[p].event.study] = IF op[p].step = "holdout" THEN 0 ELSE 1

BudgetSound ==
    /\ BudgetHolds
    /\ \A p \in Procs : op[p].step = "rundir" =>
          op[p].event.n \in DOMAIN study[op[p].event.study].attempts

\* Each part rests on others: that the work a process does is backed, on nobody
\* else having the run or the reservation it does it for; that, on what is to be
\* appended being accepted until it is, so on the lock.
IInv ==
    /\ TypeOK /\ OperationsSound /\ LockSound /\ OwnersSound
    /\ WorkIsBacked /\ UsesSound /\ BudgetSound

-----------------------------------------------------------------------------
(* What one more event changes *)

\* Of the study an event is about nothing but what its type says. The attempts
\* of a study are never fewer.
FoldsTo(d, e) ==
    LET f == Folded(d, e)
    IN  /\ f \in StudyStates /\ DOMAIN d.attempts \subseteq DOMAIN f.attempts
        /\ f.state = CASE e.type = "study_registered" -> "development_open"
                       [] e.type = "development_execution_approved" -> "development_locked"
                       [] e.type = "candidate_frozen" -> "candidate_frozen"
                       [] e.type = "holdout_revealed" -> "holdout_revealed"
                       [] e.type = "study_closed" -> "closed"
                       [] OTHER -> d.state
        /\ f.reveal = CASE e.type = "holdout_reveal_reserved" -> "reserved"
                        [] e.type = "holdout_reveal_failed" -> "failed"
                        [] e.type = "holdout_revealed" -> "revealed"
                        [] OTHER -> d.reveal
        /\ f.run = CASE e.type = "development_run_started" -> "started"
                     [] e.type = "development_run_failed" -> "failed"
                     [] e.type = "development_run_completed" -> "completed"
                     [] OTHER -> d.run
        /\ f.runs = IF e.type = "development_run_started" THEN d.runs + 1 ELSE d.runs
        /\ f.holdout = IF e.type = "candidate_frozen" THEN e.holdout ELSE d.holdout
        /\ Len(f.attempts) = IF e.type = "proposal_attempt_reserved"
                             THEN Len(d.attempts) + 1 ELSE Len(d.attempts)

\* An attempt is completed with an outcome; until then it is outstanding.
Completes(d, e) ==
    /\ e.type = "proposal_attempt_completed" =>
           e.outcome \in Outcomes /\ e.n \in DOMAIN d.attempts
    /\ e.type = "proposal_verified" => e.n \in DOMAIN d.attempts

LEMMA AttemptsFold ==
    ASSUME NEW a \in Seq(Attempts), NEW n \in Nat, NEW v \in Attempts
    PROVE  /\ Append(a, v) \in Seq(Attempts) /\ Len(Append(a, v)) = Len(a) + 1
           /\ DOMAIN a \subseteq DOMAIN Append(a, v)
           /\ n \in DOMAIN a => /\ [a EXCEPT ![n] = v] \in Seq(Attempts)
                                /\ Len([a EXCEPT ![n] = v]) = Len(a)
                                /\ DOMAIN [a EXCEPT ![n] = v] = DOMAIN a
  OBVIOUS

LEMMA OtherAttempts ==
    ASSUME NEW d \in StudyStates, NEW a \in Seq(Attempts)
    PROVE  LET f == [d EXCEPT !.attempts = a]
           IN  /\ f \in StudyStates /\ f.attempts = a
               /\ f.state = d.state /\ f.reveal = d.reveal /\ f.run = d.run
               /\ f.runs = d.runs /\ f.holdout = d.holdout
  BY DEF StudyStates

LEMMA FoldFields ==
    ASSUME NEW d \in StudyStates, NEW e \in Events, Completes(d, e),
           e.type # "external_holdout_registered"
    PROVE  FoldsTo(d, e)
  <1>1. /\ e.type \in EventTypes /\ e.n \in Nat /\ e.outcome \in Outcomes \cup {"none"}
        /\ e.verdict \in Verdicts \cup {"none"} /\ e.holdout \in Holdouts \cup {NoName}
    BY DEF Events
  <1>a. d.attempts \in Seq(Attempts)
    BY DEF StudyStates
  <1>2. CASE e.type = "study_registered"
    BY <1>2 DEF FoldsTo, Folded, StudyStates, Phases, Events
  <1>3. CASE e.type = "proposal_attempt_reserved"
    <2> DEFINE a == Append(d.attempts, Attempt("reserved", "none"))
    <2>1. Attempt("reserved", "none") \in Attempts
      BY DEF Attempt, Attempts
    <2>2. /\ a \in Seq(Attempts) /\ Len(a) = Len(d.attempts) + 1
          /\ DOMAIN d.attempts \subseteq DOMAIN a
      BY <1>1, <1>a, <2>1, AttemptsFold
    <2>3. Folded(d, e) = [d EXCEPT !.attempts = a]
      BY <1>3 DEF Folded, StudyStates
    <2> HIDE DEF a
    <2>5. /\ Folded(d, e) \in StudyStates /\ Folded(d, e).attempts = a
          /\ Folded(d, e).state = d.state /\ Folded(d, e).reveal = d.reveal
          /\ Folded(d, e).run = d.run /\ Folded(d, e).runs = d.runs
          /\ Folded(d, e).holdout = d.holdout
      BY <2>2, <2>3, OtherAttempts
    <2> QED  BY <1>3, <2>2, <2>5 DEF FoldsTo
  <1>4. CASE e.type = "proposal_attempt_completed"
    <2> DEFINE v == Attempt(e.outcome, "none")
               a == [d.attempts EXCEPT ![e.n] = v]
    <2>1. v \in Attempts /\ e.n \in DOMAIN d.attempts
      BY <1>4 DEF Attempt, Attempts, Completes
    <2>2. /\ a \in Seq(Attempts) /\ Len(a) = Len(d.attempts) /\ DOMAIN a = DOMAIN d.attempts
      BY <1>1, <1>a, <2>1, AttemptsFold
    <2>3. Folded(d, e) = [d EXCEPT !.attempts = a]
      BY <1>4 DEF Folded, StudyStates
    <2> HIDE DEF a
    <2>5. /\ Folded(d, e) \in StudyStates /\ Folded(d, e).attempts = a
          /\ Folded(d, e).state = d.state /\ Folded(d, e).reveal = d.reveal
          /\ Folded(d, e).run = d.run /\ Folded(d, e).runs = d.runs
          /\ Folded(d, e).holdout = d.holdout
      BY <2>2, <2>3, OtherAttempts
    <2> QED  BY <1>4, <2>2, <2>5 DEF FoldsTo
  <1>5. CASE e.type = "proposal_verified"
    <2> DEFINE v == Attempt(d.attempts[e.n].outcome, e.verdict)
               a == [d.attempts EXCEPT ![e.n] = v]
    <2>1. d.attempts[e.n] \in Attempts /\ e.n \in DOMAIN d.attempts
      BY <1>1, <1>5, <1>a DEF Completes
    <2>2. v \in Attempts
      BY <1>1, <2>1 DEF Attempt, Attempts
    <2>3. /\ a \in Seq(Attempts) /\ Len(a) = Len(d.attempts) /\ DOMAIN a = DOMAIN d.attempts
      BY <1>1, <1>a, <2>1, <2>2, AttemptsFold
    <2>4. Folded(d, e) = [d EXCEPT !.attempts = a]
      BY <1>5 DEF Folded, StudyStates
    <2> HIDE DEF a
    <2>5. /\ Folded(d, e) \in StudyStates /\ Folded(d, e).attempts = a
          /\ Folded(d, e).state = d.state /\ Folded(d, e).reveal = d.reveal
          /\ Folded(d, e).run = d.run /\ Folded(d, e).runs = d.runs
          /\ Folded(d, e).holdout = d.holdout
      BY <2>3, <2>4, OtherAttempts
    <2> QED  BY <1>5, <2>3, <2>5 DEF FoldsTo
  <1>6. CASE e.type = "development_execution_approved"
    <2>1. Folded(d, e) = [d EXCEPT !.state = "development_locked", !.approved = e.n]
      BY <1>6 DEF Folded
    <2>2. Folded(d, e) \in StudyStates
      BY <1>1, <2>1 DEF StudyStates, Phases
    <2>3. /\ Folded(d, e).state = "development_locked" /\ Folded(d, e).attempts = d.attempts
          /\ Folded(d, e).reveal = d.reveal /\ Folded(d, e).run = d.run
          /\ Folded(d, e).runs = d.runs /\ Folded(d, e).holdout = d.holdout
      BY <2>1 DEF StudyStates
    <2> QED  BY <1>6, <2>2, <2>3 DEF FoldsTo
  <1>7. CASE e.type = "development_run_started"
    <2> DEFINE n == d.runs + 1
    <2>1. n \in Nat /\ Folded(d, e) = [d EXCEPT !.run = "started", !.runs = n]
      BY <1>7 DEF Folded, StudyStates
    <2>2. n = d.runs + 1
      OBVIOUS
    <2> HIDE DEF n
    <2>3. Folded(d, e) \in StudyStates
      BY <2>1 DEF StudyStates
    <2> QED  BY <1>7, <2>1, <2>2, <2>3 DEF FoldsTo, StudyStates
  <1>8. CASE e.type = "development_run_failed"
    BY <1>8 DEF FoldsTo, Folded, StudyStates, Phases, Events
  <1>9. CASE e.type = "development_run_completed"
    BY <1>9 DEF FoldsTo, Folded, StudyStates, Phases, Events
  <1>10. CASE e.type = "candidate_frozen"
    BY <1>10 DEF FoldsTo, Folded, StudyStates, Phases, Events
  <1>11. CASE e.type = "holdout_reveal_reserved"
    BY <1>11 DEF FoldsTo, Folded, StudyStates, Phases, Events
  <1>12. CASE e.type = "holdout_reveal_failed"
    BY <1>12 DEF FoldsTo, Folded, StudyStates, Phases, Events
  <1>13. CASE e.type = "holdout_revealed"
    BY <1>13 DEF FoldsTo, Folded, StudyStates, Phases, Events
  <1>14. CASE e.type = "study_closed"
    BY <1>14 DEF FoldsTo, Folded, StudyStates, Phases, Events
  <1>15. CASE e.type = "external_holdout_registered"
    BY <1>15
  <1> QED
    BY <1>1, <1>2, <1>3, <1>4, <1>5, <1>6, <1>7, <1>8, <1>9, <1>10,
       <1>11, <1>12, <1>13, <1>14, <1>15 DEF EventTypes

-----------------------------------------------------------------------------
(* Steps that leave the registry as it is *)

Same(b, o) == o.event.study = b.event.study /\ o.event.n = b.event.n
              /\ o.event.holdout = b.event.holdout

\* o goes on with what b owned, and owns no more.
Continues(b, o) ==
    /\ OwnsRun(o) => OwnsRun(b) /\ Same(b, o)
    /\ OwnsReveal(o) => OwnsReveal(b) /\ Same(b, o)
    /\ o.step \in Development => b.step \in Development
    /\ o.step \in Evaluation => b.step \in Evaluation
    /\ o.event.type = "holdout_revealed" =>
           b.event.type = "holdout_revealed" /\ (o.step = "holdout" <=> b.step = "holdout")

\* Process p goes from its operation to o.
Takes(p, o) == o \in Operations /\ OperationSound(o) /\ op' = [op EXCEPT ![p] = o]

LEMMA TakesOne ==
    ASSUME IInv, NEW p \in Procs, NEW o, Takes(p, o)
    PROVE  /\ op'[p] = o /\ \A q \in Procs : q # p => op'[q] = op[q]
           /\ op' \in [Procs -> Operations] /\ OperationsSound'
  <1>1. op'[p] = o /\ (\A q \in Procs : q # p => op'[q] = op[q])
        /\ op' \in [Procs -> Operations]
    BY DEF Takes, IInv, TypeOK
  <1>2. \A q \in Procs : OperationSound(op'[q])
    BY <1>1 DEF IInv, OperationsSound, Takes
  <1> QED  BY <1>1, <1>2 DEF OperationsSound, OperationSound

\* What a process owns, and the work it does on it, stays its own when another,
\* or itself, goes on.
LEMMA QuietStep ==
    ASSUME IInv, NEW p \in Procs, NEW o, Takes(p, o), Continues(op[p], o),
           UNCHANGED <<study, uses, reads>>
    PROVE  OwnersSound' /\ WorkIsBacked' /\ UsesSound'
  <1>1. op'[p] = o /\ (\A q \in Procs : q # p => op'[q] = op[q])
        /\ \A q \in Procs : OperationSound(op'[q])
    BY TakesOne DEF OperationsSound, OperationSound
  <1>2. \A q \in Procs : Continues(op[q], op'[q])
    BY <1>1 DEF Continues, Same
  <1>3. OwnersSound'
    <2>1. \A q \in Procs :
             /\ OwnsRun(op'[q]) => OwnsRun(op[q]) /\ Same(op[q], op'[q])
             /\ OwnsReveal(op'[q]) => OwnsReveal(op[q]) /\ Same(op[q], op'[q])
      BY <1>2 DEF Continues
    <2> QED  BY <2>1 DEF IInv, OwnersSound, Same, OwnsRun, OwnsReveal
  <1>4. WorkIsBacked'
    <2>1. \A q \in Procs :
             /\ op'[q].step \in Development => OwnsRun(op'[q])
             /\ op'[q].step \in Evaluation => OwnsReveal(op'[q])
      BY <1>1 DEF OwnsRun, OwnsReveal, Development, Evaluation, OperationSound
    <2>2. \A q \in Procs : \A kind \in {Development, Evaluation} :
             op'[q].step \in kind => op[q].step \in kind /\ Same(op[q], op'[q])
      BY <1>2, <2>1 DEF Continues
    <2> QED  BY <2>2 DEF IInv, WorkIsBacked, Works, Same
  <1>5. UsesSound'
    BY <1>2 DEF IInv, UsesSound, Continues, OwnsReveal, Same
  <1> QED  BY <1>3, <1>4, <1>5

\* Whether an event is accepted depends on the registry and on what it is about;
\* the number of a run is given it by the registry.
LEMMA AcceptsUnchanged ==
    ASSUME NEW q \in Procs, UNCHANGED <<study, uses>>,
           op'[q].event.type = op[q].event.type, op'[q].event.study = op[q].event.study,
           op'[q].event.holdout = op[q].event.holdout,
           op[q].event.type # "development_run_started" => op'[q].event.n = op[q].event.n
    PROVE  Accepts(op[q].event)' <=> Accepts(op[q].event)
  BY DEF Accepts, Transition, FoldAccepts, RegisterStudy, CloseStudy, ReserveProposalAttempt,
         CompleteProposalAttempt, RecordProposalVerification, ApproveDevelopmentExecution,
         StartDevelopmentRun, FailDevelopmentRun, CompleteDevelopmentRun, FreezeCandidate,
         RegisterExternalHoldout, ReserveHoldoutReveal, FailHoldoutReveal,
         CompleteHoldoutReveal, Reserved, Overlapping

\* Nor is what is being appended, nor who may append.
LEMMA QuietLock ==
    ASSUME IInv, NEW p \in Procs, NEW o, Takes(p, o), o.step # "append",
           lock' = (IF lock = p THEN NoName ELSE lock), UNCHANGED <<study, uses>>
    PROVE  LockSound'
  <1>1. op'[p] = o /\ \A q \in Procs : q # p => op'[q] = op[q]
    BY TakesOne
  <1>2. NoName \notin Procs
    BY ExecutionAssumption
  <1>3. ASSUME NEW q \in Procs
        PROVE  /\ op'[q].step = "append" <=> lock' = q
               /\ op'[q].step = "append" => op'[q] = op[q] /\ op[q].step = "append"
    BY <1>1, <1>2 DEF IInv, LockSound
  <1>4. ASSUME NEW q \in Procs, op'[q].step = "append"
        PROVE  Accepts(op[q].event)' /\ (op'[q].event.type = "development_run_started" =>
                                            op'[q].event.n = study'[op'[q].event.study].runs + 1)
    <2>1. op'[q] = op[q] /\ op[q].step = "append"
      BY <1>3, <1>4
    <2>2. Accepts(op[q].event) /\ (op[q].event.type = "development_run_started" =>
                                     op[q].event.n = study[op[q].event.study].runs + 1)
      BY <2>1 DEF IInv, LockSound
    <2> QED  BY <2>1, <2>2, AcceptsUnchanged
  <1> QED  BY <1>3, <1>4 DEF LockSound

\* Process p goes on to o, does not append, and gives up the lock if it has it.
Quiet(p, o) ==
    /\ Takes(p, o) /\ Continues(op[p], o) /\ o.step \notin {"append", "rundir"}
    /\ lock' = IF lock = p THEN NoName ELSE lock
    /\ UNCHANGED <<study, uses, reads, sessions>>

LEMMA Quietly ==
    ASSUME IInv, NEW p \in Procs, NEW o, Quiet(p, o), torn' \in BOOLEAN, length' = length,
           approvals' \subseteq Studies, freezes' \subseteq Studies
    PROVE  IInv'
  <1>1. op'[p] = o /\ (\A q \in Procs : q # p => op'[q] = op[q])
        /\ op' \in [Procs -> Operations] /\ OperationsSound'
    BY TakesOne DEF Quiet
  <1>2. TypeOK'
    BY <1>1 DEF Quiet, IInv, TypeOK
  <1>3. LockSound'
    BY QuietLock DEF Quiet
  <1>4. OwnersSound' /\ WorkIsBacked' /\ UsesSound'
    BY QuietStep DEF Quiet
  <1>5. BudgetSound'
    BY <1>1 DEF IInv, BudgetSound, BudgetHolds, Quiet
  <1> QED  BY <1>1, <1>2, <1>3, <1>4, <1>5 DEF IInv

LEMMA IdleGoes ==
    ASSUME NEW b
    PROVE  Idle \in Operations /\ OperationSound(Idle) /\ Continues(b, Idle)
           /\ Idle.step = "idle"
  BY DEF Idle, NoEvent, Operations, Events, EventTypes, Steps, OperationSound, Continues,
         OwnsRun, OwnsReveal, Development, Evaluation

\* An exception does not lose what the except clause needs to record the failure.
LEMMA RaisedGoes ==
    ASSUME NEW b \in Operations, OperationSound(b), b.step \notin {"idle", "mkdir"}
    PROVE  /\ Raised(b) \in Operations /\ OperationSound(Raised(b))
           /\ Continues(b, Raised(b)) /\ Raised(b).step \notin {"append", "rundir"}
  <1>1. CASE b.handler \/ b.event.type \notin Tried
    BY <1>1, IdleGoes DEF Raised, Idle
  <1>2. CASE ~b.handler /\ b.event.type \in Tried /\ b.cmd = "reveal"
    <2> DEFINE e == [b.event EXCEPT !.type = "holdout_reveal_failed", !.outcome = "none",
                                    !.verdict = "none"]
               o == [b EXCEPT !.handler = TRUE, !.head = 0, !.step = "head", !.event = e]
    <2>1. Raised(b) = o
      BY <1>2 DEF Raised, Failing
    <2>2. e \in Events /\ e.type = "holdout_reveal_failed" /\ e.study = b.event.study
          /\ e.n = b.event.n /\ e.holdout = b.event.holdout
      BY DEF Operations, Events, EventTypes
    <2> HIDE DEF e
    <2>3. o \in Operations /\ o.step = "head" /\ o.event = e /\ o.cmd = "reveal"
      BY <1>2, <2>2 DEF Operations, Steps
    <2>4. <<b.cmd, b.event.type>> \in Pairs /\ (b.event.study = NoName <=> b.cmd = "external")
      BY DEF OperationSound
    <2>5. b.event.type = "holdout_revealed"
      BY <1>2, <2>4 DEF Pairs, Tried
    <2> HIDE DEF o
    <2>6. OperationSound(o)
      BY <2>2, <2>3, <2>4, <1>2 DEF OperationSound, Pairs, Evaluation
    <2>7. Continues(b, o)
      BY <2>2, <2>3, <2>5 DEF Continues, OwnsRun, OwnsReveal, Same, Development, Evaluation
    <2> QED  BY <2>1, <2>3, <2>6, <2>7
  <1>3. CASE ~b.handler /\ b.event.type \in Tried /\ b.cmd # "reveal"
    <2> DEFINE o == [b EXCEPT !.handler = TRUE, !.head = 0, !.step = "recover"]
    <2>1. Raised(b) = o
      BY <1>3 DEF Raised
    <2>2. o \in Operations /\ o.step = "recover" /\ o.event = b.event /\ o.cmd = b.cmd
      BY DEF Operations, Steps
    <2>3. <<b.cmd, b.event.type>> \in Pairs /\ (b.event.study = NoName <=> b.cmd = "external")
      BY DEF OperationSound
    <2>4. b.event.type # "holdout_revealed" /\ b.cmd \in {"propose", "run"}
      BY <1>3, <2>3 DEF Pairs, Tried
    <2> HIDE DEF o
    <2>5. OperationSound(o)
      BY <1>3, <2>2, <2>3, <2>4 DEF OperationSound, Evaluation
    <2>6. Continues(b, o)
      BY <1>3, <2>2, <2>4 DEF Continues, OwnsRun, OwnsReveal, Same, Development, Evaluation
    <2> QED  BY <2>1, <2>2, <2>5, <2>6
  <1> QED  BY <1>1, <1>2, <1>3

\* A command goes on to append another event of its own about the same thing.
LEMMA HeadGoes ==
    ASSUME NEW b \in Operations, OperationSound(b), b.step # "idle", NEW e \in Events,
           NEW h \in BOOLEAN, <<b.cmd, e.type>> \in Pairs,
           e.study = b.event.study /\ e.n = b.event.n /\ e.holdout = b.event.holdout,
           e.type = "proposal_attempt_completed" => e.outcome \in Outcomes,
           e.type = "candidate_frozen" => b.event.type = "candidate_frozen",
           e.type = "external_holdout_registered" => b.event.type = "external_holdout_registered",
           e.type \in {"development_run_failed", "development_run_completed"} => OwnsRun(b),
           e.type \in {"holdout_reveal_failed", "holdout_revealed"} => OwnsReveal(b),
           e.type = "holdout_revealed" =>
               b.event.type = "holdout_revealed" /\ b.step # "holdout"
    PROVE  LET o == [b EXCEPT !.step = "head", !.event = e, !.handler = h]
           IN  /\ o \in Operations /\ OperationSound(o) /\ Continues(b, o)
               /\ o.step \notin {"append", "rundir"}
  <1> DEFINE o == [b EXCEPT !.step = "head", !.event = e, !.handler = h]
  <1>1. o \in Operations /\ o.step = "head" /\ o.event = e /\ o.cmd = b.cmd
    BY DEF Operations, Steps
  <1>2. b.event.study = NoName <=> b.cmd = "external"
    BY DEF OperationSound
  <1>3. b.event.type \in {"candidate_frozen", "external_holdout_registered"} =>
            b.event.holdout \in Holdouts
    BY DEF OperationSound
  <1> HIDE DEF o
  <1>4. OperationSound(o)
    BY <1>1, <1>2, <1>3 DEF OperationSound, Evaluation
  <1>5. Continues(b, o)
    BY <1>1 DEF Continues, OwnsRun, OwnsReveal, Same, Development, Evaluation
  <1> QED  BY <1>1, <1>4, <1>5 DEF o

LEMMA FailingEvent ==
    ASSUME NEW b \in Operations, OperationSound(b), b.step # "idle",
           b.cmd \in {"propose", "run"}
    PROVE  /\ Failing(b) \in Events /\ Failing(b).study = b.event.study
           /\ Failing(b).n = b.event.n /\ Failing(b).holdout = b.event.holdout
           /\ Failing(b).type = IF b.cmd = "run" THEN "development_run_failed"
                                ELSE "proposal_attempt_completed"
           /\ Failing(b).outcome = IF b.cmd = "propose" THEN "failed" ELSE "none"
  <1>1. CASE b.cmd = "run"
    <2>1. Failing(b) = [b.event EXCEPT !.type = "development_run_failed", !.outcome = "none",
                                       !.verdict = "none"]
      BY <1>1 DEF Failing
    <2> QED  BY <1>1, <2>1 DEF Operations, Events, EventTypes
  <1>2. CASE b.cmd = "propose"
    <2>1. Failing(b) = [b.event EXCEPT !.type = "proposal_attempt_completed",
                                       !.outcome = "failed", !.verdict = "none"]
      BY <1>2 DEF Failing
    <2> QED  BY <1>2, <2>1 DEF Operations, Events, EventTypes, Outcomes
  <1> QED  BY <1>1, <1>2

-----------------------------------------------------------------------------
(* Every step, but for the appends *)

LEMMA OperationOf ==
    ASSUME IInv, NEW p \in Procs
    PROVE  /\ op[p] \in Operations /\ OperationSound(op[p])
           /\ op[p].step = "append" <=> lock = p
  BY DEF IInv, TypeOK, OperationsSound, LockSound

LEMMA RaiseKeeps ==
    ASSUME IInv, NEW p \in Procs, Raise(p), op[p].step \notin {"idle", "mkdir"},
           lock' = (IF lock = p THEN NoName ELSE lock), torn' \in BOOLEAN,
           UNCHANGED <<study, uses, length, artifacts, reads>>
    PROVE  IInv'
  <1> DEFINE o == Raised(op[p])
  <1>1. Takes(p, o) /\ Continues(op[p], o) /\ o.step \notin {"append", "rundir"}
    BY OperationOf, RaisedGoes DEF Raise, Becomes, Takes
  <1>2. Quiet(p, o)
    BY <1>1 DEF Quiet, artifacts
  <1> QED  BY <1>2, Quietly DEF artifacts, IInv, TypeOK

LEMMA IdleKeeps ==
    ASSUME IInv, NEW p \in Procs, Becomes(p, Idle),
           lock' = (IF lock = p THEN NoName ELSE lock), torn' \in BOOLEAN,
           UNCHANGED <<study, uses, length, sessions, reads>>,
           approvals' \subseteq Studies, freezes' \subseteq Studies
    PROVE  IInv'
  <1>1. Takes(p, Idle) /\ Continues(op[p], Idle) /\ Idle.step \notin {"append", "rundir"}
    BY IdleGoes DEF Becomes, Takes
  <1>2. Quiet(p, Idle)
    BY <1>1 DEF Quiet
  <1> QED  BY <1>2, Quietly DEF IInv, TypeOK

LEMMA ReadHeadKeeps == ASSUME IInv, NEW p \in Procs, ReadHead(p) PROVE IInv'
  <1>1. op[p] \in Operations /\ OperationSound(op[p]) /\ lock # p
    BY OperationOf DEF ReadHead
  <1>2. CASE Raise(p)
    BY <1>1, <1>2, RaiseKeeps DEF ReadHead, registryVars, IInv, TypeOK
  <1>3. CASE Becomes(p, [op[p] EXCEPT !.step = "transition", !.head = length])
    <2> DEFINE o == [op[p] EXCEPT !.step = "transition", !.head = length]
    <2>1. length \in Nat
      BY DEF IInv, TypeOK
    <2>2. /\ o \in Operations /\ o.step = "transition" /\ o.event = op[p].event
          /\ o.cmd = op[p].cmd
      BY <1>1, <2>1 DEF Operations, Steps
    <2>3. op' = [op EXCEPT ![p] = o]
      BY <1>3 DEF Becomes
    <2> HIDE DEF o
    <2>4. OperationSound(o)
      BY <1>1, <2>2 DEF OperationSound, ReadHead, Evaluation
    <2>5. Continues(op[p], o)
      BY <2>2 DEF Continues, OwnsRun, OwnsReveal, Same, Development, Evaluation, ReadHead
    <2>6. Quiet(p, o)
      BY <1>1, <2>2, <2>3, <2>4, <2>5 DEF Quiet, Takes, ReadHead, registryVars, artifacts
    <2> QED  BY <2>6, Quietly DEF ReadHead, registryVars, artifacts, IInv, TypeOK
  <1> QED  BY <1>2, <1>3 DEF ReadHead

LEMMA RefuseKeeps == ASSUME IInv, NEW p \in Procs, RefuseTransition(p) PROVE IInv'
  <1>1. lock # p
    BY OperationOf DEF RefuseTransition
  <1> QED  BY <1>1, RaiseKeeps DEF RefuseTransition, registryVars, IInv, TypeOK

\* The command goes on to append e: HeadGoes, for a step that does nothing else.
LEMMA MutatesKeeps ==
    ASSUME IInv, NEW p \in Procs, NEW e \in Events, NEW h \in BOOLEAN,
           op' = [op EXCEPT ![p] = [op[p] EXCEPT !.step = "head", !.event = e, !.handler = h]],
           op[p].step \notin {"idle", "append", "holdout"}, <<op[p].cmd, e.type>> \in Pairs,
           e.study = op[p].event.study /\ e.n = op[p].event.n /\ e.holdout = op[p].event.holdout,
           e.type = "proposal_attempt_completed" => e.outcome \in Outcomes,
           e.type \in {"candidate_frozen", "external_holdout_registered"} =>
               e.type = op[p].event.type,
           e.type \in {"development_run_failed", "development_run_completed"} => OwnsRun(op[p]),
           e.type \in {"holdout_reveal_failed", "holdout_revealed"} => OwnsReveal(op[p]),
           e.type = "holdout_revealed" => op[p].event.type = "holdout_revealed",
           UNCHANGED <<registryVars, lock, artifacts, reads>>
    PROVE  IInv'
  <1> DEFINE o == [op[p] EXCEPT !.step = "head", !.event = e, !.handler = h]
  <1>1. op[p] \in Operations /\ OperationSound(op[p]) /\ lock # p
    BY OperationOf
  <1>2. /\ o \in Operations /\ OperationSound(o) /\ Continues(op[p], o)
        /\ o.step \notin {"append", "rundir"}
    BY <1>1, HeadGoes
  <1> HIDE DEF o
  <1>3. Quiet(p, o)
    BY <1>1, <1>2 DEF Quiet, Takes, registryVars, artifacts, o
  <1> QED  BY <1>3, Quietly DEF registryVars, artifacts, IInv, TypeOK

\* The handler of an operation may be left as it is.
LEMMA SameHandler ==
    ASSUME NEW b \in Operations, NEW e
    PROVE  [b EXCEPT !.step = "head", !.event = e] =
           [b EXCEPT !.step = "head", !.event = e, !.handler = b.handler]
           /\ b.handler \in BOOLEAN
  BY DEF Operations

LEMMA RunModelKeeps == ASSUME IInv, NEW p \in Procs, RunModel(p) PROVE IInv'
  <1>1. op[p] \in Operations /\ OperationSound(op[p]) /\ lock # p
    BY OperationOf DEF RunModel
  <1>2. CASE Raise(p)
    BY <1>1, <1>2, RaiseKeeps DEF RunModel, registryVars, IInv, TypeOK
  <1>3. ASSUME NEW out \in Outcomes, Mutates(p, [op[p].event EXCEPT !.outcome = out])
        PROVE  IInv'
    <2> DEFINE e == [op[p].event EXCEPT !.outcome = out]
    <2>1. /\ e \in Events /\ e.type = op[p].event.type /\ e.study = op[p].event.study
          /\ e.n = op[p].event.n /\ e.holdout = op[p].event.holdout /\ e.outcome = out
      BY <1>1 DEF Operations, Events
    <2>2. op[p].event.type = "proposal_attempt_completed"
          /\ <<op[p].cmd, op[p].event.type>> \in Pairs
      BY <1>1 DEF OperationSound, RunModel
    <2> HIDE DEF e
    <2>3. op' = [op EXCEPT ![p] = [op[p] EXCEPT !.step = "head", !.event = e,
                                                !.handler = op[p].handler]]
      BY <1>1, <1>3, SameHandler DEF Mutates, Becomes, e
    <2> QED  BY <1>1, <2>1, <2>2, <2>3, SameHandler, MutatesKeeps DEF RunModel
  <1> QED  BY <1>2, <1>3 DEF RunModel

LEMMA VerifyKeeps == ASSUME IInv, NEW p \in Procs, VerifyTerminal(p) PROVE IInv'
  <1>1. op[p] \in Operations /\ OperationSound(op[p]) /\ lock # p
    BY OperationOf DEF VerifyTerminal
  <1>2. CASE Raise(p)
    BY <1>1, <1>2, RaiseKeeps DEF VerifyTerminal, registryVars, IInv, TypeOK
  <1>3. ASSUME NEW v \in Verdicts,
               Mutates(p, [op[p].event EXCEPT !.type = "proposal_verified", !.verdict = v])
        PROVE  IInv'
    <2> DEFINE e == [op[p].event EXCEPT !.type = "proposal_verified", !.verdict = v]
    <2>1. /\ e \in Events /\ e.type = "proposal_verified" /\ e.study = op[p].event.study
          /\ e.n = op[p].event.n /\ e.holdout = op[p].event.holdout
      BY <1>1 DEF Operations, Events, EventTypes
    <2>2. <<op[p].cmd, "proposal_verified">> \in Pairs
      BY <1>1 DEF OperationSound, VerifyTerminal, Pairs
    <2> HIDE DEF e
    <2>3. op' = [op EXCEPT ![p] = [op[p] EXCEPT !.step = "head", !.event = e,
                                                !.handler = op[p].handler]]
      BY <1>1, <1>3, SameHandler DEF Mutates, Becomes, e
    <2> QED  BY <1>1, <2>1, <2>2, <2>3, SameHandler, MutatesKeeps DEF VerifyTerminal
  <1> QED  BY <1>2, <1>3 DEF VerifyTerminal

LEMMA RecoverKeeps == ASSUME IInv, NEW p \in Procs, Recover(p) PROVE IInv'
  <1>1. op[p] \in Operations /\ OperationSound(op[p]) /\ lock # p
    BY OperationOf DEF Recover
  <1>2. CASE Becomes(p, Idle)
    BY <1>1, <1>2, IdleKeeps DEF Recover, registryVars, artifacts, IInv, TypeOK
  <1>3. CASE Mutates(p, Failing(op[p]))
    <2>1. op[p].cmd \in {"propose", "run"} /\ op[p].event.type \in Tried
          /\ <<op[p].cmd, op[p].event.type>> \in Pairs
      BY <1>1 DEF OperationSound, Recover
    <2>2. op[p].cmd = "run" => OwnsRun(op[p])
      BY <2>1 DEF Pairs, Tried, OwnsRun
    <2> DEFINE e == Failing(op[p])
    <2>3. /\ e \in Events /\ e.study = op[p].event.study
          /\ e.n = op[p].event.n /\ e.holdout = op[p].event.holdout
          /\ e.type = IF op[p].cmd = "run" THEN "development_run_failed"
                      ELSE "proposal_attempt_completed"
          /\ e.outcome = IF op[p].cmd = "propose" THEN "failed" ELSE "none"
      BY <1>1, <2>1, FailingEvent DEF Recover
    <2> HIDE DEF e
    <2>4. op' = [op EXCEPT ![p] = [op[p] EXCEPT !.step = "head", !.event = e,
                                                !.handler = op[p].handler]]
      BY <1>1, <1>3, SameHandler DEF Mutates, Becomes, e
    <2>5. <<op[p].cmd, e.type>> \in Pairs
      BY <2>1, <2>3 DEF Pairs
    <2>6. e.type = "proposal_attempt_completed" => e.outcome \in Outcomes
      BY <2>1, <2>3 DEF Outcomes
    <2> QED  BY <1>1, <2>1, <2>2, <2>3, <2>4, <2>5, <2>6, SameHandler, MutatesKeeps DEF Recover
  <1> QED  BY <1>2, <1>3 DEF Recover

LEMMA PipelineKeeps ==
    ASSUME IInv, NEW p \in Procs, RunPipeline(p) \/ EvaluateHoldout(p) PROVE IInv'
  <1>1. /\ op[p] \in Operations /\ OperationSound(op[p]) /\ lock # p
        /\ op[p].step \in {"pipeline", "evaluate"}
    BY OperationOf DEF RunPipeline, EvaluateHoldout
  <1>2. CASE Raise(p)
    BY <1>1, <1>2, RaiseKeeps DEF RunPipeline, EvaluateHoldout, registryVars, IInv, TypeOK
  <1>3. CASE Mutates(p, op[p].event)
    <2>1. /\ op[p].event \in Events /\ <<op[p].cmd, op[p].event.type>> \in Pairs
          /\ op[p].event.type \in {"development_run_completed", "holdout_revealed"}
      BY <1>1 DEF OperationSound, Evaluation, Operations
    <2>2. op' = [op EXCEPT ![p] = [op[p] EXCEPT !.step = "head", !.event = op[p].event,
                                                !.handler = op[p].handler]]
      BY <1>1, <1>3, SameHandler DEF Mutates, Becomes
    <2> QED  BY <1>1, <2>1, <2>2, SameHandler, MutatesKeeps
             DEF RunPipeline, EvaluateHoldout, OwnsRun, OwnsReveal
  <1> QED  BY <1>2, <1>3 DEF RunPipeline, EvaluateHoldout

LEMMA RecordKeeps == ASSUME IInv, NEW p \in Procs, WriteRecord(p) PROVE IInv'
  <1>1. /\ op[p] \in Operations /\ OperationSound(op[p]) /\ lock # p
    BY OperationOf DEF WriteRecord
  <1>2. op[p].event.study \in Studies
    BY <1>1 DEF WriteRecord, OperationSound, Operations, Events
  <1>3. approvals' \subseteq Studies /\ freezes' \subseteq Studies
    BY <1>2 DEF WriteRecord, IInv, TypeOK
  <1> QED  BY <1>1, <1>3, IdleKeeps DEF WriteRecord, registryVars, IInv, TypeOK

LEMMA MakeRootKeeps == ASSUME IInv, NEW p \in Procs, MakeDevelopmentRoot(p) PROVE IInv'
  <1>1. /\ op[p] \in Operations /\ OperationSound(op[p]) /\ lock # p
        /\ op[p].step = "mkdir" /\ op[p].event.type = "development_run_started"
        /\ <<op[p].cmd, op[p].event.type>> \in Pairs
    BY OperationOf DEF MakeDevelopmentRoot, OperationSound
  <1>2. op[p].cmd = "run"
    BY <1>1 DEF Pairs
  <1>3. CASE op' = [op EXCEPT ![p] = [op[p] EXCEPT !.step = "pipeline",
                                          !.event.type = "development_run_completed"]]
    <2> DEFINE o == [op[p] EXCEPT !.step = "pipeline", !.event.type = "development_run_completed"]
    <2>1. /\ o \in Operations /\ o.step = "pipeline" /\ o.cmd = "run" /\ Same(op[p], o)
          /\ o.event.type = "development_run_completed"
      BY <1>1, <1>2 DEF Operations, Steps, Events, EventTypes, Same
    <2> HIDE DEF o
    <2>2. OperationSound(o)
      BY <1>1, <1>2, <2>1 DEF OperationSound, Pairs, Same, Evaluation
    <2>3. Continues(op[p], o)
      BY <1>1, <2>1 DEF Continues, OwnsRun, OwnsReveal, Development, Evaluation
    <2>4. Quiet(p, o)
      BY <1>1, <1>3, <2>1, <2>2, <2>3
      DEF Quiet, Takes, MakeDevelopmentRoot, registryVars, artifacts, o
    <2> QED  BY <2>4, Quietly DEF MakeDevelopmentRoot, registryVars, artifacts, IInv, TypeOK
  <1>4. CASE op' = [op EXCEPT ![p] = [op[p] EXCEPT !.step = "head", !.event = Failing(op[p]),
                                                   !.handler = TRUE]]
    <2> DEFINE e == Failing(op[p])
    <2>1. /\ e \in Events /\ e.study = op[p].event.study
          /\ e.n = op[p].event.n /\ e.holdout = op[p].event.holdout
          /\ e.type = "development_run_failed"
      BY <1>1, <1>2, FailingEvent
    <2> HIDE DEF e
    <2>2. op' = [op EXCEPT ![p] = [op[p] EXCEPT !.step = "head", !.event = e, !.handler = TRUE]]
      BY <1>4 DEF e
    <2>3. <<op[p].cmd, e.type>> \in Pairs /\ OwnsRun(op[p])
      BY <1>1, <1>2, <2>1 DEF Pairs, OwnsRun
    <2> QED  BY <1>1, <2>1, <2>2, <2>3, MutatesKeeps DEF MakeDevelopmentRoot
  <1> QED  BY <1>3, <1>4 DEF MakeDevelopmentRoot, Becomes

LEMMA OpenKeeps == ASSUME IInv, NEW p \in Procs, OpenHoldout(p) PROVE IInv'
  <1>1. /\ op[p] \in Operations /\ OperationSound(op[p]) /\ lock # p
        /\ op[p].step = "holdout" /\ op[p].event.type = "holdout_revealed"
        /\ <<op[p].cmd, op[p].event.type>> \in Pairs
        /\ op[p].event.study = NoName <=> op[p].cmd = "external"
    BY OperationOf DEF OpenHoldout, OperationSound, Evaluation
  <1>2. CASE Raise(p) /\ UNCHANGED reads
    BY <1>1, <1>2, RaiseKeeps DEF OpenHoldout, registryVars, IInv, TypeOK
  <1>3. CASE reads' = [reads EXCEPT ![op[p].event.study] = @ + 1] /\ Goes(p, "evaluate")
    <2> DEFINE o == [op[p] EXCEPT !.step = "evaluate"]
               s == op[p].event.study
    <2>1. /\ o \in Operations /\ o.step = "evaluate" /\ o.event = op[p].event
          /\ o.cmd = op[p].cmd
      BY <1>1 DEF Operations, Steps
    <2>2. s \in Studies
      BY <1>1 DEF Pairs, Operations, Events
    <2>3. op' = [op EXCEPT ![p] = o]
      BY <1>3 DEF Goes, Becomes
    <2> HIDE DEF o
    <2>4. OperationSound(o)
      BY <1>1, <2>1 DEF OperationSound, Evaluation
    <2>5. /\ op'[p] = o /\ (\A q \in Procs : q # p => op'[q] = op[q])
          /\ op' \in [Procs -> Operations] /\ OperationsSound'
      BY <2>1, <2>3, <2>4, TakesOne DEF Takes
    <2>6. UNCHANGED <<study, uses, length, torn, lock, sessions, approvals, freezes>>
      BY DEF OpenHoldout, registryVars, artifacts
    <2>7. /\ reads' \in [Studies -> Nat] /\ reads'[s] = reads[s] + 1
          /\ \A t \in Studies : t # s => reads'[t] = reads[t]
      BY <1>3, <2>2 DEF IInv, TypeOK
    <2>8. TypeOK'
      BY <2>5, <2>6, <2>7 DEF IInv, TypeOK
    <2>9. LockSound'
      BY <1>1, <2>1, <2>3, <2>4, <2>6, QuietLock DEF Takes
    <2>10. OwnersSound'
      BY <2>1, <2>5, <2>6, <1>1 DEF IInv, OwnersSound, OwnsRun, OwnsReveal
    <2>11. WorkIsBacked'
      <3>1. \A q \in Procs : \A kind \in {Development, Evaluation} :
               /\ op'[q].step \in kind => op[q].step \in kind
               /\ op'[q].event = op[q].event
        BY <1>1, <2>1, <2>5 DEF Development, Evaluation
      <3> QED  BY <2>6, <3>1 DEF IInv, WorkIsBacked, Works
    <2>12. study[s].reveal # "none" /\ reads[s] = 0
      BY <1>1 DEF IInv, OwnersSound, UsesSound, OwnsReveal
    <2>13. \A q \in Procs : q # p /\ op[q].event.type = "holdout_revealed" =>
               op[q].event.study # s
      BY <1>1 DEF IInv, OwnersSound, OwnsReveal
    <2>14. \A q \in Procs : op'[q].event.type = "holdout_revealed" =>
               reads'[op'[q].event.study] = IF op'[q].step = "holdout" THEN 0 ELSE 1
      <3>1. ASSUME NEW q \in Procs, q # p, op'[q].event.type = "holdout_revealed"
            PROVE  reads'[op'[q].event.study] = IF op'[q].step = "holdout" THEN 0 ELSE 1
        <4>1. op'[q] = op[q] /\ op[q].event.study # s
          BY <2>5, <2>13, <3>1
        <4>2. op[q].event.study \in Studies
          <5>1. OperationSound(op[q]) /\ op[q] \in Operations /\ op[q].step # "idle"
            BY <3>1, <4>1, OperationOf DEF OperationSound, Idle, NoEvent
          <5> QED  BY <3>1, <4>1, <5>1 DEF OperationSound, Pairs, Operations, Events
        <4> QED  BY <3>1, <4>1, <4>2, <2>7 DEF IInv, UsesSound
      <3>2. reads'[op'[p].event.study] = 1 /\ op'[p].step # "holdout"
        BY <2>1, <2>5, <2>7, <2>12
      <3> QED  BY <3>1, <3>2
    <2>15. UsesSound'
      BY <2>6, <2>7, <2>12, <2>14 DEF IInv, UsesSound
    <2>16. BudgetSound'
      BY <2>1, <2>5, <2>6 DEF IInv, BudgetSound, BudgetHolds
    <2> QED  BY <2>5, <2>8, <2>9, <2>10, <2>11, <2>15, <2>16 DEF IInv
  <1> QED  BY <1>2, <1>3 DEF OpenHoldout

LEMMA RunDirectoryKeeps == ASSUME IInv, NEW p \in Procs, MakeRunDirectory(p) PROVE IInv'
  <1>1. /\ op[p] \in Operations /\ OperationSound(op[p]) /\ lock # p
        /\ op[p].step = "rundir" /\ op[p].event.type = "proposal_attempt_completed"
        /\ <<op[p].cmd, op[p].event.type>> \in Pairs
        /\ op[p].event.study = NoName <=> op[p].cmd = "external"
    BY OperationOf DEF MakeRunDirectory, OperationSound
  <1> DEFINE b == op[p].event
             run == [study |-> b.study, n |-> b.n, session |-> op[p].session]
  <1>2. b.study \in Studies /\ b.n \in Nat /\ b.n \in DOMAIN study[b.study].attempts
    BY <1>1 DEF Pairs, Operations, Events, IInv, BudgetSound
  <1>3. UNCHANGED <<study, uses, length, torn, lock, approvals, freezes, reads>>
    BY DEF MakeRunDirectory, registryVars
  <1>4. PICK o : /\ op' = [op EXCEPT ![p] = o] /\ o \in {Idle, [op[p] EXCEPT !.step = "model"]}
                 /\ sessions' \in {sessions, sessions \cup {run}}
    BY DEF MakeRunDirectory, Goes, Becomes
  <1>5. o \in Operations /\ OperationSound(o) /\ Continues(op[p], o)
        /\ o.step \notin {"append", "rundir"}
    <2>1. CASE o = Idle
      BY <2>1, IdleGoes
    <2>2. CASE o = [op[p] EXCEPT !.step = "model"]
      <3>1. /\ o \in Operations /\ o.step = "model" /\ o.event = b /\ o.cmd = op[p].cmd
        BY <1>1, <2>2 DEF Operations, Steps
      <3>2. OperationSound(o)
        BY <1>1, <3>1 DEF OperationSound, Evaluation
      <3> QED  BY <1>1, <3>1, <3>2 DEF Continues, OwnsRun, OwnsReveal, Development, Evaluation
    <2> QED  BY <1>4, <2>1, <2>2
  <1>6. Takes(p, o)
    BY <1>4, <1>5 DEF Takes
  <1>7. /\ op'[p] = o /\ (\A q \in Procs : q # p => op'[q] = op[q])
        /\ op' \in [Procs -> Operations] /\ OperationsSound'
    BY <1>6, TakesOne
  <1>8. OwnersSound' /\ WorkIsBacked' /\ UsesSound'
    BY <1>3, <1>5, <1>6, QuietStep
  <1>9. LockSound'
    BY <1>1, <1>3, <1>5, <1>6, QuietLock
  <1>10. \A r \in sessions' : r \in sessions \/ r = run
    BY <1>4
  <1>11. TypeOK'
    <2>1. run \in SessionRuns
      BY <1>1, <1>2 DEF SessionRuns, OperationSound
    <2> QED  BY <1>3, <1>4, <1>7, <2>1 DEF IInv, TypeOK
  <1>12. BudgetSound'
    BY <1>2, <1>3, <1>5, <1>7, <1>10 DEF IInv, BudgetSound, BudgetHolds
  <1> QED  BY <1>7, <1>8, <1>9, <1>11, <1>12 DEF IInv

\* A command that begins owns nothing yet.
LEMMA BeginKeeps ==
    ASSUME IInv, NEW p \in Procs, NEW o \in Operations, Begin(p, o), OperationSound(o),
           ~OwnsRun(o), ~OwnsReveal(o), o.step \in {"head", "rundir"},
           o.step = "rundir" => o.event.n \in DOMAIN study[o.event.study].attempts,
           UNCHANGED <<registryVars, lock, artifacts, reads>>
    PROVE  IInv'
  <1>1. Takes(p, o) /\ lock # p
    BY OperationOf DEF Begin, Becomes, Takes
  <1>2. Continues(op[p], o)
    BY DEF Continues, OwnsReveal, Development, Evaluation
  <1>3. /\ op'[p] = o /\ (\A q \in Procs : q # p => op'[q] = op[q])
        /\ op' \in [Procs -> Operations] /\ OperationsSound'
    BY <1>1, TakesOne
  <1>4. OwnersSound' /\ WorkIsBacked' /\ UsesSound'
    BY <1>1, <1>2, QuietStep DEF registryVars
  <1>5. LockSound'
    BY <1>1, QuietLock DEF registryVars
  <1>6. TypeOK'
    BY <1>3 DEF IInv, TypeOK, registryVars, artifacts
  <1>7. BudgetSound'
    BY <1>3 DEF IInv, BudgetSound, BudgetHolds, registryVars, artifacts
  <1> QED  BY <1>3, <1>4, <1>5, <1>6, <1>7 DEF IInv

LEMMA EventIs ==
    ASSUME NEW t \in EventTypes, NEW s \in Studies \cup {NoName}
    PROVE  Event(t, s) \in Events /\ Event(t, s).type = t /\ Event(t, s).study = s
  BY DEF Event, NoEvent, Events, EventTypes

LEMMA EventNumbered ==
    ASSUME NEW t \in EventTypes, NEW s \in Studies \cup {NoName}, NEW n \in Nat
    PROVE  LET e == [Event(t, s) EXCEPT !.n = n]
           IN  e \in Events /\ e.type = t /\ e.study = s /\ e.n = n
  <1>1. Event(t, s) \in Events /\ Event(t, s).type = t /\ Event(t, s).study = s
    BY EventIs
  <1> QED  BY <1>1 DEF Events

LEMMA EventOfHoldout ==
    ASSUME NEW t \in EventTypes, NEW s \in Studies \cup {NoName},
           NEW h \in Holdouts \cup {NoName}
    PROVE  LET e == [Event(t, s) EXCEPT !.holdout = h]
           IN  e \in Events /\ e.type = t /\ e.study = s /\ e.holdout = h
  <1>1. Event(t, s) \in Events /\ Event(t, s).type = t /\ Event(t, s).study = s
    BY EventIs
  <1> QED  BY <1>1 DEF Events

\* Every command but propose starts with a mutation.
LEMMA HeadBegins ==
    ASSUME IInv, NEW p \in Procs, NEW c, NEW e \in Events, <<c, e.type>> \in Pairs,
           Begin(p, [Command(c, e) EXCEPT !.step = "head"]),
           e.study = NoName <=> c = "external",
           e.type \in {"external_holdout_registered", "candidate_frozen"} =>
               e.holdout \in Holdouts,
           e.type \notin {"proposal_attempt_completed", "development_run_failed",
                          "development_run_completed", "holdout_reveal_failed",
                          "holdout_revealed"},
           UNCHANGED <<registryVars, lock, artifacts, reads>>
    PROVE  IInv'
  <1> DEFINE o == [Command(c, e) EXCEPT !.step = "head"]
  <1>1. o.cmd = c /\ o.event = e /\ o.step = "head"
    BY DEF Command, Idle
  <1>2. c \in Commands
    BY <1>1 DEF Begin
  <1>3. o \in Operations
    BY <1>2 DEF Command, Idle, Operations, Steps
  <1> HIDE DEF o
  <1>4. OperationSound(o) /\ ~OwnsRun(o) /\ ~OwnsReveal(o)
    BY <1>1 DEF OperationSound, Evaluation, OwnsRun, OwnsReveal
  <1>5. Begin(p, o)
    BY DEF o
  <1> QED  BY <1>1, <1>3, <1>4, <1>5, BeginKeeps

LEMMA ProposeKeeps ==
    ASSUME IInv, NEW p \in Procs, NEW s \in Studies, NEW n \in Nat, NEW c \in Sessions,
           Propose(p, s, n, c), UNCHANGED <<registryVars, lock, artifacts, reads>>
    PROVE  IInv'
  <1> DEFINE e == [Event("proposal_attempt_completed", s) EXCEPT !.n = n]
             o == [Command("propose", e) EXCEPT !.step = "rundir", !.session = c]
  <1>1. /\ e \in Events /\ e.type = "proposal_attempt_completed" /\ e.study = s /\ e.n = n
    BY EventNumbered DEF EventTypes
  <1>2. Begin(p, o) /\ n \in DOMAIN study[s].attempts
    BY DEF Propose, Reserved
  <1> HIDE DEF e
  <1>3. o.cmd = "propose" /\ o.event = e /\ o.step = "rundir" /\ o.session = c
    BY DEF Command, Idle
  <1>4. "propose" \in Commands
    BY <1>2, <1>3 DEF Begin
  <1>5. o \in Operations
    BY <1>1, <1>4 DEF Command, Idle, Operations, Steps
  <1> HIDE DEF o
  <1>6. OperationSound(o) /\ ~OwnsRun(o) /\ ~OwnsReveal(o)
    BY <1>1, <1>3, RegistryAssumption
    DEF OperationSound, Pairs, Evaluation, OwnsRun, OwnsReveal
  <1> QED  BY <1>1, <1>2, <1>3, <1>5, <1>6, BeginKeeps

LEMMA BeginsKeeps == ASSUME IInv, NEW p \in Procs, Begins(p) PROVE IInv'
  <1> USE DEF EventTypes, Pairs
  <1>1. UNCHANGED <<registryVars, lock, artifacts, reads>>
    BY DEF Begins
  <1>2. ASSUME NEW s \in Studies, CreateStudy(p, s) \/ ReserveAttempt(p, s) \/ Close(p, s)
                                  \/ RunDevelopment(p, s)
        PROVE  IInv'
    BY <1>1, <1>2, EventIs, HeadBegins, RegistryAssumption
    DEF CreateStudy, ReserveAttempt, Close, RunDevelopment
  <1>3. ASSUME NEW h \in Holdouts, RegisterExternal(p, h) PROVE IInv'
    <2> DEFINE e == [Event("external_holdout_registered", NoName) EXCEPT !.holdout = h]
    <2>1. /\ e \in Events /\ e.type = "external_holdout_registered" /\ e.study = NoName
          /\ e.holdout = h
      BY EventOfHoldout
    <2>2. Begin(p, [Command("external", e) EXCEPT !.step = "head"])
      BY <1>3 DEF RegisterExternal
    <2> HIDE DEF e
    <2> QED  BY <1>1, <2>1, <2>2, HeadBegins
  <1>4. ASSUME NEW s \in Studies, NEW n \in 1..Budget, Approve(p, s, n) PROVE IInv'
    <2> DEFINE e == [Event("development_execution_approved", s) EXCEPT !.n = n]
    <2>1. e \in Events /\ e.type = "development_execution_approved" /\ e.study = s
      BY EventNumbered
    <2>2. Begin(p, [Command("approve", e) EXCEPT !.step = "head"])
      BY <1>4 DEF Approve
    <2> HIDE DEF e
    <2> QED  BY <1>1, <2>1, <2>2, HeadBegins, RegistryAssumption
  <1>5. ASSUME NEW s \in Studies, NEW h \in Holdouts, Freeze(p, s, h) PROVE IInv'
    <2> DEFINE e == [Event("candidate_frozen", s) EXCEPT !.holdout = h]
    <2>1. e \in Events /\ e.type = "candidate_frozen" /\ e.study = s /\ e.holdout = h
      BY EventOfHoldout
    <2>2. Begin(p, [Command("freeze", e) EXCEPT !.step = "head"])
      BY <1>5 DEF Freeze
    <2> HIDE DEF e
    <2> QED  BY <1>1, <2>1, <2>2, HeadBegins, RegistryAssumption
  <1>6. ASSUME NEW s \in Studies, Reveal(p, s) PROVE IInv'
    <2> DEFINE h == study[s].holdout
               e == [Event("holdout_reveal_reserved", s) EXCEPT !.holdout = h]
    <2>1. h \in Holdouts \cup {NoName}
      BY DEF IInv, TypeOK, StudyStates
    <2>2. e \in Events /\ e.type = "holdout_reveal_reserved" /\ e.study = s
      BY <2>1, EventOfHoldout
    <2>3. Begin(p, [Command("reveal", e) EXCEPT !.step = "head"])
      BY <1>6 DEF Reveal
    <2> HIDE DEF e
    <2> QED  BY <1>1, <2>2, <2>3, HeadBegins, RegistryAssumption
  <1>7. ASSUME NEW s \in Studies, NEW n \in 1..Budget, NEW c \in Sessions, Propose(p, s, n, c)
        PROVE  IInv'
    BY <1>1, <1>7, ProposeKeeps
  <1> QED  BY <1>2, <1>3, <1>4, <1>5, <1>6, <1>7 DEF Begins

\* The event that was accepted is the one that will be appended: the lock was
\* free, and is taken.
LEMMA TakeKeeps == ASSUME IInv, NEW p \in Procs, TakeTransition(p) PROVE IInv'
  <1> DEFINE e == op[p].event
             m == IF e.type = "development_run_started" THEN study[e.study].runs + 1 ELSE e.n
             o == [op[p] EXCEPT !.step = "append", !.head = 0, !.event.n = m]
  <1>1. /\ op[p] \in Operations /\ OperationSound(op[p]) /\ op[p].step = "transition"
        /\ lock = NoName /\ lock' = p /\ Accepts(e)
        /\ UNCHANGED <<study, uses, length, torn, sessions, approvals, freezes, reads>>
    BY OperationOf DEF TakeTransition, Readable, registryVars, artifacts
  <1>2. op' = [op EXCEPT ![p] = o]
    BY DEF TakeTransition, Becomes
  <1>3. m \in Nat
    <2>1. e \in Events /\ (e.type = "development_run_started" => e.study \in Studies)
      BY <1>1 DEF OperationSound, Operations, Events, Pairs
    <2> QED  BY <2>1 DEF Events, IInv, TypeOK, StudyStates
  <1>4. /\ o \in Operations /\ o.step = "append" /\ o.cmd = op[p].cmd
        /\ o.event.type = e.type /\ o.event.study = e.study /\ o.event.holdout = e.holdout
        /\ o.event.n = m /\ o.event.outcome = e.outcome
    BY <1>1, <1>3 DEF Operations, Steps, Events
  <1>5. e.type # "development_run_started" => m = e.n
    OBVIOUS
  <1>6. e.type = "development_run_started" => m = study[e.study].runs + 1
    OBVIOUS
  <1> HIDE DEF m, o
  <1>7. OperationSound(o)
    BY <1>1, <1>4 DEF OperationSound, Evaluation
  <1>8. Continues(op[p], o)
    BY <1>1, <1>4, <1>5 DEF Continues, OwnsRun, OwnsReveal, Same, Development, Evaluation
  <1>9. Takes(p, o)
    BY <1>2, <1>4, <1>7 DEF Takes
  <1>10. /\ op'[p] = o /\ (\A q \in Procs : q # p => op'[q] = op[q])
         /\ op' \in [Procs -> Operations] /\ OperationsSound'
    BY <1>9, TakesOne
  <1>11. OwnersSound' /\ WorkIsBacked' /\ UsesSound'
    BY <1>1, <1>8, <1>9, QuietStep
  <1>12. TypeOK'
    BY <1>1, <1>10 DEF IInv, TypeOK
  <1>13. BudgetSound'
    BY <1>1, <1>4, <1>10 DEF IInv, BudgetSound, BudgetHolds
  <1>14. LockSound'
    <2>1. Accepts(op[p].event)'
      BY <1>1, <1>4, <1>5, <1>10, AcceptsUnchanged
    <2>2. \A q \in Procs : q # p => op[q].step # "append"
      BY <1>1, ExecutionAssumption DEF IInv, LockSound
    <2>3. op'[p].event.type = "development_run_started" =>
              op'[p].event.n = study'[op'[p].event.study].runs + 1
      BY <1>1, <1>4, <1>6, <1>10
    <2> QED  BY <1>1, <1>4, <1>10, <2>1, <2>2, <2>3 DEF LockSound
  <1> QED  BY <1>10, <1>11, <1>12, <1>13, <1>14 DEF IInv

-----------------------------------------------------------------------------
(* Appends *)

\* What Accepts asks of the study alone, type by type.
Asked(d, e) ==
    /\ e.type = "study_registered" => d.state = "unregistered"
    /\ e.type = "proposal_attempt_reserved" =>
           d.state = "development_open" /\ Len(d.attempts) # Budget
    /\ e.type = "proposal_attempt_completed" =>
           d.state = "development_open" /\ e.n \in DOMAIN d.attempts
    /\ e.type = "proposal_verified" => e.n \in DOMAIN d.attempts
    /\ e.type = "development_execution_approved" => d.state = "development_open"
    /\ e.type = "development_run_started" => d.state = "development_locked" /\ d.run # "started"
    /\ e.type \in {"development_run_failed", "development_run_completed"} =>
           d.state = "development_locked" /\ d.run = "started" /\ d.runs = e.n
    /\ e.type = "candidate_frozen" => d.state = "development_locked" /\ d.run = "completed"
    /\ e.type = "holdout_reveal_reserved" =>
           d.state = "candidate_frozen" /\ d.reveal = "none" /\ d.holdout = e.holdout
    /\ e.type \in {"holdout_reveal_failed", "holdout_revealed"} =>
           d.state = "candidate_frozen" /\ d.reveal = "reserved"
    /\ e.type = "study_closed" =>
           d.state # "unregistered" /\ d.run # "started" /\ d.reveal # "reserved"

LEMMA AcceptsAsked ==
    ASSUME NEW e, Accepts(e)
    PROVE  Asked(study[e.study], e) /\ (e.type \in UseTypes => Overlapping(e.holdout) = {})
  BY DEF Accepts, Asked, UseTypes, Transition, FoldAccepts, RegisterStudy, CloseStudy,
         ReserveProposalAttempt, CompleteProposalAttempt, RecordProposalVerification,
         ApproveDevelopmentExecution, StartDevelopmentRun, FailDevelopmentRun,
         CompleteDevelopmentRun, FreezeCandidate, RegisterExternalHoldout,
         ReserveHoldoutReveal, FailHoldoutReveal, CompleteHoldoutReveal, Reserved

\* The registry before and after an append by process p.
LEMMA Appending ==
    ASSUME IInv, NEW p \in Procs, op[p].step = "append", AppendEvent(op[p].event)
    PROVE  LET e == op[p].event
           IN  /\ e \in Events /\ OperationSound(op[p])
               /\ e.type \in UseTypes => e.holdout \in Holdouts /\ Overlapping(e.holdout) = {}
               /\ \/ e.study = NoName /\ e.type = "external_holdout_registered" /\ study' = study
                  \/ /\ e.study \in Studies /\ e.type # "external_holdout_registered"
                     /\ Asked(study[e.study], e) /\ FoldsTo(study[e.study], e)
                     /\ study'[e.study] = Folded(study[e.study], e)
                     /\ \A s \in Studies : s # e.study => study'[s] = study[s]
               /\ study' \in [Studies -> StudyStates] /\ uses' \subseteq Uses
  <1> DEFINE e == op[p].event
  <1>1. /\ e \in Events /\ OperationSound(op[p]) /\ Accepts(e)
        /\ <<op[p].cmd, e.type>> \in Pairs /\ (e.study = NoName <=> op[p].cmd = "external")
    BY OperationOf DEF Operations, IInv, LockSound, OperationSound
  <1>2. Asked(study[e.study], e) /\ (e.type \in UseTypes => Overlapping(e.holdout) = {})
    BY <1>1, AcceptsAsked
  <1>3. study \in [Studies -> StudyStates] /\ uses \subseteq Uses
    BY DEF IInv, TypeOK
  <1>4. /\ e.study = NoName <=> e.type = "external_holdout_registered"
        /\ e.study \in Studies \cup {NoName}
    BY <1>1 DEF Pairs, Events
  <1>5. e.type \in UseTypes => e.holdout \in Holdouts
    <2>1. CASE e.type = "external_holdout_registered"
      BY <1>1, <2>1 DEF OperationSound
    <2>2. CASE e.type = "holdout_reveal_reserved"
      BY <1>2, <1>4, <2>2 DEF Asked, IInv, UsesSound
    <2> QED  BY <2>1, <2>2 DEF UseTypes
  <1>6. uses' \subseteq Uses
    BY <1>1, <1>3, <1>4, <1>5 DEF AppendEvent, Uses, Events
  <1>7. CASE e.study = NoName
    BY <1>1, <1>2, <1>3, <1>4, <1>5, <1>6, <1>7 DEF AppendEvent
  <1>8. CASE e.study \in Studies
    <2>1. e.study # NoName
      BY <1>8, RegistryAssumption
    <2>2. study' = [study EXCEPT ![e.study] = Folded(study[e.study], e)]
      BY <2>1 DEF AppendEvent
    <2>3. Completes(study[e.study], e)
      BY <1>1, <1>2 DEF Completes, Asked, OperationSound
    <2>4. FoldsTo(study[e.study], e)
      BY <1>1, <1>3, <1>4, <1>8, <2>1, <2>3, FoldFields
    <2>5. Folded(study[e.study], e) \in StudyStates
      BY <2>4 DEF FoldsTo
    <2>6. study' \in [Studies -> StudyStates] /\ study'[e.study] = Folded(study[e.study], e)
          /\ \A s \in Studies : s # e.study => study'[s] = study[s]
      BY <1>3, <1>8, <2>2, <2>5
    <2> QED  BY <1>1, <1>2, <1>4, <1>5, <1>6, <1>8, <2>1, <2>4, <2>6
  <1> QED  BY <1>4, <1>7, <1>8

\* An append takes nothing from what others own or work at.
LEMMA AppendSpares ==
    ASSUME IInv, NEW p \in Procs, op[p].step = "append", AppendEvent(op[p].event),
           NEW q \in Procs, q # p, NEW s \in Studies, s = op[q].event.study
    PROVE  /\ study'[s].runs >= study[s].runs
           /\ study[s].reveal # "none" => study'[s].reveal # "none"
           /\ op[q].step \in Development =>
                  /\ study'[s].state = "development_locked" /\ study'[s].run = "started"
                  /\ study'[s].runs = op[q].event.n
           /\ op[q].step \in Evaluation =>
                  /\ study'[s].state = "candidate_frozen" /\ study'[s].reveal = "reserved"
                  /\ study'[s].holdout = op[q].event.holdout
  <1> DEFINE e == op[p].event
             d == study[s]
  <1>1. /\ op[q].step \in Development =>
               d.state = "development_locked" /\ d.run = "started" /\ d.runs = op[q].event.n
        /\ op[q].step \in Evaluation =>
               d.state = "candidate_frozen" /\ d.reveal = "reserved"
               /\ d.holdout = op[q].event.holdout
    BY DEF IInv, WorkIsBacked, Works
  <1>2. d \in StudyStates
    BY DEF IInv, TypeOK
  <1>3. CASE study'[s] = study[s]
    BY <1>1, <1>2, <1>3 DEF StudyStates
  <1>4. CASE s = e.study /\ Asked(d, e) /\ FoldsTo(d, e) /\ study'[s] = Folded(d, e)
    <2>1. study'[s].runs >= d.runs
      <3>1. d.runs \in Nat
        BY <1>2 DEF StudyStates
      <3>2. study'[s].runs = IF e.type = "development_run_started" THEN d.runs + 1 ELSE d.runs
        BY <1>4 DEF FoldsTo
      <3> QED  BY <3>1, <3>2
    <2>2. d.reveal # "none" => study'[s].reveal # "none"
      BY <1>4 DEF FoldsTo
    <2>3. ASSUME op[q].step \in Development
          PROVE  /\ study'[s].state = "development_locked" /\ study'[s].run = "started"
                 /\ study'[s].runs = op[q].event.n
      <3>1. OwnsRun(op[q])
        BY <2>3, OperationOf DEF OwnsRun, Development, OperationSound
      <3>2. OwnsRun(op[p]) => op[p].event.n # op[q].event.n
        BY <1>4, <3>1 DEF IInv, OwnersSound
      <3>3. e.type \notin {"development_run_failed", "development_run_completed"}
        BY <1>1, <1>4, <2>3, <3>2 DEF OwnsRun, Asked
      <3> QED  BY <1>1, <1>4, <2>3, <3>3 DEF Asked, FoldsTo
    <2>4. ASSUME op[q].step \in Evaluation
          PROVE  /\ study'[s].state = "candidate_frozen" /\ study'[s].reveal = "reserved"
                 /\ study'[s].holdout = op[q].event.holdout
      <3>1. OwnsReveal(op[q])
        BY <2>4, OperationOf DEF OwnsReveal, Evaluation, OperationSound
      <3>2. ~OwnsReveal(op[p])
        BY <1>4, <3>1 DEF IInv, OwnersSound
      <3>3. e.type \notin {"holdout_reveal_failed", "holdout_revealed"}
        BY <3>2 DEF OwnsReveal
      <3> QED  BY <1>1, <1>4, <2>4, <3>3 DEF Asked, FoldsTo
    <2> QED  BY <2>1, <2>2, <2>3, <2>4
  <1> QED  BY <1>3, <1>4, Appending

\* The uses on record, and what they say of the studies.
LEMMA AppendUses ==
    ASSUME IInv, NEW p \in Procs, op[p].step = "append", AppendEvent(op[p].event)
    PROVE  /\ \A u, v \in uses' : u # v => <<u.holdout, v.holdout>> \notin Overlap
           /\ \A u \in uses' : u.study # NoName => study'[u.study].reveal # "none"
           /\ \A s \in Studies :
                 /\ study'[s].reveal # "none" =>
                        /\ study'[s].state \in {"candidate_frozen", "holdout_revealed", "closed"}
                        /\ [holdout |-> study'[s].holdout, study |-> s] \in uses'
                 /\ study'[s].state \in {"candidate_frozen", "holdout_revealed"} =>
                        study'[s].holdout \in Holdouts
                 /\ study[s].reveal # "none" => study'[s].reveal # "none"
  <1> DEFINE e == op[p].event
             w == [holdout |-> e.holdout, study |-> e.study]
  <1>1. /\ e.type \in UseTypes => e.holdout \in Holdouts /\ Overlapping(e.holdout) = {}
        /\ e \in Events
    BY Appending
  <1>2. uses' = IF e.type \in UseTypes THEN uses \cup {w} ELSE uses
    BY DEF AppendEvent
  <1>3. uses \subseteq Uses
    BY DEF IInv, TypeOK
  <1>4. \A u, v \in uses : u # v => <<u.holdout, v.holdout>> \notin Overlap
    BY DEF IInv, UsesSound
  <1>5. e.type \in UseTypes => \A u \in uses : /\ <<u.holdout, w.holdout>> \notin Overlap
                                              /\ <<w.holdout, u.holdout>> \notin Overlap
    BY <1>1, <1>3, OverlapAssumption DEF Overlapping, Uses
  <1>6. \A u, v \in uses' : u # v => <<u.holdout, v.holdout>> \notin Overlap
    BY <1>2, <1>4, <1>5
  <1>7. \A s \in Studies : study[s].reveal # "none" => study'[s].reveal # "none"
    BY Appending DEF FoldsTo
  <1>8. \A u \in uses' : u.study # NoName => study'[u.study].reveal # "none"
    <2>1. \A u \in uses : u.study # NoName => study'[u.study].reveal # "none"
      BY <1>3, <1>7 DEF IInv, UsesSound, Uses
    <2>2. e.type \in UseTypes /\ e.study # NoName => study'[e.study].reveal # "none"
      BY Appending DEF FoldsTo, UseTypes
    <2> QED  BY <1>2, <2>1, <2>2
  <1>9. ASSUME NEW s \in Studies
        PROVE  /\ study'[s].reveal # "none" =>
                      /\ study'[s].state \in {"candidate_frozen", "holdout_revealed", "closed"}
                      /\ [holdout |-> study'[s].holdout, study |-> s] \in uses'
               /\ study'[s].state \in {"candidate_frozen", "holdout_revealed"} =>
                      study'[s].holdout \in Holdouts
    <2> DEFINE d == study[s]
    <2>1. /\ d.reveal # "none" =>
                 /\ d.state \in {"candidate_frozen", "holdout_revealed", "closed"}
                 /\ [holdout |-> d.holdout, study |-> s] \in uses
          /\ d.state \in {"candidate_frozen", "holdout_revealed"} => d.holdout \in Holdouts
      BY DEF IInv, UsesSound
    <2>2. uses \subseteq uses'
      BY <1>2
    <2>3. CASE study'[s] = study[s]
      BY <2>1, <2>2, <2>3
    <2>4. CASE s = e.study /\ Asked(d, e) /\ FoldsTo(d, e) /\ study'[s] = Folded(d, e)
      <3>1. CASE e.type = "candidate_frozen"
        <4>1. e.holdout \in Holdouts
          BY <3>1, Appending DEF OperationSound
        <4>2. d.reveal = "none"
          BY <2>1, <2>4, <3>1 DEF Asked
        <4> QED  BY <2>4, <3>1, <4>1, <4>2 DEF FoldsTo
      <3>2. CASE e.type = "holdout_reveal_reserved"
        <4>1. d.state = "candidate_frozen" /\ d.holdout = e.holdout /\ w \in uses'
          BY <1>2, <2>4, <3>2 DEF Asked, UseTypes
        <4> QED  BY <2>1, <2>4, <3>2, <4>1 DEF FoldsTo
      <3>3. CASE e.type \notin {"candidate_frozen", "holdout_reveal_reserved"}
        BY <2>1, <2>2, <2>4, <3>3 DEF Asked, FoldsTo
      <3> QED  BY <3>1, <3>2, <3>3
    <2> QED  BY <2>3, <2>4, Appending
  <1> QED  BY <1>6, <1>7, <1>8, <1>9

\* o goes on from an append: with what b owned, or with what its event gave it.
Proceeds(b, o) ==
    /\ OwnsRun(o) =>
           Same(b, o) /\ (OwnsRun(b) \/ b.event.type = "development_run_started")
    /\ OwnsReveal(o) =>
           Same(b, o) /\ (OwnsReveal(b) \/ b.event.type = "holdout_reveal_reserved")
    /\ o.step \in Development => b.event.type = "development_run_started"
    /\ o.step \in Evaluation => b.event.type = "holdout_reveal_reserved"
    /\ o.event.type = "holdout_revealed" =>
           IF o.step = "holdout" THEN b.event.type = "holdout_reveal_reserved"
           ELSE b.event.type = "holdout_revealed"
    /\ o.step \notin {"append", "rundir"}

LEMMA OwnerStudy ==
    ASSUME IInv, NEW q \in Procs, OwnsRun(op[q]) \/ OwnsReveal(op[q])
    PROVE  op[q].event.study \in Studies
  <1>1. op[q] \in Operations /\ OperationSound(op[q]) /\ op[q].step # "idle"
    BY OperationOf DEF OwnsRun, OwnsReveal, OperationSound, Idle, NoEvent
  <1>2. op[q].cmd # "external"
    BY <1>1 DEF OperationSound, Pairs, OwnsRun, OwnsReveal
  <1> QED  BY <1>1, <1>2 DEF OperationSound, Operations, Events

\* What process p has by the event it appended.
LEMMA AppendGives ==
    ASSUME IInv, NEW p \in Procs, op[p].step = "append", AppendEvent(op[p].event)
    PROVE  LET e == op[p].event
               d == study[e.study]
               f == study'[e.study]
           IN  /\ e.type = "development_run_started" =>
                      /\ e.study \in Studies /\ e.n = d.runs + 1 /\ f.runs = e.n
                      /\ f.state = "development_locked" /\ f.run = "started"
               /\ OwnsRun(op[p]) => e.n <= f.runs
               /\ e.type = "holdout_reveal_reserved" =>
                      /\ e.study \in Studies /\ d.reveal = "none" /\ f.reveal = "reserved"
                      /\ f.state = "candidate_frozen" /\ f.holdout = e.holdout
               /\ OwnsReveal(op[p]) => f.reveal # "none"
  <1> DEFINE e == op[p].event
             d == study[e.study]
             f == study'[e.study]
  <1>1. CASE e.type = "external_holdout_registered"
    BY <1>1 DEF OwnsRun, OwnsReveal
  <1>2. CASE /\ e.study \in Studies /\ Asked(d, e) /\ FoldsTo(d, e) /\ f = Folded(d, e)
    <2>1. e.type = "development_run_started" => e.n = d.runs + 1
      BY DEF IInv, LockSound
    <2>2. OwnsRun(op[p]) => e.n <= d.runs
      BY DEF IInv, OwnersSound
    <2>3. /\ e.type = "development_run_started" => d.state = "development_locked"
          /\ e.type = "holdout_reveal_reserved" =>
                 d.state = "candidate_frozen" /\ d.reveal = "none" /\ d.holdout = e.holdout
          /\ OwnsReveal(op[p]) => d.reveal # "none"
      BY <1>2 DEF Asked, OwnsReveal
    <2>4. /\ e.type # "development_run_started" => f.runs = d.runs
          /\ e.type = "development_run_started" =>
                 f.state = d.state /\ f.run = "started" /\ f.runs = d.runs + 1
          /\ e.type = "holdout_reveal_reserved" =>
                 f.state = d.state /\ f.reveal = "reserved" /\ f.holdout = d.holdout
          /\ d.reveal # "none" => f.reveal # "none"
      BY <1>2 DEF FoldsTo
    <2>5. OwnsRun(op[p]) => e.type # "development_run_started"
      BY DEF OwnsRun
    <2> QED  BY <1>2, <2>1, <2>2, <2>3, <2>4, <2>5
  <1> QED  BY <1>1, <1>2, Appending

LEMMA AppendKeeps ==
    ASSUME IInv, NEW p \in Procs, op[p].step = "append", AppendEvent(op[p].event),
           NEW o, Takes(p, o), Proceeds(op[p], o), lock' = NoName,
           UNCHANGED <<artifacts, reads>>
    PROVE  IInv'
  <1> DEFINE e == op[p].event
             s == e.study
  <1>1. /\ op'[p] = o /\ (\A q \in Procs : q # p => op'[q] = op[q])
        /\ op' \in [Procs -> Operations] /\ OperationsSound'
    BY TakesOne
  <1>2. TypeOK'
    <2>1. study' \in [Studies -> StudyStates] /\ uses' \subseteq Uses
      BY Appending
    <2>2. length' \in Nat /\ torn' \in BOOLEAN
      BY DEF IInv, TypeOK, AppendEvent
    <2> QED  BY <1>1, <2>1, <2>2 DEF IInv, TypeOK, artifacts
  <1>3. LockSound'
    <2>1. lock = p
      BY OperationOf
    <2>2. \A q \in Procs : op'[q].step # "append" /\ lock' # q
      BY <1>1, <2>1, ExecutionAssumption DEF IInv, LockSound, Proceeds
    <2> QED  BY <2>2 DEF LockSound
  <1>4. \A t \in Studies : DOMAIN study[t].attempts \subseteq DOMAIN study'[t].attempts
    BY Appending DEF FoldsTo
  <1>5. BudgetSound'
    <2>1. ASSUME NEW t \in Studies PROVE Len(study'[t].attempts) <= Budget
      <3>1. Len(study[t].attempts) <= Budget /\ Len(study[t].attempts) \in Nat
        BY DEF IInv, BudgetSound, BudgetHolds, TypeOK, StudyStates
      <3>2. CASE study'[t] = study[t]
        BY <3>1, <3>2
      <3>3. CASE t = s /\ Asked(study[t], e) /\ FoldsTo(study[t], e)
                 /\ study'[t] = Folded(study[t], e)
        <4>1. Len(study'[t].attempts) = IF e.type = "proposal_attempt_reserved"
                                        THEN Len(study[t].attempts) + 1 ELSE Len(study[t].attempts)
          BY <3>3 DEF FoldsTo
        <4>2. e.type = "proposal_attempt_reserved" => Len(study[t].attempts) # Budget
          BY <3>3 DEF Asked
        <4> QED  BY <3>1, <4>1, <4>2, RegistryAssumption
      <3> QED  BY <3>2, <3>3, Appending
    <2>2. \A r \in sessions' : r.study \in Studies /\ r.n \in DOMAIN study'[r.study].attempts
      BY <1>4 DEF IInv, TypeOK, SessionRuns, BudgetSound, BudgetHolds, artifacts
    <2>3. ASSUME NEW q \in Procs, op'[q].step = "rundir"
          PROVE  op'[q].event.n \in DOMAIN study'[op'[q].event.study].attempts
      <3>1. q # p /\ op'[q] = op[q]
        BY <1>1, <2>3 DEF Proceeds
      <3>2. op[q].event.study \in Studies
        BY <2>3, <3>1, OperationOf DEF OperationSound, Pairs, Operations, Events
      <3> QED  BY <1>4, <2>3, <3>1, <3>2 DEF IInv, BudgetSound
    <2> QED  BY <2>1, <2>2, <2>3 DEF BudgetSound, BudgetHolds
  <1>6. \A q \in Procs : OwnsRun(op[q]) \/ OwnsReveal(op[q]) => op[q].event.study \in Studies
    BY OwnerStudy
  <1>7. OwnersSound'
    <2>1. ASSUME NEW q \in Procs
          PROVE  /\ OwnsRun(op'[q]) => op'[q].event.n <= study'[op'[q].event.study].runs
                 /\ OwnsReveal(op'[q]) => study'[op'[q].event.study].reveal # "none"
      <3>1. CASE q # p
        <4>1. op'[q] = op[q]
          BY <1>1, <3>1
        <4>2. OwnsReveal(op[q]) => study'[op[q].event.study].reveal # "none"
          BY <1>6, <3>1, AppendSpares DEF IInv, OwnersSound
        <4>3. ASSUME OwnsRun(op[q]) PROVE op[q].event.n <= study'[op[q].event.study].runs
          <5> DEFINE t == op[q].event.study
          <5>1. t \in Studies /\ op[q].event.n <= study[t].runs
            BY <1>6, <4>3 DEF IInv, OwnersSound
          <5>2. study'[t].runs >= study[t].runs
            BY <3>1, <5>1, AppendSpares
          <5>3. op[q].event.n \in Nat /\ study[t].runs \in Nat /\ study'[t].runs \in Nat
            BY <1>2, <5>1, OperationOf DEF Operations, Events, IInv, TypeOK, StudyStates
          <5> QED  BY <5>1, <5>2, <5>3
        <4> QED  BY <4>1, <4>2, <4>3 DEF OwnsRun, OwnsReveal
      <3>2. CASE q = p
        <4>1. op'[q] = o /\ Proceeds(op[p], o)
          BY <1>1, <3>2
        <4>2. OwnsRun(o) \/ OwnsReveal(o) =>
                  op'[q].event.study = s /\ op'[q].event.n = e.n
          BY <4>1 DEF Proceeds, Same
        <4>3. ASSUME OwnsRun(o) PROVE e.n <= study'[s].runs
          <5>1. CASE OwnsRun(op[p])
            BY <5>1, AppendGives
          <5>2. CASE e.type = "development_run_started"
            BY <1>2, <5>2, AppendGives DEF TypeOK, StudyStates
          <5> QED  BY <4>1, <4>3, <5>1, <5>2 DEF Proceeds
        <4>4. OwnsReveal(o) => study'[s].reveal # "none"
          BY <4>1, AppendGives DEF Proceeds
        <4> QED  BY <4>1, <4>2, <4>3, <4>4 DEF OwnsRun, OwnsReveal
      <3> QED  BY <3>1, <3>2
    <2>2. ASSUME NEW q \in Procs, q # p, op[q].event.study = o.event.study
          PROVE  /\ ~(OwnsRun(o) /\ OwnsRun(op[q]) /\ o.event.n = op[q].event.n)
                 /\ ~(OwnsReveal(o) /\ OwnsReveal(op[q]))
      <3>1. ASSUME OwnsRun(o), OwnsRun(op[q]), o.event.n = op[q].event.n PROVE FALSE
        <4>1. Same(op[p], o) /\ (OwnsRun(op[p]) \/ e.type = "development_run_started")
          BY <3>1 DEF Proceeds
        <4>2. e.type = "development_run_started"
          BY <2>2, <3>1, <4>1 DEF IInv, OwnersSound, Same
        <4>3. op[q].event.n = study[s].runs + 1 /\ op[q].event.n <= study[s].runs
              /\ s \in Studies
          BY <2>2, <3>1, <4>1, <4>2, AppendGives DEF IInv, OwnersSound, Same
        <4> QED  BY <4>3 DEF IInv, TypeOK, StudyStates
      <3>2. ASSUME OwnsReveal(o), OwnsReveal(op[q]) PROVE FALSE
        <4>1. Same(op[p], o) /\ (OwnsReveal(op[p]) \/ e.type = "holdout_reveal_reserved")
          BY <3>2 DEF Proceeds
        <4>2. e.type = "holdout_reveal_reserved"
          BY <2>2, <3>2, <4>1 DEF IInv, OwnersSound, Same
        <4> QED  BY <2>2, <3>2, <4>1, <4>2, AppendGives DEF IInv, OwnersSound, Same
      <3> QED  BY <3>1, <3>2
    <2>3. ASSUME NEW q \in Procs, NEW r \in Procs, op'[q].event.study = op'[r].event.study
          PROVE  /\ OwnsRun(op'[q]) /\ OwnsRun(op'[r]) /\ op'[q].event.n = op'[r].event.n =>
                        q = r
                 /\ OwnsReveal(op'[q]) /\ OwnsReveal(op'[r]) => q = r
      <3>1. CASE q # p /\ r # p
        BY <1>1, <2>3, <3>1 DEF IInv, OwnersSound
      <3>2. CASE q = p \/ r = p
        BY <1>1, <2>2, <2>3, <3>2
      <3> QED  BY <3>1, <3>2
    <2> QED  BY <2>1, <2>3 DEF OwnersSound, OwnsRun, OwnsReveal
  <1>8. WorkIsBacked'
    <2>1. ASSUME NEW q \in Procs
          PROVE  LET d == study'[op'[q].event.study]
                 IN  /\ op'[q].step \in Development =>
                            d.state = "development_locked" /\ d.run = "started"
                            /\ d.runs = op'[q].event.n
                     /\ op'[q].step \in Evaluation =>
                            d.state = "candidate_frozen" /\ d.reveal = "reserved"
                            /\ d.holdout = op'[q].event.holdout
      <3>1. CASE q # p
        <4>1. op[q].step \in Development \cup Evaluation => op[q].event.study \in Studies
          BY OwnerStudy, OperationOf
          DEF OwnsRun, OwnsReveal, Development, Evaluation, OperationSound
        <4> QED  BY <1>1, <3>1, <4>1, AppendSpares
      <3>2. CASE q = p
        <4>1. op'[q] = o /\ Proceeds(op[p], o) /\ OperationSound(o)
          BY <1>1, <3>2 DEF Takes
        <4>2. /\ o.step \in Development => OwnsRun(o)
              /\ o.step \in Evaluation => OwnsReveal(o)
          BY <4>1 DEF OwnsRun, OwnsReveal, Development, Evaluation, OperationSound
        <4>3. /\ o.step \in Development => e.type = "development_run_started" /\ Same(op[p], o)
              /\ o.step \in Evaluation => e.type = "holdout_reveal_reserved" /\ Same(op[p], o)
          BY <4>1, <4>2 DEF Proceeds
        <4> QED  BY <4>1, <4>3, AppendGives DEF Same
      <3> QED  BY <3>1, <3>2
    <2>2. \A q, r \in Procs : op'[q].event.study = op'[r].event.study /\ q # r =>
              /\ ~(op'[q].step \in Development /\ op'[r].step \in Development)
              /\ ~(op'[q].step \in Evaluation /\ op'[r].step \in Evaluation)
      <3>1. \A q \in Procs : /\ op'[q].step \in Development => OwnsRun(op'[q])
                             /\ op'[q].step \in Evaluation => OwnsReveal(op'[q])
        BY <1>1 DEF OwnsRun, OwnsReveal, Development, Evaluation, OperationSound,
                    OperationsSound
      <3>2. \A q, r \in Procs : op'[q].event.study = op'[r].event.study =>
               /\ OwnsRun(op'[q]) /\ OwnsRun(op'[r]) /\ op'[q].event.n = op'[r].event.n => q = r
               /\ OwnsReveal(op'[q]) /\ OwnsReveal(op'[r]) => q = r
        BY <1>7 DEF OwnersSound, OwnsRun, OwnsReveal
      <3> QED  BY <2>1, <3>1, <3>2
    <2> QED  BY <2>1, <2>2 DEF WorkIsBacked, Works
  <1>9. UsesSound'
    <2>1. \A t \in Studies : reads'[t] <= 1 /\ (reads'[t] = 1 => study'[t].reveal # "none")
      BY AppendUses DEF IInv, UsesSound
    <2>2. ASSUME NEW q \in Procs, op'[q].event.type = "holdout_revealed"
          PROVE  reads'[op'[q].event.study] = IF op'[q].step = "holdout" THEN 0 ELSE 1
      <3>1. CASE q # p
        BY <1>1, <2>2, <3>1 DEF IInv, UsesSound
      <3>2. CASE q = p
        <4>1. op'[q] = o /\ o.event.type = "holdout_revealed" /\ OwnsReveal(o)
          BY <1>1, <2>2, <3>2 DEF OwnsReveal
        <4>2. Same(op[p], o)
          BY <4>1 DEF Proceeds
        <4>3. CASE o.step = "holdout"
          <5>1. e.type = "holdout_reveal_reserved"
            BY <4>1, <4>3 DEF Proceeds
          <5>2. s \in Studies /\ study[s].reveal = "none"
            BY <5>1, AppendGives
          <5>3. reads[s] = 0
            <6>1. reads[s] \in Nat
              BY <5>2 DEF IInv, TypeOK
            <6>2. reads[s] <= 1 /\ reads[s] # 1
              BY <5>2 DEF IInv, UsesSound
            <6> QED  BY <6>1, <6>2
          <5> QED  BY <4>1, <4>2, <4>3, <5>3 DEF Same
        <4>4. CASE o.step # "holdout"
          <5>1. e.type = "holdout_revealed"
            BY <4>1, <4>4 DEF Proceeds
          <5> QED  BY <4>1, <4>2, <4>4, <5>1 DEF IInv, UsesSound, Same
        <4> QED  BY <4>3, <4>4
      <3> QED  BY <3>1, <3>2
    <2> QED  BY <2>1, <2>2, AppendUses DEF UsesSound
  <1> QED  BY <1>1, <1>2, <1>3, <1>5, <1>7, <1>8, <1>9 DEF IInv

LEMMA IdleProceeds == ASSUME NEW b PROVE Proceeds(b, Idle)
  <1>1. Idle.step = "idle" /\ Idle.event.type = "study_registered"
    BY DEF Idle, NoEvent
  <1> QED  BY <1>1 DEF Proceeds, OwnsRun, OwnsReveal, Development, Evaluation

\* Where After takes a command.
LEMMA AfterGoes ==
    ASSUME NEW b \in Operations, OperationSound(b), b.step = "append"
    PROVE  After(b) \in Operations /\ OperationSound(After(b)) /\ Proceeds(b, After(b))
  <1> DEFINE o == After(b)
  <1>1. /\ b.event \in Events /\ <<b.cmd, b.event.type>> \in Pairs
        /\ b.event.study = NoName <=> b.cmd = "external"
        /\ b.event.type \in {"external_holdout_registered", "candidate_frozen"} =>
               b.event.holdout \in Holdouts
    BY DEF Operations, OperationSound
  <1>2. CASE b.event.type = "proposal_attempt_completed" /\ b.event.outcome # "failed"
    <2>1. o = [b EXCEPT !.step = "verify"]
      BY <1>2 DEF After
    <2>2. o \in Operations /\ o.step = "verify" /\ o.event = b.event /\ o.cmd = b.cmd
      BY <2>1 DEF Operations, Steps
    <2> HIDE DEF o
    <2> QED  BY <1>1, <1>2, <2>2
             DEF OperationSound, Proceeds, OwnsRun, OwnsReveal, Development, Evaluation, o
  <1>3. CASE b.event.type \in {"development_execution_approved", "candidate_frozen"}
    <2>1. o = [b EXCEPT !.step = "record"]
      BY <1>3 DEF After
    <2>2. o \in Operations /\ o.step = "record" /\ o.event = b.event /\ o.cmd = b.cmd
      BY <2>1 DEF Operations, Steps
    <2>3. b.cmd \in {"approve", "freeze"}
      BY <1>1, <1>3 DEF Pairs
    <2> HIDE DEF o
    <2> QED  BY <1>1, <1>3, <2>2, <2>3
             DEF OperationSound, Proceeds, OwnsRun, OwnsReveal, Development, Evaluation, o
  <1>4. CASE b.event.type = "development_run_started"
    <2>1. o = [b EXCEPT !.step = "mkdir"]
      BY <1>4 DEF After
    <2>2. o \in Operations /\ o.step = "mkdir" /\ o.event = b.event /\ o.cmd = b.cmd
      BY <2>1 DEF Operations, Steps
    <2> HIDE DEF o
    <2> QED  BY <1>1, <1>4, <2>2
             DEF OperationSound, Proceeds, Same, OwnsRun, OwnsReveal, Development, Evaluation, o
  <1>5. CASE b.event.type = "holdout_reveal_reserved"
    <2> DEFINE e == [b.event EXCEPT !.type = "holdout_revealed"]
    <2>a. o = [b EXCEPT !.step = "holdout", !.event = e]
      BY <1>5 DEF After
    <2>1. /\ e \in Events /\ e.type = "holdout_revealed" /\ e.study = b.event.study
          /\ e.n = b.event.n /\ e.holdout = b.event.holdout
      BY <1>1 DEF Events, EventTypes
    <2> HIDE DEF e
    <2>2. /\ o \in Operations /\ o.step = "holdout" /\ o.cmd = b.cmd /\ Same(b, o)
          /\ o.event.type = "holdout_revealed"
      BY <2>a, <2>1 DEF Operations, Steps, Same
    <2>3. b.cmd = "reveal"
      BY <1>1, <1>5 DEF Pairs
    <2> HIDE DEF o
    <2>4. OperationSound(o)
      BY <1>1, <2>2, <2>3 DEF OperationSound, Pairs, Same, Evaluation
    <2>5. Proceeds(b, o)
      BY <1>5, <2>2 DEF Proceeds, OwnsRun, OwnsReveal, Development, Evaluation
    <2> QED  BY <2>2, <2>4, <2>5 DEF o
  <1>6. CASE o = Idle
    BY <1>6, IdleGoes, IdleProceeds
  <1> QED  BY <1>2, <1>3, <1>4, <1>5, <1>6 DEF After

\* An append that is heard of, one that is not, and one that never was.
LEMMA AppendedKeeps == ASSUME IInv, NEW p \in Procs, Appended(p) PROVE IInv'
  <1>1. Takes(p, After(op[p])) /\ Proceeds(op[p], After(op[p]))
    BY OperationOf, AfterGoes DEF Appended, Becomes, Takes
  <1> QED  BY <1>1, AppendKeeps DEF Appended

LEMMA AppendFailsKeeps == ASSUME IInv, NEW p \in Procs, AppendFails(p) PROVE IInv'
  <1>1. op[p].step = "append" /\ lock = p /\ lock' = NoName /\ Raise(p)
        /\ UNCHANGED <<artifacts, reads>>
    BY OperationOf DEF AppendFails
  <1>2. CASE UNCHANGED registryVars
    BY <1>1, <1>2, RaiseKeeps DEF registryVars, IInv, TypeOK
  <1>3. CASE torn' = TRUE /\ UNCHANGED <<study, uses, length>>
    BY <1>1, <1>3, RaiseKeeps
  <1>4. CASE AppendEvent(op[p].event)
    <2> DEFINE o == Raised(op[p])
    <2>1. Takes(p, o) /\ Continues(op[p], o) /\ o.step \notin {"append", "rundir"}
      BY <1>1, OperationOf, RaisedGoes DEF Raise, Becomes, Takes
    <2> HIDE DEF o
    <2>2. Proceeds(op[p], o)
      BY <1>1, <2>1 DEF Continues, Proceeds, Development, Evaluation
    <2> QED  BY <1>1, <1>4, <2>1, <2>2, AppendKeeps
  <1> QED  BY <1>2, <1>3, <1>4 DEF AppendFails

LEMMA CrashKeeps == ASSUME IInv, NEW p \in Procs, Crash(p) PROVE IInv'
  <1>1. /\ Becomes(p, Idle) /\ lock' = (IF lock = p THEN NoName ELSE lock)
        /\ UNCHANGED <<artifacts, reads>>
    BY DEF Crash
  <1>2. CASE UNCHANGED registryVars
    BY <1>1, <1>2, IdleKeeps DEF registryVars, artifacts, IInv, TypeOK
  <1>3. CASE torn' = TRUE /\ UNCHANGED <<study, uses, length>>
    BY <1>1, <1>3, IdleKeeps DEF artifacts, IInv, TypeOK
  <1>4. CASE op[p].step = "append" /\ AppendEvent(op[p].event)
    <2>1. Takes(p, Idle) /\ Proceeds(op[p], Idle) /\ lock' = NoName
      BY <1>1, <1>4, OperationOf, IdleGoes, IdleProceeds DEF Becomes, Takes
    <2> QED  BY <1>1, <1>4, <2>1, AppendKeeps
  <1> QED  BY <1>2, <1>3, <1>4 DEF Crash

-----------------------------------------------------------------------------
(* The invariant, and what follows from it *)

LEMMA InitHolds == Init => IInv
  <1> SUFFICES ASSUME Init PROVE IInv
    OBVIOUS
  <1>1. /\ study = [s \in Studies |-> Unregistered] /\ uses = {} /\ length = 0 /\ torn = FALSE
        /\ lock = NoName /\ op = [p \in Procs |-> Idle] /\ sessions = {} /\ approvals = {}
        /\ freezes = {} /\ reads = [s \in Studies |-> 0]
    BY DEF Init, RegistryInit
  <1>2. Unregistered \in StudyStates
    BY DEF Unregistered, StudyStates, Phases
  <1>3. /\ Unregistered.state = "unregistered" /\ Unregistered.reveal = "none"
        /\ Len(Unregistered.attempts) = 0
    BY DEF Unregistered
  <1>4. \A p \in Procs : op[p] = Idle
    BY <1>1
  <1>5. /\ Idle \in Operations /\ OperationSound(Idle) /\ Idle.step = "idle"
        /\ Idle.event.type = "study_registered" /\ ~OwnsRun(Idle) /\ ~OwnsReveal(Idle)
    BY IdleGoes DEF Idle, NoEvent, OwnsRun, OwnsReveal
  <1>6. TypeOK
    BY <1>1, <1>2, <1>5 DEF TypeOK
  <1>7. OperationsSound
    BY <1>4, <1>5 DEF OperationsSound
  <1>8. LockSound
    BY <1>1, <1>4, <1>5, ExecutionAssumption DEF LockSound
  <1>9. OwnersSound
    BY <1>4, <1>5 DEF OwnersSound
  <1>10. WorkIsBacked
    BY <1>4, <1>5 DEF WorkIsBacked, Works, Development, Evaluation
  <1>11. UsesSound
    BY <1>1, <1>3, <1>4, <1>5 DEF UsesSound
  <1>12. BudgetSound
    BY <1>1, <1>3, <1>4, <1>5, RegistryAssumption DEF BudgetSound, BudgetHolds
  <1> QED  BY <1>6, <1>7, <1>8, <1>9, <1>10, <1>11, <1>12 DEF IInv

LEMMA StutterKeeps == ASSUME IInv, UNCHANGED vars PROVE IInv'
  <1> USE DEF vars
  <1>1. TypeOK' /\ OperationsSound'
    BY DEF IInv, TypeOK, OperationsSound, OperationSound
  <1>2. LockSound'
    <2>1. \A q \in Procs : Accepts(op[q].event)' <=> Accepts(op[q].event)
      BY AcceptsUnchanged
    <2> QED  BY <2>1 DEF IInv, LockSound
  <1>3. OwnersSound' /\ WorkIsBacked'
    BY DEF IInv, OwnersSound, OwnsRun, OwnsReveal, WorkIsBacked, Works
  <1>4. UsesSound' /\ BudgetSound'
    BY DEF IInv, UsesSound, BudgetSound, BudgetHolds
  <1> QED  BY <1>1, <1>2, <1>3, <1>4 DEF IInv

LEMMA StepKeeps == IInv /\ [Next]_vars => IInv'
  <1> SUFFICES ASSUME IInv, [Next]_vars PROVE IInv'
    OBVIOUS
  <1>1. CASE UNCHANGED vars
    BY <1>1, StutterKeeps
  <1>2. ASSUME NEW p \in Procs, Begins(p) PROVE IInv'
    BY <1>2, BeginsKeeps
  <1>3. ASSUME NEW p \in Procs, Mutation(p) PROVE IInv'
    BY <1>3, ReadHeadKeeps, TakeKeeps, RefuseKeeps, AppendedKeeps, AppendFailsKeeps
    DEF Mutation
  <1>4. ASSUME NEW p \in Procs, Work(p) PROVE IInv'
    BY <1>4, RunDirectoryKeeps, RunModelKeeps, VerifyKeeps, RecoverKeeps, RecordKeeps,
       MakeRootKeeps, PipelineKeeps, OpenKeeps DEF Work
  <1>5. ASSUME NEW p \in Procs, Crash(p) PROVE IInv'
    BY <1>5, CrashKeeps
  <1> QED  BY <1>1, <1>2, <1>3, <1>4, <1>5 DEF Next

\* The invariant holds in every reachable state: who appends holds the lock and
\* appends what was accepted; who started a run or reserved a reveal is alone in
\* it; uses on record do not overlap (ResearchRegistryLedger._mutate).
THEOREM Invariance == Spec => []IInv
  BY InitHolds, StepKeeps, PTL DEF Spec

\* Every variable keeps its type, whatever the processes, studies, holdouts,
\* budget and faults: no command reaches a step with an event that is not one
\* of its own contract.
THEOREM TypeCorrect == Spec => []TypeOK
  <1>1. IInv => TypeOK
    BY DEF IInv
  <1> QED  BY <1>1, Invariance, PTL

\* No interleaving of commands, crash or failed append makes a study exceed its
\* budget, and no session runs without an attempt (reserve_proposal_attempt).
THEOREM BudgetIsKept == Spec => []BudgetHolds
  <1>1. IInv => BudgetHolds
    BY DEF IInv, BudgetSound
  <1> QED  BY <1>1, Invariance, PTL

\* A pipeline only works for the started run, or the reserved reveal, that the
\* registry has of its study, and never beside another of the same study
\* (start_development_run, reserve_holdout_reveal).
THEOREM PipelinesAreBacked == Spec => []WorkIsBacked
  <1>1. IInv => WorkIsBacked
    BY DEF IInv
  <1> QED  BY <1>1, Invariance, PTL

\* Reserved data is opened at most once per study, only after its use is on
\* record, and recorded uses never overlap, for any overlap relation that is
\* reflexive and symmetric (reserve_frozen_holdout, HoldoutUseIndex).
THEOREM HoldoutsAreUsedOnce == Spec => []HoldoutsUsedOnce
  <1>1. IInv => HoldoutsUsedOnce
    BY DEF IInv, UsesSound, HoldoutsUsedOnce
  <1> QED  BY <1>1, Invariance, PTL

-----------------------------------------------------------------------------
(* What a study rests on: past each of its phases the evidence that phase asked
   for is there and stays; an approval or a freeze on disk is one the registry
   knows of; and the commands, seen through the phases, the uses and the opened
   holdouts, are the abstract life of a study. The invariant, on top of IInv: *)

Passed(d, n) == n \in DOMAIN d.attempts /\ d.attempts[n] = Attempt("proposal", "passed")

Outstanding(d) == {n \in DOMAIN d.attempts : d.attempts[n].outcome = "reserved"}

\* Of the record of one study: StudiesRestOnEvidence without the reads.
Evidence(d) ==
    /\ d.state \in {"development_locked", "candidate_frozen", "holdout_revealed"} =>
           Passed(d, d.approved)
    /\ d.state \in {"candidate_frozen", "holdout_revealed"} => d.run = "completed"
    /\ d.state = "holdout_revealed" => d.reveal = "revealed"
    /\ d.state \notin {"unregistered", "development_open"} => Outstanding(d) = {}
    /\ d.state = "closed" => d.run # "started" /\ d.reveal # "reserved"

StudiesSound ==
    \A s \in Studies : /\ Evidence(study[s])
                       /\ study[s].state = "holdout_revealed" => reads[s] = 1

\* What is to be approved has passed, from when the command looked at it; what
\* is to be written to disk is in the registry.
CommandSound(o) ==
    /\ o.event.type = "development_execution_approved" =>
           Passed(study[o.event.study], o.event.n)
    /\ o.step = "record" /\ o.cmd = "approve" => study[o.event.study].approved # 0
    /\ o.step = "record" /\ o.cmd = "freeze" => study[o.event.study].holdout # NoName

CommandsSound == \A p \in Procs : CommandSound(op[p])

\* The transition that approves asks for a verdict, not for a proposal: that the
\* approved attempt is one, and that an approval on disk has its event, is known
\* of the command between its steps.
RestInv == IInv /\ StudiesSound /\ CommandsSound /\ RecordsFollowEvents

-----------------------------------------------------------------------------
(* What one more event changes of the attempts *)

\* f is d with an attempt more, or one of its attempts as the event has it.
FoldsAttempts(d, e) ==
    LET f == Folded(d, e)
    IN  /\ f.approved = IF e.type = "development_execution_approved" THEN e.n ELSE d.approved
        /\ e.type = "proposal_attempt_reserved" =>
               \A n \in DOMAIN d.attempts : f.attempts[n] = d.attempts[n]
        /\ e.type = "proposal_attempt_completed" =>
               /\ DOMAIN f.attempts = DOMAIN d.attempts
               /\ \A n \in DOMAIN d.attempts : n # e.n => f.attempts[n] = d.attempts[n]
        /\ e.type = "proposal_verified" =>
               /\ DOMAIN f.attempts = DOMAIN d.attempts
               /\ \A n \in DOMAIN d.attempts :
                     /\ n # e.n => f.attempts[n] = d.attempts[n]
                     /\ f.attempts[n].outcome = d.attempts[n].outcome
        /\ e.type \notin {"proposal_attempt_reserved", "proposal_attempt_completed",
                          "proposal_verified"} => f.attempts = d.attempts

LEMMA AttemptFields ==
    ASSUME NEW a, NEW b
    PROVE  Attempt(a, b).outcome = a /\ Attempt(a, b).verdict = b
  BY DEF Attempt

LEMMA AttemptAppended ==
    ASSUME NEW a \in Seq(Attempts), NEW v \in Attempts
    PROVE  \A n \in DOMAIN a : Append(a, v)[n] = a[n]
  OBVIOUS

LEMMA FoldAttempts ==
    ASSUME NEW d \in StudyStates, NEW e \in Events, Completes(d, e),
           e.type # "external_holdout_registered"
    PROVE  FoldsAttempts(d, e)
  <1>1. /\ e.type \in EventTypes /\ e.n \in Nat /\ d.attempts \in Seq(Attempts)
    BY DEF Events, StudyStates
  <1>2. CASE e.type = "proposal_attempt_reserved"
    <2> DEFINE a == Append(d.attempts, Attempt("reserved", "none"))
    <2>1. Attempt("reserved", "none") \in Attempts
      BY DEF Attempt, Attempts
    <2>2. \A n \in DOMAIN d.attempts : a[n] = d.attempts[n]
      BY <1>1, <2>1, AttemptAppended
    <2>3. Folded(d, e) = [d EXCEPT !.attempts = a]
      BY <1>2 DEF Folded, StudyStates
    <2> HIDE DEF a
    <2>4. Folded(d, e).attempts = a /\ Folded(d, e).approved = d.approved
      BY <2>3 DEF StudyStates
    <2> QED  BY <1>2, <2>2, <2>4 DEF FoldsAttempts
  <1>3. CASE e.type = "proposal_attempt_completed"
    <2> DEFINE a == [d.attempts EXCEPT ![e.n] = Attempt(e.outcome, "none")]
    <2>1. DOMAIN a = DOMAIN d.attempts
          /\ \A n \in DOMAIN d.attempts : n # e.n => a[n] = d.attempts[n]
      OBVIOUS
    <2>2. Folded(d, e) = [d EXCEPT !.attempts = a]
      BY <1>3 DEF Folded, StudyStates
    <2> HIDE DEF a
    <2>3. Folded(d, e).attempts = a /\ Folded(d, e).approved = d.approved
      BY <2>2 DEF StudyStates
    <2> QED  BY <1>3, <2>1, <2>3 DEF FoldsAttempts
  <1>4. CASE e.type = "proposal_verified"
    <2> DEFINE v == Attempt(d.attempts[e.n].outcome, e.verdict)
               a == [d.attempts EXCEPT ![e.n] = v]
    <2>0. v.outcome = d.attempts[e.n].outcome
      BY AttemptFields
    <2> HIDE DEF v
    <2>1. DOMAIN a = DOMAIN d.attempts
          /\ \A n \in DOMAIN d.attempts : /\ n # e.n => a[n] = d.attempts[n]
                                          /\ a[n].outcome = d.attempts[n].outcome
      BY <2>0
    <2>2. Folded(d, e) = [d EXCEPT !.attempts = a]
      BY <1>4 DEF Folded, StudyStates, v
    <2> HIDE DEF a
    <2>3. Folded(d, e).attempts = a /\ Folded(d, e).approved = d.approved
      BY <2>2 DEF StudyStates
    <2> QED  BY <1>4, <2>1, <2>3 DEF FoldsAttempts
  <1>5. CASE e.type = "development_execution_approved"
    <2>1. Folded(d, e) = [d EXCEPT !.state = "development_locked", !.approved = e.n]
      BY <1>5 DEF Folded
    <2>2. Folded(d, e).attempts = d.attempts /\ Folded(d, e).approved = e.n
      BY <2>1 DEF StudyStates
    <2> QED  BY <1>5, <2>2 DEF FoldsAttempts
  <1>6. CASE e.type = "study_registered"
    BY <1>6 DEF FoldsAttempts, Folded, StudyStates
  <1>7. CASE e.type = "development_run_started"
    BY <1>7 DEF FoldsAttempts, Folded, StudyStates
  <1>8. CASE e.type = "development_run_failed"
    BY <1>8 DEF FoldsAttempts, Folded, StudyStates
  <1>9. CASE e.type = "development_run_completed"
    BY <1>9 DEF FoldsAttempts, Folded, StudyStates
  <1>10. CASE e.type = "candidate_frozen"
    BY <1>10 DEF FoldsAttempts, Folded, StudyStates
  <1>11. CASE e.type = "holdout_reveal_reserved"
    BY <1>11 DEF FoldsAttempts, Folded, StudyStates
  <1>12. CASE e.type = "holdout_reveal_failed"
    BY <1>12 DEF FoldsAttempts, Folded, StudyStates
  <1>13. CASE e.type = "holdout_revealed"
    BY <1>13 DEF FoldsAttempts, Folded, StudyStates
  <1>14. CASE e.type = "study_closed"
    BY <1>14 DEF FoldsAttempts, Folded, StudyStates
  <1> QED
    BY <1>1, <1>2, <1>3, <1>4, <1>5, <1>6, <1>7, <1>8, <1>9, <1>10,
       <1>11, <1>12, <1>13, <1>14 DEF EventTypes

\* What Accepts asks of the attempts of the study.
AskedOfAttempts(d, e) ==
    /\ e.type = "proposal_attempt_completed" => e.n \in Outstanding(d)
    /\ e.type = "proposal_verified" =>
           e.n \in DOMAIN d.attempts /\ d.attempts[e.n].verdict = "none"
    /\ e.type \in {"development_execution_approved", "study_closed"} => Outstanding(d) = {}
    /\ e.type = "development_execution_approved" => e.n \in DOMAIN d.attempts

LEMMA AcceptsAskedOfAttempts ==
    ASSUME NEW e, Accepts(e) PROVE AskedOfAttempts(study[e.study], e)
  BY DEF Accepts, AskedOfAttempts, Outstanding, Transition, FoldAccepts, RegisterStudy,
         CloseStudy, ReserveProposalAttempt, CompleteProposalAttempt,
         RecordProposalVerification, ApproveDevelopmentExecution, StartDevelopmentRun,
         FailDevelopmentRun, CompleteDevelopmentRun, FreezeCandidate,
         RegisterExternalHoldout, ReserveHoldoutReveal, FailHoldoutReveal,
         CompleteHoldoutReveal, Reserved

\* An attempt that passed has nothing more to be told of it.
LEMMA PassedStays ==
    ASSUME NEW d \in StudyStates, NEW e, Asked(d, e), AskedOfAttempts(d, e),
           FoldsTo(d, e), FoldsAttempts(d, e), NEW n, Passed(d, n)
    PROVE  Passed(Folded(d, e), n)
  <1>1. n \in DOMAIN d.attempts /\ d.attempts[n] = Attempt("proposal", "passed")
        /\ d.attempts[n].outcome = "proposal" /\ d.attempts[n].verdict = "passed"
    BY AttemptFields DEF Passed
  <1>2. n \in DOMAIN Folded(d, e).attempts
    BY <1>1 DEF FoldsTo
  <1>3. Folded(d, e).attempts[n] = d.attempts[n]
    <2>1. e.type = "proposal_attempt_completed" => n # e.n
      BY <1>1 DEF AskedOfAttempts, Outstanding
    <2>2. e.type = "proposal_verified" => n # e.n
      BY <1>1 DEF AskedOfAttempts
    <2> QED  BY <1>1, <2>1, <2>2 DEF FoldsAttempts
  <1> QED  BY <1>1, <1>2, <1>3 DEF Passed

\* Past its open phase no attempt of a study is reserved, by what may follow.
LEMMA NothingOutstanding ==
    ASSUME NEW d \in StudyStates, NEW e, Asked(d, e), AskedOfAttempts(d, e),
           FoldsTo(d, e), FoldsAttempts(d, e), Evidence(d),
           Folded(d, e).state \notin {"unregistered", "development_open"}
    PROVE  Outstanding(Folded(d, e)) = {}
  <1>1. CASE e.type = "proposal_verified"
    <2>1. d.state \notin {"unregistered", "development_open"}
      BY <1>1 DEF FoldsTo
    <2>2. Outstanding(Folded(d, e)) = Outstanding(d)
      BY <1>1 DEF FoldsAttempts, Outstanding
    <2> QED  BY <2>1, <2>2 DEF Evidence
  <1>2. CASE e.type \in {"proposal_attempt_reserved", "proposal_attempt_completed"}
    BY <1>2 DEF Asked, FoldsTo
  <1>3. CASE e.type \notin {"proposal_verified", "proposal_attempt_reserved",
                            "proposal_attempt_completed"}
    <2>1. Outstanding(Folded(d, e)) = Outstanding(d)
      BY <1>3 DEF FoldsAttempts, Outstanding
    <2>2. Outstanding(d) = {}
      <3>1. CASE e.type \in {"development_execution_approved", "study_closed"}
        BY <3>1 DEF AskedOfAttempts
      <3>2. CASE e.type \notin {"development_execution_approved", "study_closed"}
        <4>1. d.state \notin {"unregistered", "development_open"}
          BY <1>3, <3>2 DEF Asked, FoldsTo
        <4> QED  BY <4>1 DEF Evidence
      <3> QED  BY <3>1, <3>2
    <2> QED  BY <2>1, <2>2
  <1> QED  BY <1>1, <1>2, <1>3

LEMMA EvidenceStays ==
    ASSUME NEW d \in StudyStates, NEW e, Asked(d, e), AskedOfAttempts(d, e),
           FoldsTo(d, e), FoldsAttempts(d, e), Evidence(d),
           e.type = "development_execution_approved" => Passed(d, e.n)
    PROVE  Evidence(Folded(d, e))
  <1> DEFINE f == Folded(d, e)
  <1>1. ASSUME f.state \in {"development_locked", "candidate_frozen", "holdout_revealed"}
        PROVE  Passed(f, f.approved)
    <2>1. CASE e.type = "development_execution_approved"
      BY <2>1, PassedStays DEF FoldsAttempts
    <2>2. CASE e.type # "development_execution_approved"
      <3>1. d.state \in {"development_locked", "candidate_frozen", "holdout_revealed"}
        BY <1>1, <2>2 DEF Asked, FoldsTo
      <3>2. Passed(d, d.approved) /\ f.approved = d.approved
        BY <2>2, <3>1 DEF Evidence, FoldsAttempts
      <3> QED  BY <3>2, PassedStays
    <2> QED  BY <2>1, <2>2
  <1>2. f.state \in {"candidate_frozen", "holdout_revealed"} => f.run = "completed"
    BY DEF Asked, FoldsTo, Evidence
  <1>3. f.state = "holdout_revealed" => f.reveal = "revealed"
    BY DEF Asked, FoldsTo, Evidence
  <1>4. f.state \notin {"unregistered", "development_open"} => Outstanding(f) = {}
    BY NothingOutstanding
  <1>5. f.state = "closed" => f.run # "started" /\ f.reveal # "reserved"
    BY DEF Asked, FoldsTo, Evidence
  <1> QED  BY <1>1, <1>2, <1>3, <1>4, <1>5 DEF Evidence

-----------------------------------------------------------------------------
(* What a step is: of its process, and of what is on record *)

\* o has nothing to approve but what b had, and nothing to write to disk but what
\* b appended.
Pursues(b, o) ==
    /\ o.event.type = "development_execution_approved" =>
           b.event.type = "development_execution_approved" /\ Same(b, o)
    /\ o.step = "record" =>
           b.step = "append" /\ Same(b, o) /\ <<o.cmd, b.event.type>> \in Pairs

LEMMA IdlePursues == ASSUME NEW b PROVE Pursues(b, Idle) /\ Idle.step # "record"
  BY DEF Pursues, Idle, NoEvent

LEMMA FailingType ==
    ASSUME NEW b \in Operations
    PROVE  Failing(b).type # "development_execution_approved"
  <1>1. Failing(b).type \in {"development_run_failed", "holdout_reveal_failed",
                             "proposal_attempt_completed"}
    BY DEF Failing, Operations, Events
  <1> QED  BY <1>1

LEMMA RaisedPursues ==
    ASSUME NEW b \in Operations, b.step # "record"
    PROVE  Pursues(b, Raised(b)) /\ Raised(b).step # "record"
  <1>1. CASE b.handler \/ b.event.type \notin Tried
    BY <1>1, IdlePursues DEF Raised
  <1>2. CASE ~b.handler /\ b.event.type \in Tried /\ b.cmd = "reveal"
    <2>1. Raised(b).step = "head" /\ Raised(b).event = Failing(b)
      BY <1>2 DEF Raised, Operations
    <2> QED  BY <2>1, FailingType DEF Pursues
  <1>3. CASE ~b.handler /\ b.event.type \in Tried /\ b.cmd # "reveal"
    <2>1. Raised(b).step = "recover" /\ Raised(b).event = b.event
      BY <1>3 DEF Raised, Operations
    <2> QED  BY <1>3, <2>1 DEF Pursues, Tried
  <1> QED  BY <1>1, <1>2, <1>3

\* A process that goes on to another step with the same event, or to append one.
LEMMA GoesPursues ==
    ASSUME NEW b \in Operations, NEW step \in Steps \ {"record"}
    PROVE  Pursues(b, [b EXCEPT !.step = step]) /\ [b EXCEPT !.step = step].step # "record"
  <1> DEFINE o == [b EXCEPT !.step = step]
  <1>1. o.step = step /\ o.event = b.event
    BY DEF Operations
  <1> HIDE DEF o
  <1>2. Pursues(b, o)
    BY <1>1 DEF Pursues, Same
  <1> QED  BY <1>1, <1>2 DEF o

LEMMA MutatesPursues ==
    ASSUME NEW b \in Operations, NEW e, e.type # "development_execution_approved"
    PROVE  /\ Pursues(b, [b EXCEPT !.step = "head", !.event = e])
           /\ [b EXCEPT !.step = "head", !.event = e].step # "record"
  BY DEF Pursues, Operations

LEMMA AfterPursues ==
    ASSUME NEW b \in Operations, OperationSound(b), b.step = "append"
    PROVE  Pursues(b, After(b))
  <1> DEFINE o == After(b)
  <1>0. <<b.cmd, b.event.type>> \in Pairs
    BY DEF OperationSound
  <1>1. CASE o = [b EXCEPT !.step = "verify"]
    BY <1>1, GoesPursues DEF Steps
  <1>2. CASE o = [b EXCEPT !.step = "record"]
    <2>1. o.step = "record" /\ o.event = b.event /\ o.cmd = b.cmd
      BY <1>2 DEF Operations
    <2> HIDE DEF o
    <2> QED  BY <1>0, <2>1 DEF Pursues, Same, o
  <1>3. CASE o = [b EXCEPT !.step = "mkdir"]
    BY <1>3, GoesPursues DEF Steps
  <1>4. CASE o = [b EXCEPT !.step = "holdout", !.event.type = "holdout_revealed"]
    <2>1. o.step = "holdout" /\ o.event.type = "holdout_revealed"
      BY <1>4 DEF Operations, Events
    <2> QED  BY <2>1 DEF Pursues
  <1>5. CASE o = Idle
    BY <1>5, IdlePursues
  <1> QED  BY <1>1, <1>2, <1>3, <1>4, <1>5 DEF After

\* Process p goes to some operation o, which its own step allows; to one that
\* writes to disk, with the append of what is written.
Pursuing(p) ==
    \E o : /\ Becomes(p, o) /\ Pursues(op[p], o)
           /\ o.step = "record" => AppendEvent(op[p].event)

LEMMA MutationPursues == ASSUME IInv, NEW p \in Procs, Mutation(p) PROVE Pursuing(p)
  <1> DEFINE b == op[p]
  <1>1. b \in Operations /\ OperationSound(b)
    BY OperationOf
  <1>2. ASSUME Raise(p), b.step # "record" PROVE Pursuing(p)
    BY <1>1, <1>2, RaisedPursues DEF Raise, Pursuing
  <1>3. CASE ReadHead(p)
    <2>1. CASE Becomes(p, [b EXCEPT !.step = "transition", !.head = length])
      <3> DEFINE o == [b EXCEPT !.step = "transition", !.head = length]
      <3>1. o.step = "transition" /\ o.event = b.event
        BY <1>1 DEF Operations
      <3> HIDE DEF o
      <3>2. Pursues(b, o)
        BY <3>1 DEF Pursues, Same
      <3> QED  BY <2>1, <3>1, <3>2 DEF Pursuing, o
    <2> QED  BY <1>2, <1>3, <2>1 DEF ReadHead
  <1>4. CASE TakeTransition(p)
    <2> DEFINE m == IF b.event.type = "development_run_started"
                    THEN study[b.event.study].runs + 1 ELSE b.event.n
               o == [b EXCEPT !.step = "append", !.head = 0, !.event.n = m]
    <2>1. Becomes(p, o)
      BY <1>4 DEF TakeTransition
    <2>2. b.event.type # "development_run_started" => m = b.event.n
      OBVIOUS
    <2> HIDE DEF m
    <2>3. /\ o.step = "append" /\ o.event.type = b.event.type
          /\ o.event.study = b.event.study /\ o.event.holdout = b.event.holdout
          /\ o.event.n = m
      BY <1>1 DEF Operations, Events
    <2> HIDE DEF o
    <2>4. Pursues(b, o)
      BY <2>2, <2>3 DEF Pursues, Same
    <2> QED  BY <2>1, <2>3, <2>4 DEF Pursuing
  <1>5. CASE RefuseTransition(p)
    BY <1>2, <1>5 DEF RefuseTransition
  <1>6. CASE Appended(p)
    BY <1>1, <1>6, AfterPursues DEF Appended, Pursuing
  <1>7. CASE AppendFails(p)
    BY <1>2, <1>7 DEF AppendFails
  <1> QED  BY <1>3, <1>4, <1>5, <1>6, <1>7 DEF Mutation

LEMMA WorkPursues == ASSUME IInv, NEW p \in Procs, Work(p) PROVE Pursuing(p)
  <1> DEFINE b == op[p]
  <1>1. b \in Operations /\ OperationSound(b)
    BY OperationOf
  <1>2. ASSUME Raise(p), b.step # "record" PROVE Pursuing(p)
    BY <1>1, <1>2, RaisedPursues DEF Raise, Pursuing
  <1>3. ASSUME Becomes(p, Idle) PROVE Pursuing(p)
    BY <1>3, IdlePursues DEF Pursuing
  <1>4. ASSUME NEW e, Mutates(p, e), e.type # "development_execution_approved"
        PROVE  Pursuing(p)
    <2> DEFINE o == [b EXCEPT !.step = "head", !.event = e]
    <2>1. Becomes(p, o)
      BY <1>4 DEF Mutates
    <2>2. Pursues(b, o) /\ o.step # "record"
      BY <1>1, <1>4, MutatesPursues
    <2> HIDE DEF o
    <2> QED  BY <2>1, <2>2 DEF Pursuing
  <1>5. ASSUME NEW step \in Steps \ {"record"}, Goes(p, step) PROVE Pursuing(p)
    BY <1>1, <1>5, GoesPursues DEF Goes, Pursuing
  <1>6. CASE MakeRunDirectory(p)
    BY <1>3, <1>5, <1>6 DEF MakeRunDirectory, Steps
  <1>7. CASE RunModel(p)
    <2>1. ASSUME NEW out \in Outcomes
          PROVE  [b.event EXCEPT !.outcome = out].type = "proposal_attempt_completed"
      BY <1>1, <1>7 DEF RunModel, OperationSound, Operations, Events
    <2>2. ASSUME NEW out \in Outcomes, Mutates(p, [b.event EXCEPT !.outcome = out])
          PROVE  Pursuing(p)
      BY <1>4, <2>1, <2>2
    <2> QED  BY <1>2, <1>7, <2>2 DEF RunModel
  <1>8. CASE VerifyTerminal(p)
    <2>1. ASSUME NEW v \in Verdicts
          PROVE  [b.event EXCEPT !.type = "proposal_verified", !.verdict = v].type
                     = "proposal_verified"
      BY <1>1 DEF Operations, Events
    <2>2. ASSUME NEW v \in Verdicts,
                 Mutates(p, [b.event EXCEPT !.type = "proposal_verified", !.verdict = v])
          PROVE  Pursuing(p)
      BY <1>4, <2>1, <2>2
    <2> QED  BY <1>2, <1>8, <2>2 DEF VerifyTerminal
  <1>9. CASE Recover(p)
    BY <1>1, <1>3, <1>4, <1>9, FailingType DEF Recover
  <1>10. CASE WriteRecord(p)
    BY <1>3, <1>10 DEF WriteRecord
  <1>11. CASE MakeDevelopmentRoot(p)
    <2>1. CASE Becomes(p, [b EXCEPT !.step = "pipeline",
                                    !.event.type = "development_run_completed"])
      <3> DEFINE o == [b EXCEPT !.step = "pipeline", !.event.type = "development_run_completed"]
      <3>1. o.step = "pipeline" /\ o.event.type = "development_run_completed"
        BY <1>1 DEF Operations, Events
      <3>2. Pursues(b, o)
        BY <3>1 DEF Pursues
      <3> QED  BY <2>1, <3>1, <3>2 DEF Pursuing
    <2>2. CASE Becomes(p, [b EXCEPT !.step = "head", !.event = Failing(b), !.handler = TRUE])
      <3> DEFINE o == [b EXCEPT !.step = "head", !.event = Failing(b), !.handler = TRUE]
      <3>1. o.step = "head" /\ o.event = Failing(b)
        BY <1>1 DEF Operations
      <3>2. Pursues(b, o)
        BY <1>1, <3>1, FailingType DEF Pursues
      <3> QED  BY <2>2, <3>1, <3>2 DEF Pursuing
    <2> QED  BY <1>11, <2>1, <2>2 DEF MakeDevelopmentRoot
  <1>12. CASE RunPipeline(p)
    BY <1>1, <1>2, <1>4, <1>12 DEF RunPipeline, OperationSound
  <1>13. CASE OpenHoldout(p)
    BY <1>2, <1>5, <1>13 DEF OpenHoldout, Steps
  <1>14. CASE EvaluateHoldout(p)
    BY <1>1, <1>2, <1>4, <1>14 DEF EvaluateHoldout, OperationSound, Evaluation
  <1> QED
    BY <1>6, <1>7, <1>8, <1>9, <1>10, <1>11, <1>12, <1>13, <1>14 DEF Work

\* What a step does to what is on record: nothing, or one of four things.
Appends(p) == op[p].step = "append" /\ AppendEvent(op[p].event)
Opens(p) == op[p].step = "holdout" /\ reads' = [reads EXCEPT ![op[p].event.study] = @ + 1]
WritesApproval(p) ==
    /\ op[p].step = "record" /\ op[p].cmd = "approve"
    /\ approvals' = approvals \cup {op[p].event.study}
WritesFreeze(p) ==
    /\ op[p].step = "record" /\ op[p].cmd = "freeze"
    /\ freezes' = freezes \cup {op[p].event.study}

\* At most one of them.
StepOf(p) ==
    /\ \/ UNCHANGED <<study, uses>>
       \/ Appends(p) /\ UNCHANGED <<reads, approvals, freezes>>
    /\ UNCHANGED reads \/ Opens(p)
    /\ UNCHANGED approvals \/ WritesApproval(p)
    /\ UNCHANGED freezes \/ WritesFreeze(p)

LEMMA StepRecords ==
    ASSUME NEW p \in Procs, Begins(p) \/ Mutation(p) \/ Work(p) \/ Crash(p)
    PROVE  StepOf(p)
  <1> USE DEF registryVars, artifacts
  <1>1. CASE Begins(p)
    BY <1>1 DEF Begins, StepOf
  <1>2. CASE Mutation(p)
    <2>1. CASE ReadHead(p) \/ TakeTransition(p) \/ RefuseTransition(p)
      BY <2>1 DEF ReadHead, TakeTransition, RefuseTransition, StepOf
    <2>2. CASE Appended(p) \/ AppendFails(p)
      BY <2>2 DEF Appended, AppendFails, StepOf, Appends
    <2> QED  BY <1>2, <2>1, <2>2 DEF Mutation
  <1>3. CASE Work(p)
    <2>1. CASE WriteRecord(p)
      <3>1. UNCHANGED <<study, uses, reads>> /\ op[p].step = "record"
        BY <2>1 DEF WriteRecord
      <3>2. /\ UNCHANGED approvals \/ WritesApproval(p)
            /\ UNCHANGED freezes \/ WritesFreeze(p)
        BY <2>1 DEF WriteRecord, WritesApproval, WritesFreeze
      <3> QED  BY <3>1, <3>2 DEF StepOf
    <2>2. CASE OpenHoldout(p)
      <3>1. UNCHANGED <<study, uses, approvals, freezes>>
        BY <2>2 DEF OpenHoldout
      <3>2. UNCHANGED reads \/ Opens(p)
        BY <2>2 DEF OpenHoldout, Opens
      <3> QED  BY <3>1, <3>2 DEF StepOf
    <2>3. CASE MakeRunDirectory(p) \/ RunModel(p) \/ VerifyTerminal(p) \/ Recover(p)
      BY <2>3 DEF MakeRunDirectory, RunModel, VerifyTerminal, Recover, StepOf
    <2>4. CASE MakeDevelopmentRoot(p) \/ RunPipeline(p) \/ EvaluateHoldout(p)
      BY <2>4 DEF MakeDevelopmentRoot, RunPipeline, EvaluateHoldout, StepOf
    <2> QED  BY <1>3, <2>1, <2>2, <2>3, <2>4 DEF Work
  <1>4. CASE Crash(p)
    BY <1>4 DEF Crash, StepOf, Appends
  <1> QED  BY <1>1, <1>2, <1>3, <1>4

-----------------------------------------------------------------------------
(* What is on record stays *)

LEMMA CommandStudy ==
    ASSUME IInv, NEW q \in Procs,
           \/ op[q].event.type = "development_execution_approved"
           \/ op[q].step = "record"
    PROVE  op[q].event.study \in Studies
  <1>1. op[q] \in Operations /\ OperationSound(op[q]) /\ op[q].step # "idle"
    BY OperationOf DEF OperationSound, Idle, NoEvent
  <1>2. op[q].cmd # "external"
    BY <1>1 DEF OperationSound, Pairs
  <1> QED  BY <1>1, <1>2 DEF OperationSound, Operations, Events

LEMMA NumbersArePositive ==
    ASSUME NEW d \in StudyStates PROVE 0 \notin DOMAIN d.attempts
  BY DEF StudyStates

\* An event that is appended takes back nothing of its study.
LEMMA AppendSettles ==
    ASSUME IInv, NEW p \in Procs, CommandSound(op[p]), Appends(p), NEW s \in Studies
    PROVE  /\ study[s].approved # 0 => study'[s].approved # 0
           /\ study[s].holdout # NoName => study'[s].holdout # NoName
           /\ \A n : Passed(study[s], n) => Passed(study'[s], n)
           /\ Evidence(study[s]) => Evidence(study'[s])
           /\ study'[s].state = "holdout_revealed" =>
                  \/ study[s].state = "holdout_revealed"
                  \/ op[p].event.type = "holdout_revealed" /\ op[p].event.study = s
  <1> DEFINE e == op[p].event
             d == study[s]
  <1>1. CASE study'[s] = study[s]
    BY <1>1
  <1>2. CASE /\ s = e.study /\ e.type # "external_holdout_registered"
             /\ Asked(d, e) /\ FoldsTo(d, e) /\ study'[s] = Folded(d, e)
    <2>1. d \in StudyStates /\ e \in Events /\ OperationSound(op[p]) /\ Accepts(e)
          /\ op[p].step = "append"
      BY OperationOf DEF IInv, TypeOK, LockSound, Operations, Appends
    <2>2. AskedOfAttempts(d, e)
      BY <1>2, <2>1, AcceptsAskedOfAttempts
    <2>3. Completes(d, e)
      BY <1>2, <2>1 DEF Completes, Asked, OperationSound
    <2>4. FoldsAttempts(d, e)
      BY <1>2, <2>1, <2>3, FoldAttempts
    <2>5. e.type = "development_execution_approved" => Passed(d, e.n) /\ e.n # 0
      BY <1>2, <2>1, NumbersArePositive DEF CommandSound, Passed
    <2>6. d.approved # 0 => study'[s].approved # 0
      BY <1>2, <2>4, <2>5 DEF FoldsAttempts
    <2>7. d.holdout # NoName => study'[s].holdout # NoName
      BY <1>2, <2>1, RegistryAssumption DEF FoldsTo, OperationSound
    <2>8. \A n : Passed(d, n) => Passed(study'[s], n)
      BY <1>2, <2>1, <2>2, <2>4, PassedStays
    <2>9. Evidence(d) => Evidence(study'[s])
      BY <1>2, <2>1, <2>2, <2>4, <2>5, EvidenceStays
    <2>10. study'[s].state = "holdout_revealed" =>
               d.state = "holdout_revealed" \/ e.type = "holdout_revealed"
      BY <1>2 DEF FoldsTo
    <2> QED  BY <1>2, <2>6, <2>7, <2>8, <2>9, <2>10
  <1> QED  BY <1>1, <1>2, Appending DEF Appends

\* What process p has by the event it appended, to write it to disk.
LEMMA AppendRecords ==
    ASSUME IInv, NEW p \in Procs, CommandSound(op[p]), Appends(p)
    PROVE  LET e == op[p].event
           IN  /\ e.type = "development_execution_approved" => study'[e.study].approved # 0
               /\ e.type = "candidate_frozen" => study'[e.study].holdout # NoName
  <1> DEFINE e == op[p].event
             d == study[e.study]
  <1>1. CASE e.type = "external_holdout_registered"
    BY <1>1
  <1>2. CASE /\ e.study \in Studies /\ e.type # "external_holdout_registered"
             /\ Asked(d, e) /\ FoldsTo(d, e) /\ study'[e.study] = Folded(d, e)
    <2>1. d \in StudyStates /\ e \in Events /\ OperationSound(op[p]) /\ op[p].step = "append"
      BY <1>2, OperationOf DEF IInv, TypeOK, Operations, Appends
    <2>2. Completes(d, e)
      BY <1>2, <2>1 DEF Completes, Asked, OperationSound
    <2>3. FoldsAttempts(d, e)
      BY <1>2, <2>1, <2>2, FoldAttempts
    <2>4. e.type = "development_execution_approved" => e.n # 0
      BY <2>1, NumbersArePositive DEF CommandSound, Passed
    <2>5. e.type = "candidate_frozen" => e.holdout # NoName
      BY <2>1, RegistryAssumption DEF OperationSound
    <2> QED  BY <1>2, <2>3, <2>4, <2>5 DEF FoldsTo, FoldsAttempts
  <1> QED  BY <1>1, <1>2, Appending DEF Appends

-----------------------------------------------------------------------------
(* The invariant is one *)

\* The commands of the other processes, when one appends.
LEMMA OthersSound ==
    ASSUME RestInv, NEW p \in Procs, StepOf(p), NEW q \in Procs, op'[q] = op[q]
    PROVE  CommandSound(op[q])'
  <1>1. IInv /\ CommandSound(op[p]) /\ CommandSound(op[q])
    BY DEF RestInv, CommandsSound
  <1>2. CASE study' = study
    BY <1>1, <1>2 DEF CommandSound
  <1>3. CASE Appends(p)
    <2> DEFINE s == op[q].event.study
               n == op[q].event.n
    <2>1. CASE s \in Studies
      <3>1. /\ study[s].approved # 0 => study'[s].approved # 0
            /\ study[s].holdout # NoName => study'[s].holdout # NoName
            /\ Passed(study[s], n) => Passed(study'[s], n)
        BY <1>1, <1>3, <2>1, AppendSettles
      <3> QED  BY <1>1, <3>1 DEF CommandSound
    <2>2. CASE s \notin Studies
      <3>1. op[q].event.type # "development_execution_approved" /\ op[q].step # "record"
        BY <1>1, <2>2, CommandStudy
      <3> QED  BY <3>1 DEF CommandSound
    <2> QED  BY <2>1, <2>2
  <1> QED  BY <1>2, <1>3 DEF StepOf

\* The command of the process that goes on.
LEMMA OneSound ==
    ASSUME RestInv, NEW p \in Procs, StepOf(p), Pursuing(p)
    PROVE  CommandSound(op[p])'
  <1>1. IInv /\ CommandSound(op[p])
    BY DEF RestInv, CommandsSound
  <1>2. PICK o : /\ Becomes(p, o) /\ Pursues(op[p], o)
                 /\ o.step = "record" => AppendEvent(op[p].event)
    BY DEF Pursuing
  <1>3. op'[p] = o
    BY <1>1, <1>2 DEF Becomes, IInv, TypeOK
  <1>4. ASSUME o.event.type = "development_execution_approved"
        PROVE  Passed(study'[o.event.study], o.event.n)
    <2>1. /\ op[p].event.type = "development_execution_approved"
          /\ o.event.study = op[p].event.study /\ o.event.n = op[p].event.n
      BY <1>2, <1>4 DEF Pursues, Same
    <2>2. op[p].event.study \in Studies /\ Passed(study[op[p].event.study], op[p].event.n)
      BY <1>1, <2>1, CommandStudy DEF CommandSound
    <2>3. CASE study' = study
      BY <2>1, <2>2, <2>3
    <2>4. CASE Appends(p)
      BY <1>1, <2>1, <2>2, <2>4, AppendSettles
    <2> QED  BY <2>3, <2>4 DEF StepOf
  <1>5. ASSUME o.step = "record"
        PROVE  /\ o.cmd = "approve" => study'[o.event.study].approved # 0
               /\ o.cmd = "freeze" => study'[o.event.study].holdout # NoName
    <2>1. /\ Appends(p) /\ o.event.study = op[p].event.study
          /\ <<o.cmd, op[p].event.type>> \in Pairs
      BY <1>2, <1>5 DEF Pursues, Same, Appends
    <2>2. /\ o.cmd = "approve" => op[p].event.type = "development_execution_approved"
          /\ o.cmd = "freeze" => op[p].event.type = "candidate_frozen"
      BY <2>1 DEF Pairs
    <2> QED  BY <1>1, <2>1, <2>2, AppendRecords
  <1> QED  BY <1>3, <1>4, <1>5 DEF CommandSound

\* A command that begins has looked at the attempt it is to approve.
LEMMA BeginsPursue ==
    ASSUME IInv, NEW p \in Procs, Begins(p)
    PROVE  \E o : /\ Becomes(p, o) /\ o.step # "record"
                  /\ o.event.type = "development_execution_approved" =>
                         Passed(study[o.event.study], o.event.n)
  <1> DEFINE Fits(o) == /\ Becomes(p, o) /\ o.step # "record"
                        /\ o.event.type = "development_execution_approved" =>
                               Passed(study[o.event.study], o.event.n)
  <1>1. ASSUME NEW c, NEW e, e.type = "development_execution_approved" => Passed(study[e.study], e.n),
               Begin(p, [Command(c, e) EXCEPT !.step = "head"])
        PROVE  \E o : Fits(o)
    <2> DEFINE o == [Command(c, e) EXCEPT !.step = "head"]
    <2>1. o.step = "head" /\ o.event = e /\ Becomes(p, o)
      BY <1>1 DEF Command, Idle, Begin
    <2> HIDE DEF o
    <2>2. Fits(o)
      BY <1>1, <2>1
    <2> QED  BY <2>2
  <1>2. ASSUME NEW s \in Studies, CreateStudy(p, s) \/ ReserveAttempt(p, s) \/ Close(p, s)
                                  \/ RunDevelopment(p, s)
        PROVE  \E o : Fits(o)
    <2>1. ASSUME NEW c, NEW t \in EventTypes \ {"development_execution_approved"},
                 Begin(p, [Command(c, Event(t, s)) EXCEPT !.step = "head"])
          PROVE  \E o : Fits(o)
      <3>1. Event(t, s).type = t
        BY EventIs
      <3> QED  BY <1>1, <2>1, <3>1
    <2> HIDE DEF Fits
    <2> QED  BY <1>2, <2>1 DEF CreateStudy, ReserveAttempt, Close, RunDevelopment, EventTypes
  <1>3. ASSUME NEW h \in Holdouts, RegisterExternal(p, h) PROVE \E o : Fits(o)
    <2> DEFINE e == [Event("external_holdout_registered", NoName) EXCEPT !.holdout = h]
    <2>1. e \in Events /\ e.type = "external_holdout_registered"
      BY EventOfHoldout DEF EventTypes
    <2>2. Begin(p, [Command("external", e) EXCEPT !.step = "head"])
      BY <1>3 DEF RegisterExternal
    <2> HIDE DEF e
    <2> QED  BY <1>1, <2>1, <2>2
  <1>4. ASSUME NEW s \in Studies, NEW n \in 1..Budget, Approve(p, s, n) PROVE \E o : Fits(o)
    <2> DEFINE e == [Event("development_execution_approved", s) EXCEPT !.n = n]
    <2>1. e \in Events /\ e.study = s /\ e.n = n
      BY EventNumbered DEF EventTypes
    <2>2. /\ Begin(p, [Command("approve", e) EXCEPT !.step = "head"])
          /\ Passed(study[s], n)
      BY <1>4 DEF Approve, Passed
    <2> HIDE DEF e
    <2> QED  BY <1>1, <2>1, <2>2
  <1>5. ASSUME NEW s \in Studies, NEW h \in Holdouts, Freeze(p, s, h) PROVE \E o : Fits(o)
    <2> DEFINE e == [Event("candidate_frozen", s) EXCEPT !.holdout = h]
    <2>1. e \in Events /\ e.type = "candidate_frozen"
      BY EventOfHoldout DEF EventTypes
    <2>2. Begin(p, [Command("freeze", e) EXCEPT !.step = "head"])
      BY <1>5 DEF Freeze
    <2> HIDE DEF e
    <2> QED  BY <1>1, <2>1, <2>2
  <1>6. ASSUME NEW s \in Studies, Reveal(p, s) PROVE \E o : Fits(o)
    <2> DEFINE h == study[s].holdout
               e == [Event("holdout_reveal_reserved", s) EXCEPT !.holdout = h]
    <2>1. h \in Holdouts \cup {NoName}
      BY DEF IInv, TypeOK, StudyStates
    <2>2. e \in Events /\ e.type = "holdout_reveal_reserved"
      BY <2>1, EventOfHoldout DEF EventTypes
    <2>3. Begin(p, [Command("reveal", e) EXCEPT !.step = "head"])
      BY <1>6 DEF Reveal
    <2> HIDE DEF e
    <2> QED  BY <1>1, <2>2, <2>3
  <1>7. ASSUME NEW s \in Studies, NEW n \in 1..Budget, NEW c \in Sessions, Propose(p, s, n, c)
        PROVE  \E o : Fits(o)
    <2> DEFINE e == [Event("proposal_attempt_completed", s) EXCEPT !.n = n]
               o == [Command("propose", e) EXCEPT !.step = "rundir", !.session = c]
    <2>1. e \in Events /\ e.type = "proposal_attempt_completed"
      BY EventNumbered DEF EventTypes
    <2>2. Becomes(p, o)
      BY <1>7 DEF Propose, Begin
    <2> HIDE DEF e
    <2>3. o.event = e /\ o.step = "rundir"
      BY DEF Command, Idle
    <2> HIDE DEF o
    <2>4. Fits(o)
      BY <2>1, <2>2, <2>3
    <2> QED  BY <2>4
  <1> QED  BY <1>2, <1>3, <1>4, <1>5, <1>6, <1>7 DEF Begins

LEMMA BegunSound ==
    ASSUME RestInv, NEW p \in Procs, Begins(p)
    PROVE  CommandSound(op[p])'
  <1>1. IInv /\ study' = study
    BY DEF RestInv, Begins, registryVars
  <1>2. PICK o : /\ Becomes(p, o) /\ o.step # "record"
                 /\ o.event.type = "development_execution_approved" =>
                        Passed(study[o.event.study], o.event.n)
    BY <1>1, BeginsPursue
  <1>3. op'[p] = o
    BY <1>1, <1>2 DEF Becomes, IInv, TypeOK
  <1> QED  BY <1>1, <1>2, <1>3 DEF CommandSound

LEMMA StudiesKept ==
    ASSUME RestInv, NEW p \in Procs, StepOf(p) PROVE StudiesSound'
  <1>1. IInv /\ CommandSound(op[p])
    BY DEF RestInv, CommandsSound
  <1>2. SUFFICES ASSUME NEW s \in Studies
                 PROVE  /\ Evidence(study'[s])
                        /\ study'[s].state = "holdout_revealed" => reads'[s] = 1
    BY DEF StudiesSound, Evidence, Passed, Outstanding
  <1>3. /\ Evidence(study[s]) /\ (study[s].state = "holdout_revealed" => reads[s] = 1)
    BY DEF RestInv, StudiesSound
  <1>4. CASE study' = study
    <2>1. CASE reads' = reads
      BY <1>3, <1>4, <2>1
    <2>2. CASE Opens(p)
      <3>1. study[op[p].event.study].state = "candidate_frozen"
        BY <1>1, <2>2 DEF IInv, WorkIsBacked, Works, Evaluation, Opens
      <3>2. study[s].state = "holdout_revealed" => s # op[p].event.study
        BY <3>1
      <3>3. study[s].state = "holdout_revealed" => reads'[s] = reads[s]
        BY <1>1, <2>2, <3>2 DEF Opens, IInv, TypeOK
      <3> QED  BY <1>3, <1>4, <3>3
    <2> QED  BY <2>1, <2>2 DEF StepOf
  <1>5. CASE Appends(p) /\ UNCHANGED reads
    <2>1. /\ Evidence(study'[s])
          /\ study'[s].state = "holdout_revealed" =>
                 \/ study[s].state = "holdout_revealed"
                 \/ op[p].event.type = "holdout_revealed" /\ op[p].event.study = s
      BY <1>1, <1>3, <1>5, AppendSettles
    <2>2. op[p].event.type = "holdout_revealed" => reads[op[p].event.study] = 1
      BY <1>1, <1>5 DEF IInv, UsesSound, Appends
    <2> QED  BY <1>3, <1>5, <2>1, <2>2
  <1> QED  BY <1>4, <1>5 DEF StepOf

LEMMA RecordsKept ==
    ASSUME RestInv, NEW p \in Procs, StepOf(p) PROVE RecordsFollowEvents'
  <1>1. /\ IInv /\ CommandSound(op[p]) /\ RecordsFollowEvents
        /\ approvals \subseteq Studies /\ freezes \subseteq Studies
    BY DEF RestInv, CommandsSound, IInv, TypeOK
  <1>2. CASE study' = study
    <2>1. \A s \in approvals' : study[s].approved # 0
      BY <1>1 DEF StepOf, WritesApproval, CommandSound, RecordsFollowEvents
    <2>2. \A s \in freezes' : study[s].holdout # NoName
      BY <1>1 DEF StepOf, WritesFreeze, CommandSound, RecordsFollowEvents
    <2> QED  BY <1>2, <2>1, <2>2 DEF RecordsFollowEvents
  <1>3. CASE Appends(p) /\ UNCHANGED <<approvals, freezes>>
    BY <1>1, <1>3, AppendSettles DEF RecordsFollowEvents
  <1> QED  BY <1>2, <1>3 DEF StepOf

LEMMA RestStep == RestInv /\ [Next]_vars => RestInv'
  <1> SUFFICES ASSUME RestInv, [Next]_vars PROVE RestInv'
    OBVIOUS
  <1>1. IInv'
    BY StepKeeps DEF RestInv
  <1>2. CASE UNCHANGED vars
    BY <1>1, <1>2 DEF RestInv, StudiesSound, CommandsSound, CommandSound, RecordsFollowEvents, vars
  <1>3. CASE Next
    <2>1. PICK p \in Procs : Begins(p) \/ Mutation(p) \/ Work(p) \/ Crash(p)
      BY <1>3 DEF Next
    <2>2. StepOf(p) /\ IInv
      BY <2>1, StepRecords DEF RestInv
    <2>3. StudiesSound' /\ RecordsFollowEvents'
      BY <2>2, StudiesKept, RecordsKept
    <2>4. CommandSound(op[p])'
      <3>1. CASE Begins(p)
        BY <3>1, BegunSound
      <3>2. CASE Crash(p)
        <4>1. Pursuing(p)
          BY <3>2, IdlePursues DEF Crash, Pursuing
        <4> QED  BY <2>2, <4>1, OneSound
      <3>3. CASE Mutation(p) \/ Work(p)
        BY <2>2, <3>3, MutationPursues, WorkPursues, OneSound
      <3> QED  BY <2>1, <3>1, <3>2, <3>3
    <2>5. \A q \in Procs : q # p => op'[q] = op[q]
      <3>1. \E o : Becomes(p, o)
        <4>1. CASE Begins(p)
          BY <2>2, <4>1, BeginsPursue
        <4>2. CASE Crash(p)
          BY <4>2 DEF Crash
        <4>3. CASE Mutation(p) \/ Work(p)
          BY <2>2, <4>3, MutationPursues, WorkPursues DEF Pursuing
        <4> QED  BY <2>1, <4>1, <4>2, <4>3
      <3> QED  BY <2>2, <3>1 DEF Becomes, IInv, TypeOK
    <2>6. ASSUME NEW q \in Procs PROVE CommandSound(op[q])'
      BY <2>2, <2>4, <2>5, OthersSound
    <2>7. CommandsSound'
      BY <2>6 DEF CommandsSound
    <2> QED  BY <1>1, <2>3, <2>7 DEF RestInv
  <1> QED  BY <1>2, <1>3

LEMMA RestInit == Init => RestInv
  <1> SUFFICES ASSUME Init PROVE RestInv
    OBVIOUS
  <1>1. IInv
    BY InitHolds
  <1>2. \A s \in Studies : study[s] = Unregistered
    BY DEF Init, RegistryInit
  <1>3. Unregistered.state = "unregistered"
    BY DEF Unregistered
  <1>4. StudiesSound
    BY <1>2, <1>3 DEF StudiesSound, Evidence
  <1>5. CommandsSound
    BY DEF Init, CommandsSound, CommandSound, Idle, NoEvent
  <1>6. RecordsFollowEvents
    BY DEF Init, RecordsFollowEvents
  <1> QED  BY <1>1, <1>4, <1>5, <1>6 DEF RestInv

\* In every reachable state each study has the evidence its phase asked for, and
\* every command between its look at the registry and its write to disk has the
\* event behind it (ResearchRegistryLedger._fold, approve_development_execution).
THEOREM RestInvariance == Spec => []RestInv
  BY RestInit, RestStep, PTL DEF Spec

\* Whatever commands race, fail or crash: past development a study has one
\* approved attempt, a proposal that passed, and none outstanding; past the
\* freeze a completed run; revealed, a holdout that was opened; closed, nothing
\* that still runs (approve_development_execution, freeze_candidate, close_study).
THEOREM StudiesRest == Spec => []StudiesRestOnEvidence
  <1>1. RestInv => StudiesRestOnEvidence
    BY DEF RestInv, StudiesSound, Evidence, Passed, Outstanding, Reserved,
           StudiesRestOnEvidence
  <1> QED  BY <1>1, RestInvariance, PTL

\* No crash, failed append or interleaving leaves an approval or a freeze on disk
\* that the registry does not know of (approve_development_execution,
\* freeze_candidate).
THEOREM RecordsAreBacked == Spec => []RecordsFollowEvents
  <1>1. RestInv => RecordsFollowEvents
    BY DEF RestInv
  <1> QED  BY <1>1, RestInvariance, PTL

-----------------------------------------------------------------------------
(* The commands implement the life of a study *)

PhaseOf == [s \in Studies |-> study[s].state]
OpenedStudies == {s \in Studies : reads[s] > 0}

\* What an append is to the reader of a study.
LEMMA AppendImplements ==
    ASSUME IInv, NEW p \in Procs, Appends(p), UNCHANGED reads
    PROVE  [Lifecycle!Next]_(Lifecycle!vars)
  <1> DEFINE e == op[p].event
             d == study[e.study]
  <1>1. OpenedStudies' = OpenedStudies
    BY DEF OpenedStudies
  <1>2. uses' = IF e.type \in UseTypes
                THEN uses \cup {[holdout |-> e.holdout, study |-> e.study]} ELSE uses
    BY DEF Appends, AppendEvent
  <1>3. e.type \in UseTypes =>
            e.holdout \in Holdouts /\ ~\E u \in uses : <<u.holdout, e.holdout>> \in Overlap
    BY Appending DEF Appends, Overlapping
  <1>4. CASE e.study = NoName /\ e.type = "external_holdout_registered" /\ study' = study
    <2>1. PhaseOf' = PhaseOf
      BY <1>4 DEF PhaseOf
    <2>2. PICK h : h = e.holdout
      OBVIOUS
    <2>3. Lifecycle!Use(h, NoName)
      BY <1>1, <1>2, <1>3, <1>4, <2>1, <2>2
      DEF Lifecycle!Use, UseTypes, PhaseOf, OpenedStudies
    <2> QED  BY <1>3, <1>4, <2>2, <2>3 DEF Lifecycle!Next, UseTypes
  <1>5. CASE /\ e.study \in Studies /\ e.type # "external_holdout_registered"
             /\ Asked(d, e) /\ FoldsTo(d, e) /\ study'[e.study] = Folded(d, e)
             /\ \A s \in Studies : s # e.study => study'[s] = study[s]
    <2>1. PICK s \in Studies : s = e.study
      BY <1>5
    <2>2. s # NoName
      BY RegistryAssumption
    <2>3. PhaseOf' = [PhaseOf EXCEPT ![s] = study'[s].state]
      BY <1>5, <2>1 DEF PhaseOf
    <2>4. PhaseOf[s] = study[s].state
      BY DEF PhaseOf
    <2>5. CASE e.type = "study_registered"
      <3>1. study[s].state = "unregistered" /\ study'[s].state = "development_open"
            /\ uses' = uses
        BY <1>2, <1>5, <2>1, <2>5 DEF Asked, FoldsTo, UseTypes
      <3>2. Lifecycle!Advance(s)
        BY <1>1, <2>3, <2>4, <3>1
        DEF Lifecycle!Advance, Lifecycle!Forward, PhaseOf, OpenedStudies
      <3> QED  BY <3>2 DEF Lifecycle!Next
    <2>6. CASE e.type = "development_execution_approved"
      <3>1. study[s].state = "development_open" /\ study'[s].state = "development_locked"
            /\ uses' = uses
        BY <1>2, <1>5, <2>1, <2>6 DEF Asked, FoldsTo, UseTypes
      <3>2. Lifecycle!Advance(s)
        BY <1>1, <2>3, <2>4, <3>1
        DEF Lifecycle!Advance, Lifecycle!Forward, PhaseOf, OpenedStudies
      <3> QED  BY <3>2 DEF Lifecycle!Next
    <2>7. CASE e.type = "candidate_frozen"
      <3>1. study[s].state = "development_locked" /\ study'[s].state = "candidate_frozen"
            /\ uses' = uses
        BY <1>2, <1>5, <2>1, <2>7 DEF Asked, FoldsTo, UseTypes
      <3>2. Lifecycle!Advance(s)
        BY <1>1, <2>3, <2>4, <3>1
        DEF Lifecycle!Advance, Lifecycle!Forward, PhaseOf, OpenedStudies
      <3> QED  BY <3>2 DEF Lifecycle!Next
    <2>8. CASE e.type = "study_closed"
      <3>1. study[s].state \notin {"unregistered", "closed"} /\ study'[s].state = "closed"
            /\ uses' = uses
        <4>1. Accepts(e)
          BY DEF IInv, LockSound, Appends
        <4>2. study[s].state # "closed"
          BY <2>1, <2>8, <4>1
          DEF Accepts, Transition, RegisterStudy, CloseStudy, ReserveProposalAttempt,
              CompleteProposalAttempt, RecordProposalVerification,
              ApproveDevelopmentExecution, StartDevelopmentRun, FailDevelopmentRun,
              CompleteDevelopmentRun, FreezeCandidate, RegisterExternalHoldout,
              ReserveHoldoutReveal, FailHoldoutReveal, CompleteHoldoutReveal
        <4> QED  BY <1>2, <1>5, <2>1, <2>8, <4>2 DEF Asked, FoldsTo, UseTypes
      <3>2. Lifecycle!Close(s)
        BY <1>1, <2>3, <2>4, <3>1 DEF Lifecycle!Close, PhaseOf, OpenedStudies
      <3> QED  BY <3>2 DEF Lifecycle!Next
    <2>9. CASE e.type = "holdout_reveal_reserved"
      <3>1. PICK h : h = e.holdout
        OBVIOUS
      <3>2. /\ study[s].state = "candidate_frozen" /\ study[s].reveal = "none"
            /\ study'[s].state = study[s].state
            /\ uses' = uses \cup {[holdout |-> h, study |-> s]}
        BY <1>2, <1>5, <2>1, <2>9, <3>1 DEF Asked, FoldsTo, UseTypes
      <3>3. ~\E u \in uses : u.study = s
        BY <2>2, <3>2 DEF IInv, UsesSound
      <3>4. PhaseOf' = PhaseOf
        BY <2>3, <2>4, <3>2 DEF PhaseOf
      <3>5. h \in Holdouts /\ ~\E u \in uses : <<u.holdout, h>> \in Overlap
        BY <1>3, <2>9, <3>1 DEF UseTypes
      <3>6. Lifecycle!Use(h, s)
        BY <1>1, <2>4, <3>2, <3>3, <3>4, <3>5 DEF Lifecycle!Use, PhaseOf, OpenedStudies
      <3> QED  BY <3>5, <3>6 DEF Lifecycle!Next
    <2>10. CASE e.type = "holdout_revealed"
      <3>1. study[s].state = "candidate_frozen" /\ study'[s].state = "holdout_revealed"
            /\ uses' = uses
        BY <1>2, <1>5, <2>1, <2>10 DEF Asked, FoldsTo, UseTypes
      <3>2. reads[s] = 1
        BY <2>1, <2>10 DEF IInv, UsesSound, Appends
      <3>3. s \in OpenedStudies
        BY <3>2 DEF OpenedStudies
      <3>4. Lifecycle!RevealResult(s)
        BY <1>1, <2>3, <2>4, <3>1, <3>3 DEF Lifecycle!RevealResult, PhaseOf, OpenedStudies
      <3> QED  BY <3>4 DEF Lifecycle!Next
    <2>11. CASE e.type \notin {"study_registered", "development_execution_approved",
                               "candidate_frozen", "study_closed", "holdout_reveal_reserved",
                               "holdout_revealed"}
      <3>1. study'[s].state = study[s].state /\ uses' = uses
        BY <1>2, <1>5, <2>1, <2>11 DEF FoldsTo, UseTypes
      <3>2. PhaseOf' = PhaseOf
        BY <2>3, <2>4, <3>1 DEF PhaseOf
      <3> QED  BY <1>1, <3>1, <3>2 DEF Lifecycle!vars, PhaseOf, OpenedStudies
    <2> QED  BY <2>5, <2>6, <2>7, <2>8, <2>9, <2>10, <2>11
  <1> QED  BY <1>4, <1>5, Appending DEF Appends

\* Opening the holdout of a study is the one step that is not an append.
LEMMA OpenImplements ==
    ASSUME IInv, NEW p \in Procs, Opens(p), UNCHANGED <<study, uses>>
    PROVE  [Lifecycle!Next]_(Lifecycle!vars)
  <1>1. op[p].event.type = "holdout_revealed"
    BY OperationOf DEF Opens, OperationSound, Evaluation
  <1>2. op[p].event.study \in Studies
    BY <1>1, OwnerStudy DEF OwnsReveal
  <1>3. PICK s \in Studies : s = op[p].event.study
    BY <1>2
  <1>4. study[s].state = "candidate_frozen" /\ study[s].reveal = "reserved" /\ reads[s] = 0
    BY <1>1, <1>3 DEF IInv, WorkIsBacked, Works, Evaluation, UsesSound, Opens
  <1>5. \E u \in uses : u.study = s
    BY <1>4 DEF IInv, UsesSound
  <1>6. reads \in [Studies -> Nat] /\ reads' = [reads EXCEPT ![s] = reads[s] + 1]
    BY <1>3 DEF IInv, TypeOK, Opens
  <1>7. OpenedStudies' = OpenedStudies \cup {s} /\ s \notin OpenedStudies
    BY <1>4, <1>6 DEF OpenedStudies
  <1>8. Lifecycle!Open(s)
    BY <1>4, <1>5, <1>7 DEF Lifecycle!Open, OpenedStudies
  <1> QED  BY <1>8 DEF Lifecycle!Next

\* Every step is one of the abstract life of a study, or none.
LEMMA StepImplements == IInv /\ [Next]_vars => [Lifecycle!Next]_(Lifecycle!vars)
  <1> SUFFICES ASSUME IInv, [Next]_vars PROVE [Lifecycle!Next]_(Lifecycle!vars)
    OBVIOUS
  <1>1. CASE UNCHANGED <<study, uses, reads>>
    BY <1>1 DEF Lifecycle!vars
  <1>2. CASE UNCHANGED vars
    BY <1>1, <1>2 DEF vars
  <1>3. CASE Next
    <2>1. PICK p \in Procs : Begins(p) \/ Mutation(p) \/ Work(p) \/ Crash(p)
      BY <1>3 DEF Next
    <2>2. StepOf(p)
      BY <2>1, StepRecords
    <2>3. CASE Appends(p) /\ UNCHANGED reads
      BY <2>3, AppendImplements
    <2>4. CASE Opens(p) /\ UNCHANGED <<study, uses>>
      BY <2>4, OpenImplements
    <2> QED  BY <1>1, <2>2, <2>3, <2>4 DEF StepOf
  <1> QED  BY <1>2, <1>3

LEMMA InitImplements == Init => Lifecycle!Init
  <1> SUFFICES ASSUME Init PROVE Lifecycle!Init
    OBVIOUS
  <1>1. \A s \in Studies : study[s].state = "unregistered" /\ reads[s] = 0
    BY DEF Init, RegistryInit, Unregistered
  <1>2. uses = {}
    BY DEF Init, RegistryInit
  <1> QED  BY <1>1, <1>2 DEF Lifecycle!Init

\* To who reads the registry and the access log, the commands are the life of a
\* study, whatever the processes, studies, holdouts and faults: forward one phase
\* at a time, closed from any, a holdout used up before it is opened, opened once,
\* and never used, nor what overlaps it, by another (ResearchRegistryLedger._mutate,
\* reserve_frozen_holdout, HoldoutUseIndex).
THEOREM ImplementsLifecycle == Spec => FollowsLifecycle
  BY InitImplements, StepImplements, Invariance, PTL DEF Spec, FollowsLifecycle, Lifecycle!Spec

=============================================================================
