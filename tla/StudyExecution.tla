--------------------------- MODULE StudyExecution ---------------------------
(***************************************************************************)
(* The commands of a study: agent-study create, reserve-attempt, close,    *)
(* approve-development, run-development, freeze-candidate, reveal-holdout  *)
(* and register-external-holdout, and nlp-trader-agent propose. They are   *)
(* processes over one registry and one artifact root.                      *)
(*                                                                         *)
(* A mutation of the registry takes its lock twice: once to read the head, *)
(* once to replay, check that the head is still that one and append. Each  *)
(* of the three, every write of an artifact and every piece of work        *)
(* between them is a step, and a process may crash at any.                 *)
(***************************************************************************)
EXTENDS StudyRegistry, FiniteSets

CONSTANTS
    Procs,       \* processes that run commands
    Sessions,    \* a view bundle and an agent config; with them, a run directory
    Commands,    \* the commands they run
    Faults,      \* what goes wrong: subset of AllFaults
    MaxRuns      \* bound: development runs started of a study

AllCommands == {"create", "reserve", "propose", "close", "approve", "run", "freeze",
                "reveal", "external"}
AllFaults == {"crash", "unwritten", "torn", "unsynced", "artifact"}

ASSUME ExecutionAssumption ==
    /\ Commands \subseteq AllCommands /\ Faults \subseteq AllFaults /\ MaxRuns \in Nat
    /\ NoName \notin Procs \cup Sessions

VARIABLES
    lock,        \* holder of research_events.jsonl.lock while it appends
    op,          \* op[p]: the command process p is in the middle of
    sessions,    \* run directories of proposal attempts
    approvals,   \* studies with an approvals/<id>.json
    freezes,     \* studies with a candidate/freeze.json
    reads        \* reads[s]: times the reserved data of s was opened

artifacts == <<sessions, approvals, freezes>>
vars == <<study, uses, length, torn, lock, op, sessions, approvals, freezes, reads>>

-----------------------------------------------------------------------------
(* Values *)

Steps == {"idle", "rundir", "mkdir", "model", "pipeline", "holdout", "evaluate", "verify",
          "recover", "head", "transition", "append", "record"}

\* event: the one under way, or the last; head: expected_head_hash, until it is
\* compared; handler: in the except clause of the command.
Operations == [cmd : Commands \cup {"none"}, step : Steps, event : Events, head : Nat,
               session : Sessions \cup {NoName}, handler : BOOLEAN]

SessionRuns == [study : Studies, n : Nat, session : Sessions]

NoEvent == [type |-> "study_registered", study |-> NoName, n |-> 0, outcome |-> "none",
            verdict |-> "none", holdout |-> NoName]
Idle == [cmd |-> "none", step |-> "idle", event |-> NoEvent, head |-> 0,
         session |-> NoName, handler |-> FALSE]

Init ==
    /\ RegistryInit /\ lock = NoName /\ op = [p \in Procs |-> Idle]
    /\ sessions = {} /\ approvals = {} /\ freezes = {} /\ reads = [s \in Studies |-> 0]

Event(type, s) == [NoEvent EXCEPT !.type = type, !.study = s]
Command(c, e) == [Idle EXCEPT !.cmd = c, !.event = e]

\* The registry can be replayed: nobody holds its lock, its last line is whole.
Readable == lock = NoName /\ ~torn

\* The steps that take the lock, for as long as it takes to read the file.
Locking == {"rundir", "recover", "head", "transition", "append"}

Becomes(p, o) == op' = [op EXCEPT ![p] = o]
Goes(p, step) == Becomes(p, [op[p] EXCEPT !.step = step])
\* The command goes on to append e.
Mutates(p, e) == Becomes(p, [op[p] EXCEPT !.step = "head", !.event = e])

-----------------------------------------------------------------------------
(* Commands begin *)

\* One step for what a command reads before it writes: the facts it reads do
\* not become false, but for the state of the study, which the transition
\* checks again under the lock.
Begin(p, o) == op[p].step = "idle" /\ o.cmd \in Commands /\ Becomes(p, o)

CreateStudy(p, s) ==
    Begin(p, [Command("create", Event("study_registered", s)) EXCEPT !.step = "head"])

ReserveAttempt(p, s) ==
    Begin(p, [Command("reserve", Event("proposal_attempt_reserved", s)) EXCEPT !.step = "head"])

Close(p, s) ==
    Begin(p, [Command("close", Event("study_closed", s)) EXCEPT !.step = "head"])

RegisterExternal(p, h) ==
    Begin(p, [Command("external", [Event("external_holdout_registered", NoName) EXCEPT
                                       !.holdout = h]) EXCEPT !.step = "head"])

\* _validate_inputs: the attempt is reserved.
Propose(p, s, n, c) ==
    /\ Readable /\ study[s].state = "development_open" /\ n \in Reserved(s)
    /\ Begin(p, [Command("propose", [Event("proposal_attempt_completed", s) EXCEPT !.n = n])
                     EXCEPT !.step = "rundir", !.session = c])

\* A proposal, completed and verified.
Approve(p, s, n) ==
    /\ Readable /\ n \in DOMAIN study[s].attempts
    /\ study[s].attempts[n] = Attempt("proposal", "passed")
    /\ Begin(p, [Command("approve", [Event("development_execution_approved", s) EXCEPT !.n = n])
                     EXCEPT !.step = "head"])

\* load_authoritative_development_approval: the event, and its file.
Approved(s) == Readable /\ study[s].state = "development_locked" /\ s \in approvals

RunDevelopment(p, s) ==
    /\ Approved(s) /\ study[s].runs < MaxRuns
    /\ Begin(p, [Command("run", Event("development_run_started", s)) EXCEPT !.step = "head"])

\* The holdout comes with the command: its universe is a parameter.
Freeze(p, s, h) ==
    /\ Approved(s) /\ study[s].run = "completed"
    /\ Begin(p, [Command("freeze", [Event("candidate_frozen", s) EXCEPT !.holdout = h])
                     EXCEPT !.step = "head"])

\* Mutant of Reveal: the holdout is opened first and reserved never.
RevealUnreserved(p, s) ==
    /\ Readable /\ s \in freezes
    /\ Begin(p, [Command("reveal", [Event("holdout_revealed", s) EXCEPT
                                        !.holdout = study[s].holdout]) EXCEPT !.step = "holdout"])

\* load_authoritative_candidate_freeze: the file, and its event.
Reveal(p, s) ==
    /\ Readable /\ s \in freezes
    /\ Begin(p, [Command("reveal", [Event("holdout_reveal_reserved", s) EXCEPT
                                        !.holdout = study[s].holdout]) EXCEPT !.step = "head"])

Begins(p) ==
    /\ \/ \E s \in Studies :
              \/ CreateStudy(p, s) \/ ReserveAttempt(p, s) \/ Close(p, s)
              \/ RunDevelopment(p, s) \/ Reveal(p, s)
              \/ \E n \in 1..Budget : Approve(p, s, n)
              \/ \E n \in 1..Budget, c \in Sessions : Propose(p, s, n, c)
              \/ \E h \in Holdouts : Freeze(p, s, h)
       \/ \E h \in Holdouts : RegisterExternal(p, h)
    /\ UNCHANGED <<registryVars, lock, artifacts, reads>>

-----------------------------------------------------------------------------
(* The registry's mutation *)

\* Mutant of Failing: the outcome is not one the contract of the event has.
FailingAborted(o) == [o.event EXCEPT !.type = "proposal_attempt_completed",
                                     !.outcome = "aborted", !.verdict = "none"]

Failing(o) == [o.event EXCEPT !.type = CASE o.cmd = "run" -> "development_run_failed"
                                         [] o.cmd = "reveal" -> "holdout_reveal_failed"
                                         [] OTHER -> "proposal_attempt_completed",
                              !.outcome = IF o.cmd = "propose" THEN "failed" ELSE "none",
                              !.verdict = "none"]

\* What the try block of a command appends.
Tried == {"proposal_attempt_completed", "proposal_verified", "development_run_completed",
          "holdout_revealed"}

\* An exception: out of the command, or to its except clause. Reveal records its
\* failure without a look at the registry; the others project it first.
Raised(o) ==
    IF o.handler \/ o.event.type \notin Tried THEN Idle
    ELSE [o EXCEPT !.handler = TRUE, !.head = 0,
                   !.step = IF o.cmd = "reveal" THEN "head" ELSE "recover",
                   !.event = IF o.cmd = "reveal" THEN Failing(o) ELSE @]

Raise(p) == Becomes(p, Raised(op[p]))

\* Another process may hold the lock, for an append or for a read.
Contended(p) == \E q \in Procs \ {p} : op[q].step \in Locking

ReadHead(p) ==
    /\ op[p].step = "head"
    /\ \/ Readable /\ Becomes(p, [op[p] EXCEPT !.step = "transition", !.head = length])
       \/ (torn \/ Contended(p)) /\ Raise(p)
    /\ UNCHANGED <<registryVars, lock, artifacts, reads>>

\* Mutant of TakeTransition: the lock is not held up to the append.
TakeTransitionUnlocked(p) ==
    /\ op[p].step = "transition" /\ Readable
    /\ op[p].head = length /\ Accepts(op[p].event)
    /\ Becomes(p, [op[p] EXCEPT !.step = "append", !.head = 0,
                     !.event.n = IF op[p].event.type = "development_run_started"
                                 THEN study[op[p].event.study].runs + 1 ELSE @])
    /\ UNCHANGED <<registryVars, lock, artifacts, reads>>

\* _mutate under the lock, up to the append. The number of a run is the next.
TakeTransition(p) ==
    /\ op[p].step = "transition" /\ Readable
    /\ op[p].head = length /\ Accepts(op[p].event)
    /\ lock' = p
    /\ Becomes(p, [op[p] EXCEPT !.step = "append", !.head = 0,
                     !.event.n = IF op[p].event.type = "development_run_started"
                                 THEN study[op[p].event.study].runs + 1 ELSE @])
    /\ UNCHANGED <<registryVars, artifacts, reads>>

\* _mutate raises. An event that regresses in time or does not satisfy its contract
\* ends in the same way and is not told apart.
RefuseTransition(p) ==
    /\ op[p].step = "transition"
    /\ \/ torn \/ Contended(p)
       \/ Readable /\ (op[p].head # length \/ ~Accepts(op[p].event))
    /\ Raise(p)
    /\ UNCHANGED <<registryVars, lock, artifacts, reads>>

\* Where a command goes on from when its event is in the registry.
After(o) ==
    CASE o.event.type = "proposal_attempt_completed" /\ o.event.outcome # "failed" ->
             [o EXCEPT !.step = "verify"]
      [] o.event.type \in {"development_execution_approved", "candidate_frozen"} ->
             [o EXCEPT !.step = "record"]
      [] o.event.type = "development_run_started" -> [o EXCEPT !.step = "mkdir"]
      [] o.event.type = "holdout_reveal_reserved" ->
             [o EXCEPT !.step = "holdout", !.event.type = "holdout_revealed"]
      [] OTHER -> Idle

Appended(p) ==
    /\ op[p].step = "append" /\ lock' = NoName
    /\ AppendEvent(op[p].event) /\ Becomes(p, After(op[p]))
    /\ UNCHANGED <<artifacts, reads>>

\* Mutant of AppendFails: the command does not hear of it.
AppendFailsSilently(p) ==
    /\ op[p].step = "append" /\ lock' = NoName /\ Becomes(p, After(op[p]))
    /\ UNCHANGED <<registryVars, artifacts, reads>>

\* append_bytes_durable fails: with nothing written, with some of the line, or
\* with all of it, in fsync.
AppendFails(p) ==
    /\ op[p].step = "append" /\ lock' = NoName /\ Raise(p)
    /\ \/ "unwritten" \in Faults /\ UNCHANGED registryVars
       \/ "torn" \in Faults /\ torn' = TRUE /\ UNCHANGED <<study, uses, length>>
       \/ "unsynced" \in Faults /\ AppendEvent(op[p].event)
    /\ UNCHANGED <<artifacts, reads>>

Mutation(p) ==
    ReadHead(p) \/ TakeTransition(p) \/ RefuseTransition(p) \/ Appended(p) \/ AppendFails(p)

-----------------------------------------------------------------------------
(* A proposal attempt: run_research_agent *)

\* Its directory is made exclusively, and then the head is read once more. What
\* precedes the loop is not guarded.
MakeRunDirectory(p) ==
    LET run == [study |-> op[p].event.study, n |-> op[p].event.n, session |-> op[p].session]
    IN  /\ op[p].step = "rundir"
        /\ \/ /\ run \notin sessions /\ sessions' = sessions \cup {run}
              /\ \/ Readable /\ Goes(p, "model")
                 \/ (torn \/ Contended(p)) /\ Becomes(p, Idle)
           \/ run \in sessions /\ UNCHANGED sessions /\ Becomes(p, Idle)
        /\ UNCHANGED <<registryVars, lock, approvals, freezes, reads>>

\* The loop ends in a terminal action or at a limit, or raises.
RunModel(p) ==
    /\ op[p].step = "model"
    /\ \/ \E out \in Outcomes : Mutates(p, [op[p].event EXCEPT !.outcome = out])
       \/ Raise(p)
    /\ UNCHANGED <<registryVars, lock, artifacts, reads>>

VerifyTerminal(p) ==
    /\ op[p].step = "verify"
    /\ \/ \E v \in Verdicts :
              Mutates(p, [op[p].event EXCEPT !.type = "proposal_verified", !.verdict = v])
       \/ "artifact" \in Faults /\ Raise(p)
    /\ UNCHANGED <<registryVars, lock, artifacts, reads>>

\* The except clause of run_research_agent, of run_approved_development.
Recover(p) ==
    /\ op[p].step = "recover"
    /\ \/ /\ Readable
          /\ IF op[p].cmd = "propose" /\ op[p].event.n \notin Reserved(op[p].event.study)
             THEN Becomes(p, Idle) ELSE Mutates(p, Failing(op[p]))
       \/ (torn \/ Contended(p)) /\ Becomes(p, Idle)
    /\ UNCHANGED <<registryVars, lock, artifacts, reads>>

-----------------------------------------------------------------------------
(* approve-development, freeze-candidate, run-development, reveal-holdout *)

\* The approval's file; the candidate's config and then its freeze.json.
WriteRecord(p) ==
    /\ op[p].step = "record" /\ Becomes(p, Idle)
    /\ \/ /\ op[p].cmd = "approve" /\ approvals' = approvals \cup {op[p].event.study}
          /\ UNCHANGED freezes
       \/ /\ op[p].cmd = "freeze" /\ freezes' = freezes \cup {op[p].event.study}
          /\ UNCHANGED approvals
       \/ "artifact" \in Faults /\ UNCHANGED <<approvals, freezes>>
    /\ UNCHANGED <<registryVars, lock, sessions, reads>>

MakeDevelopmentRoot(p) ==
    /\ op[p].step = "mkdir"
    /\ \/ Becomes(p, [op[p] EXCEPT !.step = "pipeline",
                                   !.event.type = "development_run_completed"])
       \/ /\ "artifact" \in Faults
          /\ Becomes(p, [op[p] EXCEPT !.step = "head", !.event = Failing(op[p]),
                                      !.handler = TRUE])
    /\ UNCHANGED <<registryVars, lock, artifacts, reads>>

RunPipeline(p) ==
    /\ op[p].step = "pipeline"
    /\ Mutates(p, op[p].event) \/ Raise(p)
    /\ UNCHANGED <<registryVars, lock, artifacts, reads>>

\* Up to create_run_context the reserved data is closed: what fails before it
\* fails a reveal whose holdout nobody read.
OpenHoldout(p) ==
    /\ op[p].step = "holdout"
    /\ \/ /\ reads' = [reads EXCEPT ![op[p].event.study] = @ + 1] /\ Goes(p, "evaluate")
       \/ Raise(p) /\ UNCHANGED reads
    /\ UNCHANGED <<registryVars, lock, artifacts>>

EvaluateHoldout(p) ==
    /\ op[p].step = "evaluate"
    /\ Mutates(p, op[p].event) \/ Raise(p)
    /\ UNCHANGED <<registryVars, lock, artifacts, reads>>

Work(p) ==
    \/ MakeRunDirectory(p) \/ RunModel(p) \/ VerifyTerminal(p) \/ Recover(p)
    \/ WriteRecord(p) \/ MakeDevelopmentRoot(p) \/ RunPipeline(p)
    \/ OpenHoldout(p) \/ EvaluateHoldout(p)

\* The lock goes with its process. What was being appended may be in the file,
\* in whole or in part.
Crash(p) ==
    /\ "crash" \in Faults /\ op[p].step # "idle" /\ Becomes(p, Idle)
    /\ lock' = IF lock = p THEN NoName ELSE lock
    /\ \/ UNCHANGED registryVars
       \/ op[p].step = "append" /\ AppendEvent(op[p].event)
       \/ /\ op[p].step = "append" /\ "torn" \in Faults
          /\ torn' = TRUE /\ UNCHANGED <<study, uses, length>>
    /\ UNCHANGED <<artifacts, reads>>

Next == \E p \in Procs : Begins(p) \/ Mutation(p) \/ Work(p) \/ Crash(p)

Spec == Init /\ [][Next]_vars

\* A command that runs goes on; nobody has to start one.
FairSpec == Spec /\ \A p \in Procs : WF_vars(Mutation(p) \/ Work(p))

-----------------------------------------------------------------------------
(* What must hold *)

TypeOK ==
    /\ study \in [Studies -> StudyStates] /\ uses \subseteq Uses
    /\ length \in Nat /\ torn \in BOOLEAN /\ lock \in Procs \cup {NoName}
    /\ op \in [Procs -> Operations] /\ sessions \subseteq SessionRuns
    /\ approvals \subseteq Studies /\ freezes \subseteq Studies
    /\ reads \in [Studies -> Nat]

\* A study has no more attempts than its budget whatever commands race for the
\* last slot, and every model session ran, or runs, on a slot that was paid for
\* (reserve_proposal_attempt, _validate_inputs).
BudgetHolds ==
    /\ \A s \in Studies : Len(study[s].attempts) <= Budget
    /\ \A r \in sessions : r.n \in DOMAIN study[r.study].attempts

\* What process p works at: the development run, or the reveal, of a study.
Works(p, kind) == op[p].step \in kind
Development == {"mkdir", "pipeline"}
Evaluation == {"holdout", "evaluate"}

\* A pipeline runs only while its study says so: development, for the started
\* run of a locked study; the holdout, for the reserved reveal of a frozen one.
\* A study has one of either at a time, and a command that closes or freezes it
\* meanwhile is refused (start_development_run, reserve_holdout_reveal).
WorkIsBacked ==
    /\ \A p \in Procs :
          LET s == study[op[p].event.study]
          IN  /\ Works(p, Development) =>
                     s.state = "development_locked" /\ s.run = "started"
                     /\ s.runs = op[p].event.n
              /\ Works(p, Evaluation) =>
                     s.state = "candidate_frozen" /\ s.reveal = "reserved"
                     /\ s.holdout = op[p].event.holdout
    /\ \A p, q \in Procs : \A kind \in {Development, Evaluation} :
          Works(p, kind) /\ Works(q, kind) /\ p # q =>
              op[p].event.study # op[q].event.study

\* The reserved data of a study is opened at most once, after its use is on
\* record, and no two uses on record overlap, external ones included: nothing
\* seen of a holdout is seen again (reserve_frozen_holdout, HoldoutUseIndex).
HoldoutsUsedOnce ==
    /\ \A s \in Studies : /\ reads[s] <= 1
                          /\ reads[s] = 1 => [holdout |-> study[s].holdout, study |-> s] \in uses
    /\ \A u, v \in uses : u # v => <<u.holdout, v.holdout>> \notin Overlap

\* What a study rests on stands: past development it has one approved attempt,
\* a proposal that passed, and none outstanding; past the freeze a completed
\* run; once closed, nothing that still runs or was left open.
StudiesRestOnEvidence ==
    \A s \in Studies :
        LET d == study[s] IN
        /\ d.state \in {"development_locked", "candidate_frozen", "holdout_revealed"} =>
               /\ d.approved \in DOMAIN d.attempts
               /\ d.attempts[d.approved] = Attempt("proposal", "passed")
        /\ d.state \in {"candidate_frozen", "holdout_revealed"} => d.run = "completed"
        /\ d.state = "holdout_revealed" => d.reveal = "revealed" /\ reads[s] = 1
        /\ d.state \notin {"unregistered", "development_open"} => Reserved(s) = {}
        /\ d.state = "closed" => d.run # "started" /\ d.reveal # "reserved"

\* The artifact that authorizes a command never precedes its event, so that no
\* crash leaves an approval or a freeze the registry does not know of
\* (approve_development_execution, freeze_candidate).
RecordsFollowEvents ==
    /\ \A s \in approvals : study[s].approved # 0
    /\ \A s \in freezes : study[s].holdout # NoName

-----------------------------------------------------------------------------
(* What the documents say *)

\* docs/research_protocol.md: "Negative results, abstentions, and
\* closed-without-reveal studies are complete outcomes and remain immutable."
ClosedStudiesStay ==
    [][\A s \in Studies : study[s].state = "closed" => study'[s] = study[s]]_vars

\* docs/data_contracts.md: "A reveal uses `holdout_reveal_reserved` before
\* reading reserved data and terminates in either `holdout_revealed` or
\* `holdout_reveal_failed`".
RevealsTerminate ==
    \A s \in Studies : study[s].reveal = "reserved" ~> study[s].reveal \in {"failed", "revealed"}

-----------------------------------------------------------------------------
(* What a study is to its reader *)

Lifecycle == INSTANCE StudyLifecycle WITH
    phase <- [s \in Studies |-> study[s].state],
    used <- uses,
    opened <- {s \in Studies : reads[s] > 0}

FollowsLifecycle == Lifecycle!Spec
=============================================================================
