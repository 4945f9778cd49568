---------------------------- MODULE StudyRegistry ----------------------------
(***************************************************************************)
(* The research registry (src/nlp_trader/research_agents/registry.py): one *)
(* append-only file of events, the projection every operation folds from   *)
(* it, what each transition asks of the projection, and what the fold asks *)
(* of the file with the new event in it.                                   *)
(*                                                                         *)
(* The file is kept as its fold, with its length for the hash of its head: *)
(* the hash chain makes two heads equal only when all before them is.      *)
(***************************************************************************)
EXTENDS Integers, Sequences

CONSTANTS
    Studies,     \* study ids
    Holdouts,    \* what a holdout is used of: lineage, labels, assets, outcomes
    Overlap,     \* pairs of holdouts that overlap
    Budget,      \* proposal_budget of a study
    NoName       \* no study, no holdout

ASSUME RegistryAssumption ==
    /\ Budget \in Nat \ {0}
    /\ NoName \notin Studies \cup Holdouts
    /\ Overlap \subseteq Holdouts \X Holdouts

\* A range of outcomes is not empty and neither is a universe, so that a
\* holdout overlaps itself, and _ranges_overlap has no first and second.
ASSUME OverlapAssumption ==
    /\ \A h \in Holdouts : <<h, h>> \in Overlap
    /\ \A h, i \in Holdouts : <<h, i>> \in Overlap => <<i, h>> \in Overlap

VARIABLES
    study,       \* study[s]: the fold of the events of study s
    uses,        \* the holdout-use index
    length,      \* events in research_events.jsonl; stands for its head hash
    torn         \* its last line is incomplete

registryVars == <<study, uses, length, torn>>

-----------------------------------------------------------------------------
(* Events and what they fold to *)

EventTypes ==
    {"study_registered", "proposal_attempt_reserved", "proposal_attempt_completed",
     "proposal_verified", "development_execution_approved", "development_run_started",
     "development_run_failed", "development_run_completed", "candidate_frozen",
     "external_holdout_registered", "holdout_reveal_reserved", "holdout_reveal_failed",
     "holdout_revealed", "study_closed"}

Outcomes == {"proposal", "abstention", "failed"}
Verdicts == {"passed", "rejected"}

\* n: the number of an attempt or of a development run.
Events == [type : EventTypes, study : Studies \cup {NoName}, n : Nat,
           outcome : Outcomes \cup {"none"}, verdict : Verdicts \cup {"none"},
           holdout : Holdouts \cup {NoName}]

Attempts == [outcome : Outcomes \cup {"reserved"}, verdict : Verdicts \cup {"none"}]

Phases == {"unregistered", "development_open", "development_locked",
           "candidate_frozen", "holdout_revealed", "closed"}

\* runs: development runs started, the last of them in status run; holdout: the
\* identity the freeze bound.
StudyStates ==
    [state : Phases, attempts : Seq(Attempts), approved : Nat, runs : Nat,
     run : {"none", "started", "failed", "completed"},
     holdout : Holdouts \cup {NoName},
     reveal : {"none", "reserved", "failed", "revealed"}]

\* A use by a study's reveal reservation, or an external one: study NoName.
Uses == [holdout : Holdouts, study : Studies \cup {NoName}]

Unregistered == [state |-> "unregistered", attempts |-> <<>>, approved |-> 0, runs |-> 0,
                 run |-> "none", holdout |-> NoName, reveal |-> "none"]

Reserved(s) == {n \in DOMAIN study[s].attempts : study[s].attempts[n].outcome = "reserved"}

\* Mutant of Overlapping: only the same holdout counts, not one that overlaps.
OverlappingSame(h) == {u \in uses : u.holdout = h}
Overlapping(h) == {u \in uses : <<u.holdout, h>> \in Overlap}

-----------------------------------------------------------------------------
(* What each transition asks of the projection *)

RegisterStudy(e) ==
    e.type = "study_registered" /\ study[e.study].state = "unregistered"

ReserveProposalAttempt(e) ==
    /\ e.type = "proposal_attempt_reserved" /\ study[e.study].state = "development_open"
    /\ Len(study[e.study].attempts) # Budget

CompleteProposalAttempt(e) ==
    /\ e.type = "proposal_attempt_completed" /\ study[e.study].state = "development_open"
    /\ e.n \in Reserved(e.study)

\* Of its terminal artifact: only the session that completed an attempt gets so
\* far as to verify it, with the artifact it completed it with.
RecordProposalVerification(e) ==
    /\ e.type = "proposal_verified" /\ e.n \in DOMAIN study[e.study].attempts
    /\ study[e.study].attempts[e.n].outcome \in {"proposal", "abstention"}
    /\ study[e.study].attempts[e.n].verdict = "none"

ApproveDevelopmentExecution(e) ==
    /\ e.type = "development_execution_approved"
    /\ study[e.study].state = "development_open" /\ Reserved(e.study) = {}
    /\ e.n \in DOMAIN study[e.study].attempts
    /\ study[e.study].attempts[e.n].verdict = "passed"

\* Mutant of StartDevelopmentRun: a run that is active does not keep another out.
StartDevelopmentRunAgain(e) ==
    /\ e.type = "development_run_started" /\ study[e.study].state = "development_locked"
    /\ study[e.study].run # "completed"

StartDevelopmentRun(e) ==
    /\ e.type = "development_run_started" /\ study[e.study].state = "development_locked"
    /\ study[e.study].run \notin {"started", "completed"}

FailDevelopmentRun(e) ==
    /\ e.type = "development_run_failed" /\ study[e.study].state = "development_locked"
    /\ study[e.study].run = "started" /\ study[e.study].runs = e.n

CompleteDevelopmentRun(e) ==
    /\ e.type = "development_run_completed" /\ study[e.study].state = "development_locked"
    /\ study[e.study].run = "started" /\ study[e.study].runs = e.n

FreezeCandidate(e) ==
    /\ e.type = "candidate_frozen" /\ study[e.study].state = "development_locked"
    /\ study[e.study].run = "completed"

RegisterExternalHoldout(e) ==
    e.type = "external_holdout_registered" /\ Overlapping(e.holdout) = {}

ReserveHoldoutReveal(e) ==
    /\ e.type = "holdout_reveal_reserved" /\ study[e.study].state = "candidate_frozen"
    /\ study[e.study].reveal = "none" /\ study[e.study].holdout = e.holdout
    /\ Overlapping(e.holdout) = {}

FailHoldoutReveal(e) ==
    /\ e.type = "holdout_reveal_failed" /\ study[e.study].state = "candidate_frozen"
    /\ study[e.study].reveal = "reserved"

CompleteHoldoutReveal(e) ==
    /\ e.type = "holdout_revealed" /\ study[e.study].state = "candidate_frozen"
    /\ study[e.study].reveal = "reserved" /\ study[e.study].holdout = e.holdout

CloseStudy(e) ==
    /\ e.type = "study_closed"
    /\ study[e.study].state \notin {"unregistered", "closed"} /\ Reserved(e.study) = {}

Transition(e) ==
    \/ RegisterStudy(e) \/ CloseStudy(e)
    \/ ReserveProposalAttempt(e) \/ CompleteProposalAttempt(e)
    \/ RecordProposalVerification(e) \/ ApproveDevelopmentExecution(e)
    \/ StartDevelopmentRun(e) \/ FailDevelopmentRun(e) \/ CompleteDevelopmentRun(e)
    \/ FreezeCandidate(e) \/ RegisterExternalHoldout(e)
    \/ ReserveHoldoutReveal(e) \/ FailHoldoutReveal(e) \/ CompleteHoldoutReveal(e)

\* Mutant of FoldAccepts: a study with an active run or reveal can be closed.
FoldAcceptsClosure(e) ==
    e.type = "holdout_revealed" =>
        Overlapping(e.holdout) = {[holdout |-> e.holdout, study |-> e.study]}

\* The fold repeats what the transitions ask. Of a closure it asks more, and of
\* a reveal that the reservation is the one use its holdout has.
FoldAccepts(e) ==
    /\ e.type = "study_closed" =>
           study[e.study].run # "started" /\ study[e.study].reveal # "reserved"
    /\ e.type = "holdout_revealed" =>
           Overlapping(e.holdout) = {[holdout |-> e.holdout, study |-> e.study]}

Accepts(e) == Transition(e) /\ FoldAccepts(e)

-----------------------------------------------------------------------------
(* The fold of one more event *)

Attempt(outcome, verdict) == [outcome |-> outcome, verdict |-> verdict]

Folded(s, e) ==
    CASE e.type = "study_registered" -> [s EXCEPT !.state = "development_open"]
      [] e.type = "proposal_attempt_reserved" ->
             [s EXCEPT !.attempts = Append(@, Attempt("reserved", "none"))]
      [] e.type = "proposal_attempt_completed" ->
             [s EXCEPT !.attempts[e.n] = Attempt(e.outcome, "none")]
      [] e.type = "proposal_verified" ->
             [s EXCEPT !.attempts[e.n] = Attempt(s.attempts[e.n].outcome, e.verdict)]
      [] e.type = "development_execution_approved" ->
             [s EXCEPT !.state = "development_locked", !.approved = e.n]
      [] e.type = "development_run_started" ->
             [s EXCEPT !.run = "started", !.runs = @ + 1]
      [] e.type = "development_run_failed" -> [s EXCEPT !.run = "failed"]
      [] e.type = "development_run_completed" -> [s EXCEPT !.run = "completed"]
      [] e.type = "candidate_frozen" ->
             [s EXCEPT !.state = "candidate_frozen", !.holdout = e.holdout]
      [] e.type = "holdout_reveal_reserved" -> [s EXCEPT !.reveal = "reserved"]
      [] e.type = "holdout_reveal_failed" -> [s EXCEPT !.reveal = "failed"]
      [] e.type = "holdout_revealed" ->
             [s EXCEPT !.reveal = "revealed", !.state = "holdout_revealed"]
      [] e.type = "study_closed" -> [s EXCEPT !.state = "closed"]

UseTypes == {"external_holdout_registered", "holdout_reveal_reserved"}

\* research_events.jsonl gets one more line, e.
AppendEvent(e) ==
    /\ study' = IF e.study = NoName THEN study
                ELSE [study EXCEPT ![e.study] = Folded(@, e)]
    /\ uses' = IF e.type \in UseTypes
               THEN uses \cup {[holdout |-> e.holdout, study |-> e.study]} ELSE uses
    /\ length' = length + 1
    /\ UNCHANGED torn

RegistryInit ==
    /\ study = [s \in Studies |-> Unregistered] /\ uses = {} /\ length = 0 /\ torn = FALSE
=============================================================================
