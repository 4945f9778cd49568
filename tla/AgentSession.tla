---------------------------- MODULE AgentSession ----------------------------
(***************************************************************************)
(* One session of the research analyst (run_research_agent): the bounded   *)
(* loop of model calls and tool calls, the files and the round ledger it   *)
(* leaves, the completion and the verification of its attempt, and the     *)
(* except clause. StudyExecution has a whole session as one step.          *)
(*                                                                         *)
(* Every durable write is a step. The model answers anything; a step of a  *)
(* file or of a ledger may fail before or after its bytes are there; the   *)
(* process may crash at any step.                                          *)
(***************************************************************************)
EXTENDS Integers, Sequences, FiniteSets

CONSTANTS
    Evidence,       \* evidence records of the bundle
    MaxSteps, MaxToolCalls, MaxPages, MaxReads,   \* of ResearchAgentConfig
    MaxStepBytes, MaxRunBytes,
    Faults          \* what goes wrong: subset of AllFaults

AllFaults == {"crash", "write", "append", "registry"}

\* ResearchAgentConfig.validate: a step is left for a terminal action.
ASSUME SessionAssumption ==
    /\ MaxSteps \in Nat \ {0} /\ MaxToolCalls \in Nat /\ MaxToolCalls < MaxSteps
    /\ MaxPages \in Nat \ {0} /\ MaxReads \in Nat
    /\ MaxStepBytes \in Nat \ {0} /\ MaxRunBytes \in Nat /\ MaxStepBytes <= MaxRunBytes
    /\ Faults \subseteq AllFaults

VARIABLES
    at,         \* where the host is
    handling,   \* it is in its except clause
    host,       \* what it counts and keeps in memory
    action,     \* the action parsed from the last generation
    ending,     \* the outcome a failing session is to report
    files,      \* files of the run directory that are whole
    pages,      \* pages[s]: tools/results/s.json, or NoPage
    rounds,     \* model/rounds.jsonl
    torn,       \* its last line is incomplete
    attempt     \* the attempt in the study registry

vars == <<at, handling, host, action, ending, files, pages, rounds, torn, attempt>>

-----------------------------------------------------------------------------
(* Values *)

\* A file of a step, and one of the run.
File(name, s) == <<name, s>>
Report(name) == File(name, 0)

Ended == {"returned", "raised", "crashed"}

StepNumbers == 1..MaxSteps

Malformed == [kind |-> "malformed"]
Searches == [kind : {"search"}, purpose : {"support", "challenge"}]
ToolCalls == Searches \cup [kind : {"metrics", "other"}]
\* validate_proposal: cited on one side only, and challenged: by
\* counterevidence, or by a search, named by its step.
Proposals == {p \in [kind : {"proposal"}, supporting : SUBSET Evidence \ {{}},
                     counter : SUBSET Evidence, search : 0..MaxSteps] :
                  /\ p.supporting \cap p.counter = {}
                  /\ p.counter # {} \/ p.search # 0}
Terminals == Proposals \cup [kind : {"abstention"}]
Actions == {Malformed} \cup ToolCalls \cup Terminals

\* A stored tool result is what a search found and for which purpose.
NoPage == [purpose |-> "absent", found |-> {}]


\* In host, kept counts the rounds in its list, and results are the steps of the
\* results in its list.
Init ==
    /\ at = "inputs" /\ handling = FALSE /\ action = Malformed /\ ending = "none"
    /\ host = [step |-> 1, calls |-> 0, searches |-> 0, reads |-> 0, bytes |-> 0,
               kept |-> 0, results |-> {}]
    /\ files = {} /\ pages = [s \in StepNumbers |-> NoPage] /\ rounds = <<>> /\ torn = FALSE
    /\ attempt = [outcome |-> "none", verdict |-> "none"]

-----------------------------------------------------------------------------
(* What a step does and how it fails *)

\* Mutant of Raises: the except clause tries again when it fails itself.
RaisesAndRetries == at' = "except" /\ UNCHANGED <<handling, ending>>
\* An exception: from the loop into the except clause, from there out.
Raises == at' = (IF handling THEN "raised" ELSE "except") /\ UNCHANGED <<handling, ending>>
Proceeds(place) == at' = place /\ UNCHANGED <<handling, ending>>
\* return _fail_attempt(...)
Fails(outcome) == at' = "failing" /\ ending' = outcome /\ UNCHANGED handling

\* _write_json_exclusive; a failing fsync leaves the file.
Writes(file, place) ==
    \/ files' = files \cup {file} /\ Proceeds(place)
    \/ "write" \in Faults /\ files' \in {files, files \cup {file}} /\ Raises

\* ResearchAgentRoundLedger.append: the chain is checked on the stored rounds.
Fits(r) == ~torn /\ r.step = Len(rounds) + 1 /\ r.previous = Len(rounds)
\* The number of rounds before it stands for the hash of the previous one.
Round(called) == [step |-> host.step, previous |-> host.kept, kind |-> action.kind,
                  called |-> called]
Appended(r) == rounds' = Append(rounds, r) /\ torn' = torn
AppendFails(r) ==
    /\ \/ ~Fits(r) /\ UNCHANGED <<rounds, torn>>
       \/ "append" \in Faults /\ Fits(r)
          /\ \/ UNCHANGED <<rounds, torn>>
             \/ torn' = TRUE /\ rounds' = rounds
             \/ Appended(r)
    /\ Raises /\ UNCHANGED host

\* A mutation of the registry that may be refused, or recorded and yet raise.
Registers(a, place) ==
    \/ attempt' = a /\ Proceeds(place)
    \/ "registry" \in Faults /\ attempt' \in {attempt, a} /\ Raises

trace == <<files, pages, rounds, torn>>

-----------------------------------------------------------------------------
(* The loop *)

\* The run directory and _write_model_inputs, before the try block.
PrepareInputs ==
    /\ at = "inputs"
    /\ \/ files' = {Report("inputs")} /\ Proceeds("loop")
       \/ "write" \in Faults /\ files' = {} /\ at' = "raised" /\ UNCHANGED <<handling, ending>>
    /\ UNCHANGED <<host, action, pages, rounds, torn, attempt>>

\* for step in range(1, max_steps + 1): the time limit, then the request. After
\* the loop, raise AssertionError("bounded agent loop must terminate").
BeginStep ==
    /\ at = "loop"
    /\ IF host.step > MaxSteps
       THEN Proceeds("unreachable") /\ files' = files
       ELSE \/ Fails("exhausted") /\ files' = files
            \/ Writes(File("request", host.step), "generate")
    /\ UNCHANGED <<host, action, pages, rounds, torn, attempt>>

\* Mutant of Generate: what was generated is kept in memory only.
GenerateUnstored ==
    /\ at = "generate"
    /\ \/ Raises /\ UNCHANGED action
       \/ action' \in Actions /\ Proceeds("parsed")
    /\ UNCHANGED <<host, files, pages, rounds, torn, attempt>>
\* BoundedResearchAnalyst.generate_step: a model call, its parse, its response.
Generate ==
    /\ at = "generate"
    /\ \/ Raises /\ UNCHANGED <<action, files>>
       \/ action' \in Actions /\ Writes(File("response", host.step), "parsed")
    /\ UNCHANGED <<host, pages, rounds, torn, attempt>>

\* Mutant of TooManyCalls: one call more than the limit.
OneMoreCall == host.calls > MaxToolCalls
TooManyCalls == host.calls >= MaxToolCalls

\* Output that cannot be parsed, or a call too many, is a last round of its own.
Refused == action = Malformed \/ (action \in ToolCalls /\ TooManyCalls)
RejectAction ==
    /\ at = "parsed" /\ Refused
    /\ LET r == Round(FALSE)
       IN  \/ /\ Fits(r) /\ Appended(r) /\ host' = [host EXCEPT !.kept = @ + 1]
              /\ Fails(IF action = Malformed THEN "malformed" ELSE "exhausted")
           \/ AppendFails(r)
    /\ UNCHANGED <<action, files, pages, attempt>>

Counted(h) ==
    [h EXCEPT !.searches = IF action.kind = "search" THEN @ + 1 ELSE @,
              !.reads = IF action.kind = "metrics" THEN @ + 1 ELSE @]

\* The page and read limits, counted whatever becomes of the call; the request.
RequestTool ==
    /\ at = "parsed" /\ action \in ToolCalls /\ ~Refused
    /\ host' = Counted(host)
    /\ \/ /\ host'.searches > MaxPages \/ host'.reads > MaxReads
          /\ Raises /\ files' = files
       \/ /\ host'.searches <= MaxPages /\ host'.reads <= MaxReads
          /\ Writes(File("tool", host.step), "call")
    /\ UNCHANGED <<action, pages, rounds, torn, attempt>>

\* What the gateway answers: a search, any of the evidence.
Answers ==
    IF action.kind = "search"
    THEN {[purpose |-> action.purpose, found |-> e] : e \in SUBSET Evidence}
    ELSE {[purpose |-> "none", found |-> {}]}

WithinBytes(size) == size <= MaxStepBytes /\ host.bytes + size <= MaxRunBytes

\* gateway.execute, which may refuse the request, and the byte limits; then the
\* result is stored.
CallTool ==
    /\ at = "call"
    /\ \/ Raises /\ UNCHANGED <<host, pages>>
       \/ \E size \in 1..MaxStepBytes, page \in Answers :
             /\ WithinBytes(size)
             /\ host' = [host EXCEPT !.bytes = @ + size]
             /\ \/ pages' = [pages EXCEPT ![host.step] = page] /\ Proceeds("called")
                \/ "write" \in Faults /\ Raises
                   /\ pages' \in {pages, [pages EXCEPT ![host.step] = page]}
    /\ UNCHANGED <<action, files, rounds, torn, attempt>>

\* The round that binds the result; the loop goes on, if a step is left.
RecordCall ==
    /\ at = "called"
    /\ LET r == Round(TRUE)
       IN  \/ /\ Fits(r) /\ Appended(r)
              /\ host' = [host EXCEPT !.kept = @ + 1, !.calls = @ + 1, !.step = @ + 1,
                                      !.results = @ \cup {host.step}]
              /\ IF host.step = MaxSteps THEN Fails("exhausted") ELSE Proceeds("loop")
           \/ AppendFails(r)
    /\ UNCHANGED <<action, files, pages, attempt>>

RecordTerminal ==
    /\ at = "parsed" /\ action \in Terminals
    /\ LET r == Round(FALSE)
       IN  \/ /\ Fits(r) /\ Appended(r) /\ host' = [host EXCEPT !.kept = @ + 1]
              /\ Proceeds("terminal")
           \/ AppendFails(r)
    /\ UNCHANGED <<action, files, pages, attempt>>

-----------------------------------------------------------------------------
(* The end of a session *)

WriteTerminal ==
    /\ at = "terminal" /\ Writes(Report(action.kind), "complete")
    /\ UNCHANGED <<host, action, pages, rounds, torn, attempt>>

CompleteAttempt ==
    /\ at = "complete" /\ Registers([attempt EXCEPT !.outcome = action.kind], "verify")
    /\ UNCHANGED <<host, action, trace>>

\* _rounds_valid: the chain, and the results the rounds bind are those at hand.
RoundsValid(rs, results) ==
    /\ \A i \in DOMAIN rs : rs[i].step = i /\ rs[i].previous = i - 1
    /\ {rs[i].step : i \in {j \in DOMAIN rs : rs[j].called}} = results

\* _tool_references: evidence has the role of the last page that showed it.
Role(e, results) ==
    LET shown == {s \in results : e \in pages[s].found}
    IN  IF shown = {} THEN "none"
        ELSE pages[CHOOSE s \in shown : \A t \in shown : t <= s].purpose

Challenges(s) ==
    \/ pages[s].purpose = "challenge"
    \/ pages[s].purpose = "support" /\ pages[s].found = {}

\* Mutant of Grounded: the roles of what is cited are not checked.
GroundedInAnyRole(p, results) ==
    /\ \A e \in p.supporting \cup p.counter : Role(e, results) # "none"
    /\ p.counter # {} \/ (p.search \in results /\ Challenges(p.search))
\* Citations, their roles and the challenge; an abstention cites nothing.
Grounded(p, results) ==
    /\ \A e \in p.supporting : Role(e, results) = "support"
    /\ \A e \in p.counter : Role(e, results) = "challenge"
    /\ p.counter # {} \/ (p.search \in results /\ Challenges(p.search))

\* Whether the remaining checks of verify_terminal_action pass is open.
MayPass(rs, results) ==
    /\ RoundsValid(rs, results)
    /\ action.kind = "proposal" => Grounded(action, results)

VerifyTerminal ==
    /\ at = "verify"
    /\ \E passed \in BOOLEAN :
          /\ passed => MayPass(SubSeq(rounds, 1, host.kept), host.results)
          /\ Writes(Report(IF passed THEN "passed" ELSE "rejected"), "record")
    /\ UNCHANGED <<host, action, pages, rounds, torn, attempt>>

\* Mutant of RecordVerification: an attempt that has a verification has passed.
RecordAsPassed ==
    /\ at = "record" /\ Registers([attempt EXCEPT !.verdict = "passed"], "final")
    /\ UNCHANGED <<host, action, trace>>
RecordVerification ==
    /\ at = "record"
    /\ LET verdict == IF Report("passed") \in files THEN "passed" ELSE "failed"
       IN  Registers([attempt EXCEPT !.verdict = verdict], "final")
    /\ UNCHANGED <<host, action, trace>>

WriteFinal ==
    /\ at = "final" /\ Writes(Report("final"), "summary")
    /\ UNCHANGED <<host, action, pages, rounds, torn, attempt>>

\* _write_tool_summary, and _check_retained_bytes which may raise.
WriteSummary ==
    /\ at = "summary"
    /\ \/ Writes(Report("summary"), "returned")
       \/ files' = files \cup {Report("summary")} /\ Report("final") \in files /\ Raises
    /\ UNCHANGED <<host, action, pages, rounds, torn, attempt>>

\* _fail_attempt: the completion, then the file.
FailAttempt ==
    /\ at = "failing" /\ Registers([attempt EXCEPT !.outcome = ending], "failed")
    /\ UNCHANGED <<host, action, trace>>

WriteFailed ==
    /\ at = "failed" /\ Writes(Report("failed"), "summary")
    /\ UNCHANGED <<host, action, pages, rounds, torn, attempt>>

\* Mutant of Recover: the registry is not asked whether the attempt is complete.
RecoverAlways ==
    /\ at = "except" /\ handling' = TRUE
    /\ ending' \in {"rejected", "crashed"} /\ at' = "failing"
    /\ UNCHANGED <<host, action, trace, attempt>>
\* The except clause: nothing to do for a completed attempt; otherwise it fails,
\* rejected for a ValueError and crashed for anything else. The registry it asks
\* may be locked.
Recover ==
    /\ at = "except" /\ handling' = TRUE
    /\ \/ attempt.outcome # "none" /\ at' = "raised" /\ ending' = ending
       \/ attempt.outcome = "none" /\ at' = "failing" /\ ending' \in {"rejected", "crashed"}
       \/ "registry" \in Faults /\ at' = "raised" /\ ending' = ending
    /\ UNCHANGED <<host, action, trace, attempt>>

\* The end of the process. In the middle of a write, an append or a mutation it
\* leaves what one that fails leaves.
Crash ==
    /\ "crash" \in Faults /\ at \notin Ended /\ at' = "crashed"
    /\ UNCHANGED <<handling, host, action, ending, files, pages, rounds, torn, attempt>>

-----------------------------------------------------------------------------
(* Reading a stored run *)

\* replay_agent_run: the chain of rounds, each with its request and its response.
RoundsReplay ==
    /\ ~torn /\ rounds # <<>> /\ \A i \in DOMAIN rounds : rounds[i].previous = i - 1
    /\ \A i \in DOMAIN rounds :
          {File("request", rounds[i].step), File("response", rounds[i].step)} \subseteq files

\* verify_stored_run: the proposal, else the abstention, is verified again with the
\* stored results, here by the step that asked for them (the code lists the files in
\* tools/results); the registry holds the verdict that is stored.
StoredRunVerifies ==
    LET results == {s \in StepNumbers : File("tool", s) \in files}
    IN  /\ Report(IF Report("proposal") \in files THEN "proposal" ELSE "abstention") \in files
        /\ \/ Report("passed") \in files /\ MayPass(rounds, results) /\ attempt.verdict = "passed"
           \/ Report("rejected") \in files /\ RoundsValid(rounds, results) /\ attempt.verdict = "failed"

-----------------------------------------------------------------------------
Loop == \/ PrepareInputs \/ BeginStep \/ Generate \/ RejectAction
        \/ RequestTool \/ CallTool \/ RecordCall \/ RecordTerminal
End == \/ WriteTerminal \/ CompleteAttempt \/ VerifyTerminal \/ RecordVerification
       \/ WriteFinal \/ WriteSummary \/ FailAttempt \/ WriteFailed \/ Recover

Next == Loop \/ End \/ Crash

Spec == Init /\ [][Next]_vars
\* A session is sequential code; only a crash stops it, if the model answers.
FairSpec == Spec /\ WF_vars(Loop \/ End)

-----------------------------------------------------------------------------
(* Properties *)

Stored == {s \in StepNumbers : pages[s] # NoPage}

\* However a session ends, what it left explains itself: the rounds are one
\* chain; every round has the request and the response it came from, and a call
\* its result; and no step began before the round of the last one was stored
\* (run_research_agent, replay_agent_run).
TraceIsComplete ==
    /\ \A i \in DOMAIN rounds :
          /\ rounds[i].step = i /\ rounds[i].previous = i - 1
          /\ File("request", i) \in files /\ File("response", i) \in files
          /\ rounds[i].called => pages[i] # NoPage /\ File("tool", i) \in files
    /\ \A s \in StepNumbers : File("request", s) \in files => Len(rounds) >= s - 1
    /\ \A i \in DOMAIN rounds : ~rounds[i].called => i = Len(rounds)

\* A run that says it is final can be replayed and verified from its files and the
\* registry alone, with the verdict it was given, and its last round is the action
\* it ended in (replay_agent_run, verify_stored_run).
FinalRunReplays ==
    Report("final") \in files =>
        /\ RoundsReplay /\ StoredRunVerifies
        /\ rounds[Len(rounds)].kind = attempt.outcome /\ Report(attempt.outcome) \in files
        /\ Report("failed") \notin files

\* The limits of the config hold over the whole run and the loop always leaves
\* the model a step to end in: it is never left at its end, and never cut off at
\* its last step (ResearchAgentConfig, run_research_agent).
LimitsHold ==
    LET calls == {i \in DOMAIN rounds : rounds[i].called}
        of(kind) == {i \in calls : rounds[i].kind = kind}
    IN  /\ Cardinality(calls) <= MaxToolCalls /\ Len(rounds) <= MaxSteps
        /\ Cardinality(of("search")) <= MaxPages /\ Cardinality(of("metrics")) <= MaxReads
        /\ host.bytes <= MaxRunBytes
        /\ at # "unreachable" /\ (at = "called" => host.step < MaxSteps)

\* What the registry was told of an attempt is not told again, and a verdict is
\* only given on a proposal or an abstention (complete_proposal_attempt).
OutcomeStands ==
    [][/\ attempt.outcome # "none" => attempt'.outcome = attempt.outcome
       /\ attempt.verdict # "none" => attempt' = attempt
       /\ attempt'.verdict # "none" => attempt'.outcome \in {"proposal", "abstention"}]_vars

\* A proposal that passed cites nothing the session did not show, each thing on
\* the side the last search showed it for (_proposal_checks).
VerifiedIsGrounded ==
    attempt.verdict = "passed" /\ attempt.outcome = "proposal" =>
        /\ \A e \in action.supporting \cup action.counter :
              LET shown == {s \in Stored : e \in pages[s].found}
              IN  \E s \in shown :
                     /\ \A t \in shown : t <= s
                     /\ pages[s].purpose = "support" <=> e \in action.supporting
        /\ action.counter = {} => action.search \in Stored

\* A session whose model answers comes to an end, whatever the model says and
\* whatever else fails (run_research_agent).
SessionEnds == <>(at \in Ended)
=============================================================================
