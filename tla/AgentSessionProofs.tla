------------------------- MODULE AgentSessionProofs -------------------------
(***************************************************************************)
(* What holds of AgentSession for any evidence, any limits and any of the  *)
(* faults: the trace a session leaves explains itself, what the registry   *)
(* was told of its attempt stands, and the limits of a session hold.       *)
(***************************************************************************)
EXTENDS AgentSession, FiniteSetTheorems, WellFoundedInduction, TLAPS

-----------------------------------------------------------------------------
(* The inductive invariant *)

Purposes == {"support", "challenge", "none", "absent"}
Failures == {"malformed", "exhausted", "rejected", "crashed"}
Open == [outcome |-> "none", verdict |-> "none"]

Hosts == [step : Nat, calls : Nat, searches : Nat, reads : Nat, bytes : Nat, kept : Nat,
          results : SUBSET Nat]

RoundSeqs == Seq([step : Nat, previous : Nat, kind : {a.kind : a \in Actions},
                  called : BOOLEAN])

Types ==
    /\ host \in Hosts
    /\ host.step >= 1
    /\ action \in Actions
    /\ ending \in {"none"} \cup Failures
    /\ pages \in [StepNumbers -> [purpose : Purposes, found : SUBSET Evidence]]
    /\ rounds \in RoundSeqs
    /\ attempt \in [outcome : {"none", "proposal", "abstention"} \cup Failures,
                    verdict : {"none", "passed", "failed"}]

InStep == {"generate", "parsed", "call", "called"}
Looping == {"inputs", "loop"} \cup InStep

\* What a step of the loop has stored by the place it is at; a round without a
\* call leaves the loop.
LoopSound ==
    /\ at = "inputs" => rounds = <<>> /\ host.step = 1
    /\ at = "loop" => Len(rounds) >= host.step - 1
    /\ at \in Looping => \A i \in DOMAIN rounds : rounds[i].called
    /\ at \in InStep => host.step \in StepNumbers /\ File("request", host.step) \in files
    /\ at \in InStep \ {"generate"} => File("response", host.step) \in files
    /\ at \in {"call", "called"} => File("tool", host.step) \in files
    /\ at = "called" => pages[host.step] # NoPage

\* The attempt is open until the step that completes it, and has no verdict until
\* the one that records it.
AttemptSound ==
    /\ at \in Looping \cup {"terminal", "complete", "failing"} => attempt = Open
    /\ at \in {"terminal", "complete", "verify", "record"} => action \in Terminals
    /\ at \in {"verify", "record"} => attempt.outcome = action.kind /\ attempt.verdict = "none"
    /\ attempt.verdict # "none" => attempt.outcome \in {"proposal", "abstention"}

IInv == Types /\ LoopSound /\ AttemptSound /\ TraceIsComplete

-----------------------------------------------------------------------------
(* Lemmas *)

\* A terminal action is a proposal or an abstention, and an action.
LEMMA TerminalKinds ==
    ASSUME NEW a \in Terminals
    PROVE  a.kind \in {"proposal", "abstention"} /\ a \in Actions
BY DEF Terminals, Proposals, Actions

\* A search is for one of two purposes.
LEMMA SearchPurposes ==
    ASSUME NEW a \in Actions, a.kind = "search"
    PROVE  a.purpose \in {"support", "challenge"}
BY DEF Actions, Malformed, ToolCalls, Searches, Terminals, Proposals

\* A stored result is not NoPage.
LEMMA AnswersAreStored ==
    ASSUME NEW page \in Answers, action \in Actions
    PROVE  page \in [purpose : Purposes, found : SUBSET Evidence] /\ page # NoPage
BY SearchPurposes DEF Answers, Purposes, NoPage

\* A trace that only got more files is complete if it was, and if a new request has
\* the rounds before it.
LEMMA TraceKept ==
    ASSUME TraceIsComplete, UNCHANGED <<rounds, pages>>, files \subseteq files',
           \A s \in StepNumbers : File("request", s) \in files' /\ File("request", s) \notin files
                                      => Len(rounds) >= s - 1
    PROVE  TraceIsComplete'
BY DEF TraceIsComplete

\* Storing a result leaves the trace complete.
LEMMA ResultStored ==
    ASSUME TraceIsComplete, UNCHANGED <<rounds, files>>, Types,
           NEW page, page # NoPage, host.step \in StepNumbers,
           pages' = [pages EXCEPT ![host.step] = page]
    PROVE  TraceIsComplete'
BY DEF TraceIsComplete, Types

\* Appending a round that fits, with all its files there, leaves the trace complete
\* if every round before it had a call.
LEMMA RoundAppended ==
    ASSUME Types, TraceIsComplete, UNCHANGED <<files, pages>>,
           NEW called \in BOOLEAN, Fits(Round(called)), Appended(Round(called)),
           \A i \in DOMAIN rounds : rounds[i].called,
           File("request", host.step) \in files, File("response", host.step) \in files,
           called => pages[host.step] # NoPage /\ File("tool", host.step) \in files
    PROVE  /\ TraceIsComplete'
           /\ rounds' \in RoundSeqs
           /\ Len(rounds') = host.step
           /\ called => \A i \in DOMAIN rounds' : rounds'[i].called
<1> DEFINE r == Round(called)
<1>1. /\ r \in [step : Nat, previous : Nat, kind : {a.kind : a \in Actions}, called : BOOLEAN]
      /\ r.step = host.step /\ r.called = called
  BY DEF Types, Hosts, Round
<1>2. /\ rounds' = Append(rounds, r) /\ r.step = Len(rounds) + 1 /\ r.previous = Len(rounds)
  BY DEF Fits, Appended
<1>3. rounds \in RoundSeqs
  BY DEF Types
<1> HIDE DEF r
<1>4. /\ rounds' \in RoundSeqs
      /\ Len(rounds') = Len(rounds) + 1 /\ DOMAIN rounds' = 1..(Len(rounds) + 1)
      /\ DOMAIN rounds = 1..Len(rounds) /\ Len(rounds) \in Nat
      /\ rounds'[Len(rounds) + 1] = r /\ \A i \in 1..Len(rounds) : rounds'[i] = rounds[i]
  BY <1>1, <1>2, <1>3 DEF RoundSeqs
<1>5. TraceIsComplete'
  <2>1. \A i \in DOMAIN rounds' :
          /\ rounds'[i].step = i /\ rounds'[i].previous = i - 1
          /\ File("request", i) \in files /\ File("response", i) \in files
          /\ rounds'[i].called => pages[i] # NoPage /\ File("tool", i) \in files
    <3> SUFFICES ASSUME NEW i \in DOMAIN rounds'
                 PROVE  /\ rounds'[i].step = i /\ rounds'[i].previous = i - 1
                        /\ File("request", i) \in files /\ File("response", i) \in files
                        /\ rounds'[i].called => pages[i] # NoPage /\ File("tool", i) \in files
      OBVIOUS
    <3>1. CASE i = Len(rounds) + 1
      BY <1>1, <1>2, <1>4, <3>1
    <3>2. CASE i # Len(rounds) + 1
      <4>1. i \in DOMAIN rounds /\ rounds'[i] = rounds[i]
        BY <1>4, <3>2
      <4> QED  BY <4>1 DEF TraceIsComplete
    <3> QED  BY <3>1, <3>2
  <2>2. \A s \in StepNumbers : File("request", s) \in files => Len(rounds') >= s - 1
    <3>1. \A s \in StepNumbers : File("request", s) \in files => Len(rounds) >= s - 1
      BY DEF TraceIsComplete
    <3> QED  BY <1>4, <3>1, SessionAssumption DEF StepNumbers
  <2>3. \A i \in DOMAIN rounds' : ~rounds'[i].called => i = Len(rounds')
    BY <1>4
  <2> QED  BY <2>1, <2>2, <2>3 DEF TraceIsComplete
<1> QED  BY <1>1, <1>2, <1>4, <1>5

-----------------------------------------------------------------------------
(* The invariant is inductive *)

\* Counting keeps the host's record a record of the host.
LEMMA HostCounts ==
    ASSUME NEW h \in Hosts, NEW n \in Nat
    PROVE  /\ [h EXCEPT !.bytes = @ + n] \in Hosts
           /\ [h EXCEPT !.bytes = @ + n].step = h.step
BY DEF Hosts

\* Nothing is stored at the start.
LEMMA InitInvariant == Init => IInv
<1> SUFFICES ASSUME Init PROVE IInv
  OBVIOUS
<1>1. Types
  BY SessionAssumption DEF Init, Types, Hosts, RoundSeqs, NoPage, Purposes, Actions
<1>2. LoopSound /\ AttemptSound /\ TraceIsComplete
  BY <1>1 DEF Init, Types, LoopSound, AttemptSound, TraceIsComplete, Looping, InStep, Open
<1> QED  BY <1>1, <1>2 DEF IInv

\* The inputs are the first file; there is no round yet.
LEMMA PrepareInputsKeeps == IInv /\ PrepareInputs => IInv'
<1> SUFFICES ASSUME IInv, PrepareInputs PROVE IInv'
  OBVIOUS
<1> USE DEF IInv
<1>1. Types'
  BY DEF Types, PrepareInputs, Proceeds
<1>2. LoopSound'
  BY DEF LoopSound, Looping, InStep, PrepareInputs, Proceeds
<1>3. AttemptSound'
  BY DEF AttemptSound, Looping, InStep, Open, PrepareInputs, Proceeds
<1>4. TraceIsComplete'
  <2>1. rounds = <<>> /\ rounds' = rounds /\ pages' = pages
    BY DEF LoopSound, PrepareInputs
  <2>2. \A s \in StepNumbers : File("request", s) \notin files'
    BY DEF PrepareInputs, Proceeds, File, Report
  <2> QED  BY <2>1, <2>2 DEF TraceIsComplete
<1> QED  BY <1>1, <1>2, <1>3, <1>4

\* A request is stored after the rounds of all steps before it.
LEMMA BeginStepKeeps == IInv /\ BeginStep => IInv'
<1> SUFFICES ASSUME IInv, BeginStep PROVE IInv'
  OBVIOUS
<1> USE DEF IInv
<1>0. host.step \in Nat /\ host.step >= 1 /\ Len(rounds) \in Nat
      /\ MaxSteps \in Nat /\ UNCHANGED <<host, rounds, pages>>
  BY SessionAssumption DEF Types, Hosts, BeginStep
<1>1. Types'
  BY DEF Types, Failures, BeginStep, Proceeds, Raises, Fails, Writes
<1>2. LoopSound'
  <2>1. CASE host.step > MaxSteps
    BY <2>1 DEF LoopSound, Looping, InStep, BeginStep, Proceeds
  <2>2. CASE ~(host.step > MaxSteps)
    <3>1. host.step \in StepNumbers
      BY <1>0, <2>2 DEF StepNumbers
    <3> QED  BY <2>2, <3>1 DEF LoopSound, Looping, InStep, BeginStep, Proceeds, Raises, Fails,
                               Writes
  <2> QED  BY <2>1, <2>2
<1>3. AttemptSound'
  BY DEF AttemptSound, Looping, InStep, Open, BeginStep, Proceeds, Raises, Fails, Writes
<1>4. TraceIsComplete'
  <2>1. files' = files \/ files' = files \cup {File("request", host.step)}
    BY DEF BeginStep, Proceeds, Raises, Fails, Writes
  <2>2. Len(rounds) >= host.step - 1
    BY DEF LoopSound, BeginStep
  <2>3. \A s \in StepNumbers : File("request", s) \in files' /\ File("request", s) \notin files
                                   => s = host.step
    BY <2>1 DEF File
  <2>4. \A s \in StepNumbers : File("request", s) \in files' /\ File("request", s) \notin files
                                   => Len(rounds) >= s - 1
    BY <2>2, <2>3
  <2>5. files \subseteq files'
    BY <2>1
  <2> QED  BY <1>0, <2>4, <2>5, TraceKept
<1> QED  BY <1>1, <1>2, <1>3, <1>4

\* A response is stored under its step.
LEMMA GenerateKeeps == IInv /\ Generate => IInv'
<1> SUFFICES ASSUME IInv, Generate PROVE IInv'
  OBVIOUS
<1> USE DEF IInv
<1>1. Types'
  BY DEF Types, Generate, Proceeds, Raises, Writes
<1>2. LoopSound'
  BY DEF LoopSound, Looping, InStep, Generate, Proceeds, Raises, Writes
<1>3. AttemptSound'
  BY DEF AttemptSound, Looping, InStep, Open, Generate, Proceeds, Raises, Writes
<1>4. TraceIsComplete'
  BY TraceKept DEF Generate, Proceeds, Raises, Writes, File
<1> QED  BY <1>1, <1>2, <1>3, <1>4

\* A step that raises, or fails the session, keeps what LoopSound and AttemptSound
\* say of the attempt.
LEMMA LeftLoop ==
    ASSUME IInv, UNCHANGED <<attempt, action>>,
           at' \in {"except", "raised", "failing"}, at' = "failing" => attempt = Open
    PROVE  LoopSound' /\ AttemptSound'
BY DEF IInv, LoopSound, AttemptSound, Looping, InStep

\* A round that fits is appended to a complete trace.
LEMMA RoundFits ==
    ASSUME IInv, UNCHANGED <<files, pages>>, NEW called \in BOOLEAN,
           at \in {"parsed", "called"}, called => at = "called",
           Fits(Round(called)), Appended(Round(called))
    PROVE  /\ TraceIsComplete'
           /\ rounds' \in RoundSeqs
           /\ Len(rounds') = host.step
           /\ called => \A i \in DOMAIN rounds' : rounds'[i].called
<1>1. /\ \A i \in DOMAIN rounds : rounds[i].called
      /\ File("request", host.step) \in files /\ File("response", host.step) \in files
      /\ called => pages[host.step] # NoPage /\ File("tool", host.step) \in files
  BY DEF IInv, LoopSound, Looping, InStep
<1>2. Types /\ TraceIsComplete
  BY DEF IInv
<1> QED  BY <1>1, <1>2, RoundAppended

\* An append that fails leaves the rounds as they were, or with the round it was
\* to append; either way the trace stays complete.
LEMMA AppendFailsKeeps ==
    ASSUME IInv, UNCHANGED <<files, pages, action, attempt>>, NEW called \in BOOLEAN,
           at \in {"parsed", "called"}, called => at = "called",
           AppendFails(Round(called))
    PROVE  IInv'
<1>1. Raises /\ UNCHANGED host
  BY DEF AppendFails
<1>2. LoopSound' /\ AttemptSound'
  BY <1>1, LeftLoop DEF Raises
<1>3. CASE rounds' = rounds
  <2>1. Types'
    BY <1>1, <1>3 DEF IInv, Types, Raises
  <2>2. TraceIsComplete'
    BY <1>3 DEF IInv, TraceIsComplete
  <2> QED  BY <1>2, <2>1, <2>2 DEF IInv
<1>4. CASE Fits(Round(called)) /\ Appended(Round(called))
  <2>1. Types'
    BY <1>1, <1>4, RoundFits DEF IInv, Types, Raises
  <2> QED  BY <1>2, <1>4, <2>1, RoundFits DEF IInv
<1> QED  BY <1>3, <1>4 DEF AppendFails

\* A last round without a call ends the loop.
LEMMA RejectActionKeeps == IInv /\ RejectAction => IInv'
<1> SUFFICES ASSUME IInv, RejectAction PROVE IInv'
  OBVIOUS
<1> DEFINE r == Round(FALSE)
<1>1. UNCHANGED <<action, files, pages, attempt>>
  BY DEF RejectAction
<1>2. CASE AppendFails(r)
  BY <1>1, <1>2, AppendFailsKeeps DEF RejectAction
<1>3. CASE /\ Fits(r) /\ Appended(r) /\ host' = [host EXCEPT !.kept = @ + 1]
           /\ Fails(IF action = Malformed THEN "malformed" ELSE "exhausted")
  <2>1. attempt = Open
    BY DEF IInv, AttemptSound, Looping, InStep, RejectAction
  <2>2. LoopSound' /\ AttemptSound'
    BY <1>1, <1>3, <2>1, LeftLoop DEF Fails
  <2>3. TraceIsComplete' /\ rounds' \in RoundSeqs
    BY <1>1, <1>3, RoundFits DEF RejectAction
  <2>4. Types'
    <3>1. host \in Hosts
      BY DEF IInv, Types
    <3>2. host' \in Hosts
      BY <1>3, <3>1 DEF Hosts
    <3> QED  BY <1>1, <1>3, <2>3, <3>2 DEF IInv, Types, Fails, Failures
  <2> QED  BY <2>2, <2>3, <2>4 DEF IInv
<1> QED  BY <1>2, <1>3 DEF RejectAction

\* The last round is the terminal action.
LEMMA RecordTerminalKeeps == IInv /\ RecordTerminal => IInv'
<1> SUFFICES ASSUME IInv, RecordTerminal PROVE IInv'
  OBVIOUS
<1> DEFINE r == Round(FALSE)
<1>1. UNCHANGED <<action, files, pages, attempt>>
  BY DEF RecordTerminal
<1>2. CASE AppendFails(r)
  BY <1>1, <1>2, AppendFailsKeeps DEF RecordTerminal
<1>3. CASE /\ Fits(r) /\ Appended(r) /\ host' = [host EXCEPT !.kept = @ + 1]
           /\ Proceeds("terminal")
  <2>1. attempt = Open /\ action \in Terminals
    BY DEF IInv, AttemptSound, Looping, InStep, RecordTerminal
  <2>2. LoopSound' /\ AttemptSound'
    BY <1>1, <1>3, <2>1 DEF Proceeds, IInv, LoopSound, AttemptSound, Looping, InStep, Open
  <2>3. TraceIsComplete' /\ rounds' \in RoundSeqs
    BY <1>1, <1>3, RoundFits DEF RecordTerminal
  <2>4. Types'
    <3>1. host \in Hosts
      BY DEF IInv, Types
    <3>2. host' \in Hosts
      BY <1>3, <3>1 DEF Hosts
    <3> QED  BY <1>1, <1>3, <2>3, <3>2 DEF IInv, Types, Proceeds
  <2> QED  BY <2>2, <2>3, <2>4 DEF IInv
<1> QED  BY <1>2, <1>3 DEF RecordTerminal

\* The round of a call is stored before the next step begins.
LEMMA RecordCallKeeps == IInv /\ RecordCall => IInv'
<1> SUFFICES ASSUME IInv, RecordCall PROVE IInv'
  OBVIOUS
<1> DEFINE r == Round(TRUE)
<1>1. UNCHANGED <<action, files, pages, attempt>>
  BY DEF RecordCall
<1>2. CASE AppendFails(r)
  BY <1>1, <1>2, AppendFailsKeeps DEF RecordCall
<1>3. CASE /\ Fits(r) /\ Appended(r)
           /\ host' = [host EXCEPT !.kept = @ + 1, !.calls = @ + 1, !.step = @ + 1,
                                   !.results = @ \cup {host.step}]
           /\ IF host.step = MaxSteps THEN Fails("exhausted") ELSE Proceeds("loop")
  <2>1. attempt = Open
    BY DEF IInv, AttemptSound, Looping, InStep, RecordCall
  <2>2. /\ TraceIsComplete' /\ Len(rounds') = host.step
        /\ \A i \in DOMAIN rounds' : rounds'[i].called
        /\ rounds' \in RoundSeqs
    BY <1>1, <1>3, RoundFits DEF RecordCall
  <2>3. host' \in Hosts /\ host'.step = host.step + 1 /\ host.step \in Nat \ {0}
    <3>1. host \in Hosts /\ host.step >= 1
      BY DEF IInv, Types
    <3> DEFINE kept == host.kept + 1
               calls == host.calls + 1
               step == host.step + 1
               results == host.results \cup {host.step}
    <3>2. /\ kept \in Nat /\ calls \in Nat /\ step \in Nat /\ results \in SUBSET Nat
          /\ host.step \in Nat \ {0}
      BY <3>1 DEF Hosts
    <3>3. host' = [host EXCEPT !.kept = kept, !.calls = calls, !.step = step,
                               !.results = results]
      BY <1>3
    <3>4. step = host.step + 1
      OBVIOUS
    <3> HIDE DEF kept, calls, step, results
    <3> QED  BY <3>1, <3>2, <3>3, <3>4 DEF Hosts
  <2>4. CASE host.step = MaxSteps
    <3>1. LoopSound' /\ AttemptSound'
      BY <1>1, <1>3, <2>1, <2>4, LeftLoop DEF Fails
    <3>2. Types'
      BY <1>1, <1>3, <2>2, <2>3, <2>4 DEF IInv, Types, Fails, Failures
    <3> QED  BY <2>2, <3>1, <3>2 DEF IInv
  <2>5. CASE host.step # MaxSteps
    <3>1. at' = "loop" /\ ending' = ending
      BY <1>3, <2>5 DEF Proceeds
    <3>2. Len(rounds') >= host'.step - 1
      BY <2>2, <2>3 DEF IInv, Types
    <3>3. LoopSound'
      BY <2>2, <3>1, <3>2 DEF LoopSound, Looping, InStep
    <3>4. AttemptSound'
      BY <1>1, <2>1, <3>1 DEF AttemptSound, Looping, InStep, Open
    <3>5. Types'
      BY <1>1, <2>2, <2>3, <3>1 DEF IInv, Types
    <3> QED  BY <2>2, <3>3, <3>4, <3>5 DEF IInv
  <2> QED  BY <2>4, <2>5
<1> QED  BY <1>2, <1>3 DEF RecordCall

\* A request for a tool is stored; the limits are counted.
LEMMA RequestToolKeeps == IInv /\ RequestTool => IInv'
<1> SUFFICES ASSUME IInv, RequestTool PROVE IInv'
  OBVIOUS
<1> USE DEF IInv
<1>1. Types'
  <2>1. host' \in Hosts /\ host'.step = host.step
    <3>1. host \in Hosts /\ host' = Counted(host)
      BY DEF Types, RequestTool
    <3> DEFINE searches == IF action.kind = "search" THEN host.searches + 1 ELSE host.searches
               reads == IF action.kind = "metrics" THEN host.reads + 1 ELSE host.reads
    <3>2. searches \in Nat /\ reads \in Nat /\ host.kept \in Nat
      BY <3>1 DEF Hosts
    <3>3. Counted(host) = [host EXCEPT !.searches = searches, !.reads = reads]
      BY DEF Counted
    <3> HIDE DEF searches, reads
    <3> QED  BY <3>1, <3>2, <3>3 DEF Hosts
  <2>2. ending' = ending /\ UNCHANGED <<action, pages, rounds, attempt>>
    BY DEF RequestTool, Proceeds, Raises, Writes
  <2> QED  BY <2>1, <2>2 DEF Types
<1>2. LoopSound'
  <2>1. host'.step = host.step
    BY DEF Types, RequestTool, Counted
  <2>2. UNCHANGED <<rounds, pages>> /\ at = "parsed" /\ files \subseteq files'
    BY DEF RequestTool, Proceeds, Raises, Writes
  <2>3. at' \in {"except", "raised"} \/ (at' = "call" /\ File("tool", host.step) \in files')
    BY DEF RequestTool, Proceeds, Raises, Writes
  <2> QED  BY <2>1, <2>2, <2>3 DEF LoopSound, Looping, InStep
<1>3. AttemptSound'
  BY DEF AttemptSound, Looping, InStep, Open, RequestTool, Proceeds, Raises, Writes
<1>4. TraceIsComplete'
  BY TraceKept DEF RequestTool, Proceeds, Raises, Writes, File
<1> QED  BY <1>1, <1>2, <1>3, <1>4

\* A tool result is stored under its step.
LEMMA CallToolKeeps == IInv /\ CallTool => IInv'
<1> SUFFICES ASSUME IInv, CallTool PROVE IInv'
  OBVIOUS
<1> USE DEF IInv
<1>0. /\ at = "call" /\ UNCHANGED <<action, files, rounds, attempt, ending>>
      /\ host.step \in StepNumbers
      /\ at' \in {"except", "raised", "called"}
  BY DEF LoopSound, Looping, InStep, CallTool, Proceeds, Raises
<1>a. PICK page \in [purpose : Purposes, found : SUBSET Evidence], size \in Nat :
        /\ page # NoPage
        /\ host' = host \/ host' = [host EXCEPT !.bytes = @ + size]
        /\ \/ pages' = pages /\ at' # "called"
           \/ pages' = [pages EXCEPT ![host.step] = page]
  <2>1. CASE pages' = pages /\ at' # "called" /\ host' = host
    <3>1. [purpose |-> "none", found |-> {}] \in [purpose : Purposes, found : SUBSET Evidence]
          /\ [purpose |-> "none", found |-> {}] # NoPage
      BY DEF Purposes, NoPage
    <3> QED  BY <2>1, <3>1
  <2>2. CASE \E size \in 1..MaxStepBytes, page \in Answers :
                /\ host' = [host EXCEPT !.bytes = @ + size]
                /\ \/ pages' = pages /\ at' # "called"
                   \/ pages' = [pages EXCEPT ![host.step] = page]
    <3>1. 1..MaxStepBytes \subseteq Nat /\ action \in Actions
      BY SessionAssumption DEF Types
    <3> QED  BY <2>2, <3>1, AnswersAreStored
  <2> QED  BY <2>1, <2>2 DEF CallTool, Proceeds, Raises
<1>b. host' \in Hosts /\ host'.step = host.step
  <2>1. host \in Hosts
    BY DEF Types
  <2>2. CASE host' = host
    BY <2>1, <2>2
  <2>3. CASE host' = [host EXCEPT !.bytes = @ + size]
    BY <2>1, <2>3, HostCounts
  <2> QED  BY <1>a, <2>2, <2>3
<1>1. Types'
  <2>1. pages' \in [StepNumbers -> [purpose : Purposes, found : SUBSET Evidence]]
    BY <1>a DEF Types
  <2> QED  BY <1>0, <1>b, <2>1 DEF Types
<1>2. LoopSound'
  <2>1. host'.step = host.step
    BY <1>b
  <2>2. at' = "called" => pages'[host.step] # NoPage
    BY <1>0, <1>a DEF Types
  <2> QED  BY <1>0, <2>1, <2>2 DEF LoopSound, Looping, InStep
<1>3. AttemptSound'
  BY <1>0 DEF AttemptSound, Looping, InStep, Open
<1>4. TraceIsComplete'
  <2>1. CASE pages' = pages
    BY <1>0, <2>1 DEF TraceIsComplete
  <2>2. CASE pages' = [pages EXCEPT ![host.step] = page]
    BY <1>0, <1>a, <2>2, ResultStored
  <2> QED  BY <1>a, <2>1, <2>2
<1> QED  BY <1>1, <1>2, <1>3, <1>4

\* The terminal action is stored.
LEMMA WriteTerminalKeeps == IInv /\ WriteTerminal => IInv'
<1> SUFFICES ASSUME IInv, WriteTerminal PROVE IInv'
  OBVIOUS
<1> USE DEF IInv
<1>1. Types'
  BY DEF Types, WriteTerminal, Proceeds, Raises, Writes
<1>2. LoopSound'
  BY DEF LoopSound, Looping, InStep, WriteTerminal, Proceeds, Raises, Writes
<1>3. AttemptSound'
  BY DEF AttemptSound, Looping, InStep, Open, WriteTerminal, Proceeds, Raises, Writes
<1>4. TraceIsComplete'
  BY TraceKept DEF WriteTerminal, Proceeds, Raises, Writes, File, Report
<1> QED  BY <1>1, <1>2, <1>3, <1>4

\* The attempt is completed with the kind of the terminal action.
LEMMA CompleteAttemptKeeps == IInv /\ CompleteAttempt => IInv'
<1> SUFFICES ASSUME IInv, CompleteAttempt PROVE IInv'
  OBVIOUS
<1> USE DEF IInv
<1>1. Types'
  <2>1. action.kind \in {"proposal", "abstention"}
    BY TerminalKinds DEF AttemptSound, CompleteAttempt
  <2> QED  BY <2>1 DEF Types, Failures, CompleteAttempt, Proceeds, Raises, Registers, trace
<1>2. LoopSound'
  BY DEF LoopSound, Looping, InStep, CompleteAttempt, Proceeds, Raises, Registers, trace
<1>3. AttemptSound'
  <2>1. action \in Terminals /\ action.kind \in {"proposal", "abstention"} /\ attempt = Open
    BY TerminalKinds DEF AttemptSound, CompleteAttempt, Looping
  <2> QED  BY <2>1 DEF AttemptSound, Looping, InStep, Open, CompleteAttempt, Proceeds, Raises,
                       Registers, trace
<1>4. TraceIsComplete'
  BY TraceKept DEF CompleteAttempt, Proceeds, Raises, Registers, trace
<1> QED  BY <1>1, <1>2, <1>3, <1>4

\* The verification is stored.
LEMMA VerifyTerminalKeeps == IInv /\ VerifyTerminal => IInv'
<1> SUFFICES ASSUME IInv, VerifyTerminal PROVE IInv'
  OBVIOUS
<1> USE DEF IInv
<1>1. Types'
  BY DEF Types, VerifyTerminal, Proceeds, Raises, Writes
<1>2. LoopSound'
  BY DEF LoopSound, Looping, InStep, VerifyTerminal, Proceeds, Raises, Writes
<1>3. AttemptSound'
  BY DEF AttemptSound, Looping, InStep, Open, VerifyTerminal, Proceeds, Raises, Writes
<1>4. TraceIsComplete'
  BY TraceKept DEF VerifyTerminal, Proceeds, Raises, Writes, File, Report
<1> QED  BY <1>1, <1>2, <1>3, <1>4

\* A verdict is recorded on a proposal or an abstention.
LEMMA RecordVerificationKeeps == IInv /\ RecordVerification => IInv'
<1> SUFFICES ASSUME IInv, RecordVerification PROVE IInv'
  OBVIOUS
<1> USE DEF IInv
<1>1. Types'
  BY DEF Types, RecordVerification, Proceeds, Raises, Registers, trace
<1>2. LoopSound'
  BY DEF LoopSound, Looping, InStep, RecordVerification, Proceeds, Raises, Registers, trace
<1>3. AttemptSound'
  <2>1. attempt.outcome \in {"proposal", "abstention"}
    BY TerminalKinds DEF AttemptSound, RecordVerification
  <2>2. attempt'.outcome = attempt.outcome /\ at' \in {"final", "except", "raised"}
    BY DEF Types, RecordVerification, Proceeds, Raises, Registers
  <2> QED  BY <2>1, <2>2 DEF AttemptSound, Looping, InStep
<1>4. TraceIsComplete'
  BY TraceKept DEF RecordVerification, Proceeds, Raises, Registers, File, Report, trace
<1> QED  BY <1>1, <1>2, <1>3, <1>4

\* The final report is stored.
LEMMA WriteFinalKeeps == IInv /\ WriteFinal => IInv'
<1> SUFFICES ASSUME IInv, WriteFinal PROVE IInv'
  OBVIOUS
<1> USE DEF IInv
<1>1. Types'
  BY DEF Types, WriteFinal, Proceeds, Raises, Writes
<1>2. LoopSound'
  BY DEF LoopSound, Looping, InStep, WriteFinal, Proceeds, Raises, Writes
<1>3. AttemptSound'
  BY DEF AttemptSound, Looping, InStep, Open, WriteFinal, Proceeds, Raises, Writes
<1>4. TraceIsComplete'
  BY TraceKept DEF WriteFinal, Proceeds, Raises, Writes, File, Report
<1> QED  BY <1>1, <1>2, <1>3, <1>4

\* The tool summary is stored.
LEMMA WriteSummaryKeeps == IInv /\ WriteSummary => IInv'
<1> SUFFICES ASSUME IInv, WriteSummary PROVE IInv'
  OBVIOUS
<1> USE DEF IInv
<1>1. Types'
  BY DEF Types, WriteSummary, Proceeds, Raises, Writes
<1>2. LoopSound'
  BY DEF LoopSound, Looping, InStep, WriteSummary, Proceeds, Raises, Writes
<1>3. AttemptSound'
  BY DEF AttemptSound, Looping, InStep, Open, WriteSummary, Proceeds, Raises, Writes
<1>4. TraceIsComplete'
  BY TraceKept DEF WriteSummary, Proceeds, Raises, Writes, File, Report
<1> QED  BY <1>1, <1>2, <1>3, <1>4

\* An open attempt is completed with the outcome of its failure.
LEMMA FailAttemptKeeps == IInv /\ FailAttempt => IInv'
<1> SUFFICES ASSUME IInv, FailAttempt PROVE IInv'
  OBVIOUS
<1> USE DEF IInv
<1>1. Types'
  BY DEF Types, Failures, FailAttempt, Proceeds, Raises, Registers, trace
<1>2. LoopSound'
  BY DEF LoopSound, Looping, InStep, FailAttempt, Proceeds, Raises, Registers, trace
<1>3. AttemptSound'
  BY DEF AttemptSound, Looping, InStep, Open, FailAttempt, Proceeds, Raises, Registers, trace
<1>4. TraceIsComplete'
  BY TraceKept DEF FailAttempt, Proceeds, Raises, Registers, trace
<1> QED  BY <1>1, <1>2, <1>3, <1>4

\* The report of the failure is stored.
LEMMA WriteFailedKeeps == IInv /\ WriteFailed => IInv'
<1> SUFFICES ASSUME IInv, WriteFailed PROVE IInv'
  OBVIOUS
<1> USE DEF IInv
<1>1. Types'
  BY DEF Types, WriteFailed, Proceeds, Raises, Writes
<1>2. LoopSound'
  BY DEF LoopSound, Looping, InStep, WriteFailed, Proceeds, Raises, Writes
<1>3. AttemptSound'
  BY DEF AttemptSound, Looping, InStep, Open, WriteFailed, Proceeds, Raises, Writes
<1>4. TraceIsComplete'
  BY TraceKept DEF WriteFailed, Proceeds, Raises, Writes, File, Report
<1> QED  BY <1>1, <1>2, <1>3, <1>4

\* The except clause only fails an attempt that is open.
LEMMA RecoverKeeps == IInv /\ Recover => IInv'
<1> SUFFICES ASSUME IInv, Recover PROVE IInv'
  OBVIOUS
<1> USE DEF IInv
<1>1. Types'
  BY DEF Types, Failures, Recover, trace
<1>2. LoopSound'
  BY DEF LoopSound, Looping, InStep, Recover, trace
<1>3. AttemptSound'
  <2>1. attempt.outcome = "none" => attempt = Open
    BY DEF Types, AttemptSound, Open
  <2> QED  BY <2>1 DEF AttemptSound, Looping, InStep, Recover, trace
<1>4. TraceIsComplete'
  BY TraceKept DEF Recover, trace
<1> QED  BY <1>1, <1>2, <1>3, <1>4

\* A crash leaves everything as it is.
LEMMA CrashKeeps == IInv /\ Crash => IInv'
<1> SUFFICES ASSUME IInv, Crash PROVE IInv'
  OBVIOUS
<1> USE DEF IInv
<1>1. Types'
  BY DEF Types, Crash
<1>2. LoopSound'
  BY DEF LoopSound, Looping, InStep, Crash
<1>3. AttemptSound'
  BY DEF AttemptSound, Looping, InStep, Open, Crash
<1>4. TraceIsComplete'
  BY TraceKept DEF Crash
<1> QED  BY <1>1, <1>2, <1>3, <1>4

-----------------------------------------------------------------------------
(* The theorems *)

\* Whatever the model answers and whatever fails, every step keeps the invariant.
THEOREM Invariance == Spec => []IInv
<1>1. IInv /\ [Next]_vars => IInv'
  <2>1. IInv /\ Loop => IInv'
    BY PrepareInputsKeeps, BeginStepKeeps, GenerateKeeps, RejectActionKeeps, RequestToolKeeps,
       CallToolKeeps, RecordCallKeeps, RecordTerminalKeeps DEF Loop
  <2>2. IInv /\ End => IInv'
    BY WriteTerminalKeeps, CompleteAttemptKeeps, VerifyTerminalKeeps, RecordVerificationKeeps,
       WriteFinalKeeps, WriteSummaryKeeps, FailAttemptKeeps, WriteFailedKeeps, RecoverKeeps
       DEF End
  <2>3. IInv /\ UNCHANGED vars => IInv'
    BY DEF vars, IInv, Types, LoopSound, AttemptSound, TraceIsComplete
  <2> QED  BY <2>1, <2>2, <2>3, CrashKeeps DEF Next
<1> QED  BY <1>1, InitInvariant, PTL DEF Spec

\* However a session ends, the rounds, requests, responses and results it left
\* explain each other (run_research_agent, replay_agent_run).
THEOREM TraceExplainsItself == Spec => []TraceIsComplete
BY Invariance, PTL DEF IInv

\* The three steps that tell the registry something tell it of an attempt that is
\* open, or give a verdict to one that has none.
LEMMA RegistryKeeps ==
    ASSUME IInv, IInv', [Next]_vars
    PROVE  /\ attempt.outcome # "none" => attempt'.outcome = attempt.outcome
           /\ attempt.verdict # "none" => attempt' = attempt
           /\ attempt'.verdict # "none" => attempt'.outcome \in {"proposal", "abstention"}
<1>1. attempt'.verdict # "none" => attempt'.outcome \in {"proposal", "abstention"}
  BY DEF IInv, AttemptSound
<1>2. CASE UNCHANGED attempt
  BY <1>1, <1>2
<1>3. CASE CompleteAttempt \/ FailAttempt
  <2>1. attempt.outcome = "none" /\ attempt.verdict = "none"
    BY <1>3 DEF IInv, AttemptSound, Open, CompleteAttempt, FailAttempt
  <2> QED  BY <1>1, <2>1
<1>4. CASE RecordVerification
  <2>1. attempt.verdict = "none"
    BY <1>4 DEF IInv, AttemptSound, RecordVerification
  <2>2. attempt'.outcome = attempt.outcome
    BY <1>4 DEF IInv, Types, RecordVerification, Registers
  <2> QED  BY <1>1, <2>1, <2>2
<1>5. UNCHANGED attempt \/ CompleteAttempt \/ FailAttempt \/ RecordVerification
  BY DEF Next, Loop, End, vars, trace, PrepareInputs, BeginStep, Generate, RejectAction,
         RequestTool, CallTool, RecordCall, RecordTerminal, WriteTerminal, VerifyTerminal,
         WriteFinal, WriteSummary, WriteFailed, Recover, Crash
<1> QED  BY <1>2, <1>3, <1>4, <1>5

\* What the registry was told of an attempt is not told again, also when a step
\* raises after it was recorded (complete_proposal_attempt, the except clause).
THEOREM OutcomeIsKept == Spec => OutcomeStands
<1>1. IInv /\ IInv' /\ [Next]_vars =>
        [/\ attempt.outcome # "none" => attempt'.outcome = attempt.outcome
         /\ attempt.verdict # "none" => attempt' = attempt
         /\ attempt'.verdict # "none" => attempt'.outcome \in {"proposal", "abstention"}]_vars
  BY RegistryKeeps
<1> QED  BY <1>1, Invariance, PTL DEF Spec, OutcomeStands

-----------------------------------------------------------------------------
(* What was verified *)

\* The results at hand are the results that are stored, until the verification.
ResultsKept ==
    /\ at \in {"inputs", "loop", "generate", "parsed", "call", "terminal", "complete", "verify"}
           => host.results = Stored
    /\ at = "called" => Stored = host.results \cup {host.step}

\* A verification that passed is of the action in hand, over what is stored.
PassedSound ==
    /\ at \in Looping \cup {"terminal", "complete", "verify"} => Report("passed") \notin files
    /\ Report("passed") \in files /\ action.kind = "proposal" => Grounded(action, Stored)
    /\ attempt.verdict = "passed" => Report("passed") \in files
    /\ attempt.verdict # "none" => attempt.outcome = action.kind

VInv == IInv /\ ResultsKept /\ PassedSound

\* What is grounded stays so while the action and the stored results stay.
LEMMA GroundedKept ==
    ASSUME UNCHANGED <<action, pages>>
    PROVE  Stored' = Stored /\ (Grounded(action, Stored)' <=> Grounded(action, Stored))
BY DEF Stored, Grounded, Role, Challenges

\* The stored results change only with the pages.
LEMMA StoredKept ==
    ASSUME UNCHANGED pages
    PROVE  Stored' = Stored
BY DEF Stored

\* The names of the files of a run differ.
LEMMA PassedIsItself ==
    /\ \A s : /\ Report("passed") # File("request", s) /\ Report("passed") # File("tool", s)
              /\ Report("passed") # File("response", s)
    /\ Report("passed") # Report("inputs")
    /\ Report("passed") # Report("rejected") /\ Report("passed") # Report("final")
    /\ Report("passed") # Report("summary") /\ Report("passed") # Report("failed")
    /\ \A a \in Terminals : Report("passed") # Report(a.kind)
BY TerminalKinds DEF Report, File

\* The inputs are no verification.
LEMMA PrepareInputsGrounds == VInv /\ PrepareInputs => ResultsKept' /\ PassedSound'
<1> SUFFICES ASSUME VInv, PrepareInputs PROVE ResultsKept' /\ PassedSound'
  OBVIOUS
<1>1. ResultsKept'
  BY GroundedKept DEF VInv, ResultsKept, PrepareInputs, Proceeds
<1>2. PassedSound'
  BY GroundedKept, PassedIsItself DEF VInv, PassedSound, Looping, InStep, PrepareInputs, Proceeds
<1> QED  BY <1>1, <1>2

\* A request is no verification.
LEMMA BeginStepGrounds == VInv /\ BeginStep => ResultsKept' /\ PassedSound'
<1> SUFFICES ASSUME VInv, BeginStep PROVE ResultsKept' /\ PassedSound'
  OBVIOUS
<1>1. ResultsKept'
  BY GroundedKept DEF VInv, ResultsKept, BeginStep, Proceeds, Fails, Writes, Raises
<1>2. PassedSound'
  BY GroundedKept, PassedIsItself DEF VInv, PassedSound, Looping, InStep, BeginStep, Proceeds,
     Fails, Writes, Raises
<1> QED  BY <1>1, <1>2

\* There is no verification while the model is asked.
LEMMA GenerateGrounds == VInv /\ Generate => ResultsKept' /\ PassedSound'
<1> SUFFICES ASSUME VInv, Generate PROVE ResultsKept' /\ PassedSound'
  OBVIOUS
<1>1. attempt = Open
  BY DEF VInv, IInv, AttemptSound, Looping, InStep, Generate
<1>2. ResultsKept'
  BY StoredKept DEF VInv, ResultsKept, Generate, Raises, Writes, Proceeds
<1>3. Report("passed") \notin files' /\ attempt' = attempt
  BY PassedIsItself DEF VInv, PassedSound, Looping, InStep, Generate, Raises, Writes, Proceeds
<1>4. PassedSound'
  BY <1>1, <1>3 DEF PassedSound, Open
<1> QED  BY <1>2, <1>4

\* A rejected action leaves no result.
LEMMA RejectActionGrounds == VInv /\ RejectAction => ResultsKept' /\ PassedSound'
<1> SUFFICES ASSUME VInv, RejectAction PROVE ResultsKept' /\ PassedSound'
  OBVIOUS
<1>1. ResultsKept'
  BY GroundedKept DEF VInv, ResultsKept, RejectAction, Fails, AppendFails, Proceeds, Raises
<1>2. PassedSound'
  BY GroundedKept, PassedIsItself DEF VInv, PassedSound, Looping, InStep, RejectAction, Fails,
     AppendFails, Proceeds, Raises
<1> QED  BY <1>1, <1>2

\* A request for a tool leaves no result.
LEMMA RequestToolGrounds == VInv /\ RequestTool => ResultsKept' /\ PassedSound'
<1> SUFFICES ASSUME VInv, RequestTool PROVE ResultsKept' /\ PassedSound'
  OBVIOUS
<1>1. host'.results = host.results
  <2>1. host \in Hosts
    BY DEF VInv, IInv, Types
  <2> QED  BY <2>1 DEF Hosts, RequestTool, Counted
<1>2. ResultsKept'
  BY <1>1, GroundedKept DEF VInv, ResultsKept, RequestTool, Raises, Writes, Proceeds
<1>3. PassedSound'
  BY GroundedKept, PassedIsItself DEF VInv, PassedSound, Looping, InStep, RequestTool, Raises,
     Writes, Proceeds
<1> QED  BY <1>2, <1>3

\* A result is stored before it is at hand.
LEMMA CallToolGrounds == VInv /\ CallTool => ResultsKept' /\ PassedSound'
<1> SUFFICES ASSUME VInv, CallTool PROVE ResultsKept' /\ PassedSound'
  OBVIOUS
<1>1. /\ at = "call" /\ UNCHANGED <<action, files, attempt>> /\ attempt = Open
      /\ host.step \in StepNumbers /\ at' \in {"except", "raised", "called"}
  BY DEF VInv, IInv, AttemptSound, LoopSound, Looping, InStep, CallTool, Proceeds, Raises
<1>2. CASE at' # "called"
  <2>1. ResultsKept' /\ PassedSound'
    BY <1>1, <1>2 DEF VInv, ResultsKept, PassedSound, Looping, InStep, Open
  <2> QED  BY <2>1
<1>3. CASE at' = "called"
  <2>1. PICK size \in 1..MaxStepBytes, page \in Answers :
          /\ host' = [host EXCEPT !.bytes = @ + size]
          /\ pages' = [pages EXCEPT ![host.step] = page]
    BY <1>3 DEF CallTool, Proceeds, Raises
  <2>2. page # NoPage
    BY AnswersAreStored DEF VInv, IInv, Types
  <2>3. Stored' = Stored \cup {host.step}
    BY <1>1, <2>1, <2>2 DEF VInv, IInv, Types, Stored
  <2>4. host'.results = host.results /\ host'.step = host.step
    <3>1. host \in Hosts
      BY DEF VInv, IInv, Types
    <3> QED  BY <2>1, <3>1 DEF Hosts
  <2>5. ResultsKept'
    BY <1>1, <1>3, <2>3, <2>4 DEF VInv, ResultsKept
  <2>6. PassedSound'
    BY <1>1, <1>3 DEF VInv, PassedSound, Looping, InStep, Open
  <2> QED  BY <2>5, <2>6
<1> QED  BY <1>2, <1>3

\* With its round a result is at hand.
LEMMA RecordCallGrounds == VInv /\ RecordCall => ResultsKept' /\ PassedSound'
<1> SUFFICES ASSUME VInv, RecordCall PROVE ResultsKept' /\ PassedSound'
  OBVIOUS
<1>1. /\ at = "called" /\ UNCHANGED <<action, files, pages, attempt>>
      /\ \/ at' = "loop" /\ host' = [host EXCEPT !.kept = @ + 1, !.calls = @ + 1, !.step = @ + 1,
                                              !.results = @ \cup {host.step}]
         \/ at' \in {"failing", "except", "raised"}
  BY DEF RecordCall, Proceeds, Fails, AppendFails, Raises
<1>2. at' = "loop" => host'.results = host.results \cup {host.step}
  <2>1. host \in Hosts
    BY DEF VInv, IInv, Types
  <2> QED  BY <1>1, <2>1 DEF Hosts
<1>3. ResultsKept'
  BY <1>1, <1>2, StoredKept DEF VInv, ResultsKept
<1>4. PassedSound'
  BY <1>1, GroundedKept DEF VInv, PassedSound, Looping, InStep
<1> QED  BY <1>3, <1>4

\* The terminal action leaves no result.
LEMMA RecordTerminalGrounds == VInv /\ RecordTerminal => ResultsKept' /\ PassedSound'
<1> SUFFICES ASSUME VInv, RecordTerminal PROVE ResultsKept' /\ PassedSound'
  OBVIOUS
<1>1. /\ at = "parsed" /\ UNCHANGED <<action, files, pages, attempt>>
      /\ \/ at' = "terminal" /\ host' = [host EXCEPT !.kept = @ + 1]
         \/ at' \in {"except", "raised"}
  BY DEF RecordTerminal, Proceeds, AppendFails, Raises
<1>2. at' = "terminal" => host'.results = host.results
  <2>1. host \in Hosts
    BY DEF VInv, IInv, Types
  <2> QED  BY <1>1, <2>1 DEF Hosts
<1>3. ResultsKept'
  BY <1>1, <1>2, StoredKept DEF VInv, ResultsKept
<1>4. PassedSound'
  BY <1>1, GroundedKept DEF VInv, PassedSound, Looping, InStep
<1> QED  BY <1>3, <1>4

\* A terminal action is no verification.
LEMMA WriteTerminalGrounds == VInv /\ WriteTerminal => ResultsKept' /\ PassedSound'
<1> SUFFICES ASSUME VInv, WriteTerminal PROVE ResultsKept' /\ PassedSound'
  OBVIOUS
<1>1. action \in Terminals
  BY DEF VInv, IInv, AttemptSound, WriteTerminal
<1>2. Report("passed") # Report(action.kind)
  BY <1>1, PassedIsItself
<1>3. ResultsKept'
  BY GroundedKept DEF VInv, ResultsKept, WriteTerminal, Writes, Proceeds, Raises
<1>4. PassedSound'
  BY <1>2, GroundedKept DEF VInv, PassedSound, Looping, InStep, WriteTerminal, Writes, Proceeds,
     Raises
<1> QED  BY <1>3, <1>4

\* An attempt is completed before it is verified.
LEMMA CompleteAttemptGrounds == VInv /\ CompleteAttempt => ResultsKept' /\ PassedSound'
<1> SUFFICES ASSUME VInv, CompleteAttempt PROVE ResultsKept' /\ PassedSound'
  OBVIOUS
<1>1. attempt = Open /\ at = "complete"
  BY DEF VInv, IInv, AttemptSound, Looping, CompleteAttempt
<1>2. ResultsKept'
  BY GroundedKept DEF VInv, ResultsKept, CompleteAttempt, Registers, trace, Proceeds, Raises
<1>3. attempt'.verdict = "none" /\ UNCHANGED <<action, pages, files>>
      /\ at' \in {"verify", "except", "raised"}
  BY <1>1 DEF Open, CompleteAttempt, Registers, trace, Proceeds, Raises
<1>4. PassedSound'
  BY <1>1, <1>3, GroundedKept DEF VInv, PassedSound
<1> QED  BY <1>2, <1>4

\* What passes is grounded in the results at hand.
LEMMA VerifyTerminalGrounds == VInv /\ VerifyTerminal => ResultsKept' /\ PassedSound'
<1> SUFFICES ASSUME VInv, VerifyTerminal PROVE ResultsKept' /\ PassedSound'
  OBVIOUS
<1>1. PICK passed \in BOOLEAN :
        /\ passed => MayPass(SubSeq(rounds, 1, host.kept), host.results)
        /\ Writes(Report(IF passed THEN "passed" ELSE "rejected"), "record")
  BY DEF VerifyTerminal
<1>2. /\ at = "verify" /\ UNCHANGED <<action, pages, attempt>> /\ host.results = Stored
      /\ at' \in {"record", "except", "raised"} /\ attempt.verdict = "none"
      /\ Report("passed") \notin files
  BY <1>1 DEF VerifyTerminal, Writes, Proceeds, Raises, VInv, IInv, ResultsKept, AttemptSound,
              PassedSound
<1>3. Report("passed") \in files' /\ action.kind = "proposal" => Grounded(action, Stored)
  <2>1. Report("passed") \in files' => passed
    BY <1>1, <1>2, PassedIsItself DEF Writes
  <2> QED  BY <1>1, <1>2, <2>1 DEF MayPass
<1>4. ResultsKept'
  BY <1>2 DEF ResultsKept
<1>5. PassedSound'
  BY <1>2, <1>3, GroundedKept DEF PassedSound, Looping, InStep
<1> QED  BY <1>4, <1>5

\* An attempt has passed when its verification has.
LEMMA RecordVerificationGrounds == VInv /\ RecordVerification => ResultsKept' /\ PassedSound'
<1> SUFFICES ASSUME VInv, RecordVerification PROVE ResultsKept' /\ PassedSound'
  OBVIOUS
<1>1. /\ at = "record" /\ attempt.outcome = action.kind /\ UNCHANGED <<action, pages, files>>
      /\ attempt.verdict = "none" /\ at' \in {"final", "except", "raised"}
  BY DEF VInv, IInv, AttemptSound, RecordVerification, Registers, trace, Proceeds, Raises
<1>2. /\ attempt'.outcome = attempt.outcome
      /\ attempt'.verdict = "passed" => Report("passed") \in files
  BY <1>1 DEF VInv, IInv, Types, RecordVerification, Registers
<1>3. ResultsKept'
  BY <1>1 DEF ResultsKept
<1>4. PassedSound'
  BY <1>1, <1>2, GroundedKept DEF VInv, PassedSound, Looping, InStep
<1> QED  BY <1>3, <1>4

\* The final report is no verification.
LEMMA WriteFinalGrounds == VInv /\ WriteFinal => ResultsKept' /\ PassedSound'
<1> SUFFICES ASSUME VInv, WriteFinal PROVE ResultsKept' /\ PassedSound'
  OBVIOUS
<1>1. ResultsKept'
  BY GroundedKept DEF VInv, ResultsKept, WriteFinal, Writes, Proceeds, Raises
<1>2. PassedSound'
  BY GroundedKept, PassedIsItself DEF VInv, PassedSound, Looping, InStep, WriteFinal, Writes,
     Proceeds, Raises
<1> QED  BY <1>1, <1>2

\* A summary is no verification.
LEMMA WriteSummaryGrounds == VInv /\ WriteSummary => ResultsKept' /\ PassedSound'
<1> SUFFICES ASSUME VInv, WriteSummary PROVE ResultsKept' /\ PassedSound'
  OBVIOUS
<1>1. ResultsKept'
  BY GroundedKept DEF VInv, ResultsKept, WriteSummary, Raises, Writes, Proceeds
<1>2. PassedSound'
  BY GroundedKept, PassedIsItself DEF VInv, PassedSound, Looping, InStep, WriteSummary, Raises,
     Writes, Proceeds
<1> QED  BY <1>1, <1>2

\* An attempt that failed has no verdict.
LEMMA FailAttemptGrounds == VInv /\ FailAttempt => ResultsKept' /\ PassedSound'
<1> SUFFICES ASSUME VInv, FailAttempt PROVE ResultsKept' /\ PassedSound'
  OBVIOUS
<1>1. attempt = Open /\ UNCHANGED <<action, pages, files>>
      /\ at' \in {"failed", "except", "raised"}
  BY DEF VInv, IInv, AttemptSound, FailAttempt, Registers, trace, Proceeds, Raises
<1>2. attempt'.verdict = "none"
  BY <1>1 DEF FailAttempt, Registers, Open
<1>3. ResultsKept'
  BY <1>1 DEF ResultsKept
<1>4. PassedSound'
  BY <1>1, <1>2, GroundedKept DEF VInv, PassedSound, Looping, InStep
<1> QED  BY <1>3, <1>4

\* A report of a failure is no verification.
LEMMA WriteFailedGrounds == VInv /\ WriteFailed => ResultsKept' /\ PassedSound'
<1> SUFFICES ASSUME VInv, WriteFailed PROVE ResultsKept' /\ PassedSound'
  OBVIOUS
<1>1. ResultsKept'
  BY GroundedKept DEF VInv, ResultsKept, WriteFailed, Writes, Proceeds, Raises
<1>2. PassedSound'
  BY GroundedKept, PassedIsItself DEF VInv, PassedSound, Looping, InStep, WriteFailed, Writes,
     Proceeds, Raises
<1> QED  BY <1>1, <1>2

\* The except clause verifies nothing.
LEMMA RecoverGrounds == VInv /\ Recover => ResultsKept' /\ PassedSound'
<1> SUFFICES ASSUME VInv, Recover PROVE ResultsKept' /\ PassedSound'
  OBVIOUS
<1>1. ResultsKept'
  BY GroundedKept DEF VInv, ResultsKept, Recover, trace
<1>2. PassedSound'
  BY GroundedKept, PassedIsItself DEF VInv, PassedSound, Looping, InStep, Recover, trace
<1> QED  BY <1>1, <1>2

\* Nor does a crash.
LEMMA CrashGrounds == VInv /\ Crash => ResultsKept' /\ PassedSound'
<1> SUFFICES ASSUME VInv, Crash PROVE ResultsKept' /\ PassedSound'
  OBVIOUS
<1>1. ResultsKept'
  BY GroundedKept DEF VInv, ResultsKept, Crash
<1>2. PassedSound'
  BY GroundedKept, PassedIsItself DEF VInv, PassedSound, Looping, InStep, Crash
<1> QED  BY <1>1, <1>2

\* Every step keeps what was verified sound.
LEMMA VInvariance == Spec => []VInv
<1>1. Init => VInv
  <2> SUFFICES ASSUME Init PROVE VInv
    OBVIOUS
  <2>1. IInv
    BY InitInvariant
  <2>2. Stored = {}
    BY DEF Init, Stored
  <2> QED  BY <2>1, <2>2 DEF Init, VInv, ResultsKept, PassedSound
<1>2. VInv /\ IInv' /\ [Next]_vars => VInv'
  <2>1. VInv /\ Loop => ResultsKept' /\ PassedSound'
    BY PrepareInputsGrounds, BeginStepGrounds, GenerateGrounds, RejectActionGrounds,
       RequestToolGrounds, CallToolGrounds, RecordCallGrounds, RecordTerminalGrounds DEF Loop
  <2>2. VInv /\ End => ResultsKept' /\ PassedSound'
    BY WriteTerminalGrounds, CompleteAttemptGrounds, VerifyTerminalGrounds,
       RecordVerificationGrounds, WriteFinalGrounds, WriteSummaryGrounds, FailAttemptGrounds,
       WriteFailedGrounds, RecoverGrounds DEF End
  <2>3. VInv /\ UNCHANGED vars => ResultsKept' /\ PassedSound'
    BY GroundedKept DEF vars, VInv, ResultsKept, PassedSound
  <2> QED  BY <2>1, <2>2, <2>3, CrashGrounds DEF Next, VInv
<1> QED  BY <1>1, <1>2, Invariance, PTL DEF Spec

\* Less than, as the relation over which the natural numbers are well-founded.
LEMMA LessIsRelated ==
    ASSUME NEW m \in Nat, NEW n \in Nat, m < n
    PROVE  <<m, n>> \in OpToRel(<, Nat)
<1>1. <<m, n>> \in Nat \X Nat
  OBVIOUS
<1>2. <<m, n>>[1] < <<m, n>>[2]
  OBVIOUS
<1> QED  BY <1>1, <1>2, Zenon DEF OpToRel

\* A set of steps that is not empty has a last one.
LEMMA LastStep ==
    ASSUME NEW S \in SUBSET StepNumbers, S # {}
    PROVE  \E s \in S : \A t \in S : t <= s
<1> DEFINE distances == {n \in Nat : \E s \in S : n = MaxSteps - s}
<1>1. MaxSteps \in Nat /\ \A s \in S : s \in Nat /\ s <= MaxSteps /\ MaxSteps - s \in distances
  BY SessionAssumption DEF StepNumbers
<1>2. PICK n \in distances : \A m \in distances : n <= m
  <2>1. distances \subseteq Nat /\ distances # {}
    BY <1>1
  <2> HIDE DEF distances
  <2>2. PICK n \in distances : \A m \in distances : <<m, n>> \notin OpToRel(<, Nat)
    BY <2>1, NatLessThanWellFounded, WFMin, ZenonT(30)
  <2>3. \A m \in distances : m \in Nat /\ n \in Nat /\ ~(m < n)
    BY <2>1, <2>2, LessIsRelated
  <2>4. \A m \in distances : n <= m
    BY <2>3
  <2> QED  BY <2>4
<1>3. PICK s \in S : n = MaxSteps - s
  BY <1>2
<1>4. \A t \in S : t <= s
  <2> SUFFICES ASSUME NEW t \in S PROVE t <= s
    OBVIOUS
  <2>1. MaxSteps - s <= MaxSteps - t
    BY <1>1, <1>2, <1>3
  <2> QED  BY <1>1, <2>1
<1> QED  BY <1>4

\* Evidence that has a role has it from the last result that showed it.
LEMMA RoleIsLast ==
    ASSUME NEW e, Role(e, Stored) # "none"
    PROVE  \E s \in {s \in Stored : e \in pages[s].found} :
               /\ \A t \in {t \in Stored : e \in pages[t].found} : t <= s
               /\ pages[s].purpose = Role(e, Stored)
<1> DEFINE shown == {s \in Stored : e \in pages[s].found}
<1>1. shown # {} /\ shown \in SUBSET StepNumbers
  BY DEF Role, Stored
<1>2. \E s \in shown : \A t \in shown : t <= s
  BY <1>1, LastStep
<1>3. Role(e, Stored) = pages[CHOOSE s \in shown : \A t \in shown : t <= s].purpose
  BY <1>1 DEF Role
<1> QED  BY <1>2, <1>3

\* A proposal that passed cites only what the session showed, each thing on the side
\* the last search showed it for (verify_terminal_action, _proposal_checks).
THEOREM PassedIsGrounded == Spec => []VerifiedIsGrounded
<1>1. VInv => VerifiedIsGrounded
  <2> SUFFICES ASSUME VInv, attempt.verdict = "passed", attempt.outcome = "proposal"
               PROVE  /\ \A e \in action.supporting \cup action.counter :
                            \E s \in {s \in Stored : e \in pages[s].found} :
                               /\ \A t \in {t \in Stored : e \in pages[t].found} : t <= s
                               /\ pages[s].purpose = "support" <=> e \in action.supporting
                      /\ action.counter = {} => action.search \in Stored
    BY DEF VerifiedIsGrounded
  <2>1. action.kind = "proposal" /\ Grounded(action, Stored)
    BY DEF VInv, PassedSound
  <2>2. action.supporting \cap action.counter = {}
    BY <2>1 DEF VInv, IInv, Types, Actions, Malformed, ToolCalls, Searches, Terminals, Proposals
  <2>3. ASSUME NEW e \in action.supporting \cup action.counter
        PROVE  \E s \in {s \in Stored : e \in pages[s].found} :
                  /\ \A t \in {t \in Stored : e \in pages[t].found} : t <= s
                  /\ pages[s].purpose = "support" <=> e \in action.supporting
    <3>1. CASE e \in action.supporting
      <4>1. Role(e, Stored) = "support"
        BY <2>1, <3>1 DEF Grounded
      <4> QED  BY <3>1, <4>1, RoleIsLast
    <3>2. CASE e \in action.counter
      <4>1. Role(e, Stored) = "challenge" /\ e \notin action.supporting
        BY <2>1, <2>2, <3>2 DEF Grounded
      <4> QED  BY <4>1, RoleIsLast
    <3> QED  BY <3>1, <3>2
  <2>4. action.counter = {} => action.search \in Stored
    BY <2>1 DEF Grounded
  <2> QED  BY <2>3, <2>4
<1> QED  BY <1>1, VInvariance, PTL

-----------------------------------------------------------------------------
(* What a final run holds *)

Ending == {"terminal", "complete", "verify", "record", "final"}

ToolFiles == {s \in StepNumbers : File("tool", s) \in files}

\* In the loop every step before this one has its round, its call and its result.
LoopExact ==
    at \in Looping =>
        /\ ~torn /\ Len(rounds) = host.step - 1 /\ host.kept = host.step - 1
        /\ host.results = 1..(host.step - 1)
        /\ ToolFiles = IF at \in {"call", "called"} THEN 1..host.step ELSE 1..(host.step - 1)

\* After it there is one round more, of the terminal action, and no call.
EndExact ==
    at \in Ending =>
        /\ ~torn /\ Len(rounds) = host.step /\ host.kept = host.step
        /\ host.results = 1..(host.step - 1) /\ ToolFiles = host.results
        /\ \A i \in DOMAIN rounds : rounds[i].called <=> i < host.step
        /\ rounds[host.step].kind = action.kind

\* The files the end of a session writes, in their order, and what they say.
FilesExact ==
    /\ at \in {"complete", "verify", "record", "final"} => Report(action.kind) \in files
    /\ at \in {"record", "final"} =>
           IF Report("passed") \in files THEN MayPass(rounds, ToolFiles)
           ELSE Report("rejected") \in files
    /\ at = "final" =>
           /\ attempt.outcome = action.kind
           /\ attempt.verdict = IF Report("passed") \in files THEN "passed" ELSE "failed"

\* A final report is the last but the summary, and is not one of a failure.
Sealed ==
    /\ at \in Looping \cup Ending => {Report("final"), Report("failed")} \cap files = {}
    /\ Report("final") \in files => at \notin {"failing", "failed"}
    /\ FinalRunReplays

FinalSound == LoopExact /\ EndExact /\ FilesExact /\ Sealed
FInv == VInv /\ FinalSound

\* A session that left the loop or its end without a final report has nothing to show.
LEMMA LeftUnsealed ==
    ASSUME Report("final") \notin files', at' \notin Looping \cup Ending
    PROVE  FinalSound'
BY DEF FinalSound, LoopExact, EndExact, FilesExact, Sealed, FinalRunReplays, Ending

\* The names of the files of a run differ.
LEMMA FinalIsItself ==
    /\ \A s : /\ Report("final") # File("request", s) /\ Report("failed") # File("request", s)
              /\ Report("final") # File("response", s) /\ Report("failed") # File("response", s)
              /\ Report("final") # File("tool", s) /\ Report("failed") # File("tool", s)
    /\ Report("final") # Report("inputs") /\ Report("failed") # Report("inputs")
    /\ Report("final") # Report("passed") /\ Report("failed") # Report("passed")
    /\ Report("final") # Report("rejected") /\ Report("failed") # Report("rejected")
    /\ Report("final") # Report("summary") /\ Report("failed") # Report("summary")
    /\ Report("final") # Report("failed") /\ Report("passed") # Report("rejected")
    /\ \A a \in Terminals : /\ Report("final") # Report(a.kind) /\ Report("failed") # Report(a.kind)
                            /\ Report("passed") # Report(a.kind)
                            /\ Report("rejected") # Report(a.kind)
BY TerminalKinds DEF Report, File

\* Only a request for a tool adds to the tool files.
LEMMA ToolFilesKept ==
    ASSUME NEW f, files' \subseteq files \cup {f}, files \subseteq files',
           \A s \in StepNumbers : f # File("tool", s)
    PROVE  ToolFiles' = ToolFiles
BY DEF ToolFiles

\* What the end of a session has in hand passes _rounds_valid when its trace is read.
LEMMA EndIsValid ==
    ASSUME FInv, at \in Ending
    PROVE  RoundsValid(rounds, ToolFiles) /\ rounds # <<>> /\ SubSeq(rounds, 1, host.kept) = rounds
<1>1. /\ \A i \in DOMAIN rounds : rounds[i].step = i /\ rounds[i].previous = i - 1
      /\ rounds \in RoundSeqs /\ host.step \in Nat /\ host.step >= 1
  BY DEF FInv, VInv, IInv, TraceIsComplete, Types, Hosts
<1>2. /\ Len(rounds) = host.step /\ ToolFiles = 1..(host.step - 1) /\ host.kept = host.step
      /\ \A i \in DOMAIN rounds : rounds[i].called <=> i < host.step
  BY DEF FInv, FinalSound, EndExact
<1>3. DOMAIN rounds = 1..host.step
  BY <1>1, <1>2 DEF RoundSeqs
<1>4. {rounds[i].step : i \in {j \in DOMAIN rounds : rounds[j].called}} = 1..(host.step - 1)
  BY <1>1, <1>2, <1>3
<1>5. rounds # <<>> /\ SubSeq(rounds, 1, host.kept) = rounds
  BY <1>1, <1>2, <1>3 DEF RoundSeqs
<1> QED  BY <1>1, <1>2, <1>4, <1>5 DEF RoundsValid

\* What a step of the loop has to show to go on in the loop.
LEMMA LoopSealed ==
    ASSUME at' \in Looping, LoopExact', {Report("final"), Report("failed")} \cap files' = {}
    PROVE  FinalSound'
BY DEF FinalSound, EndExact, FilesExact, Sealed, FinalRunReplays, Looping, InStep, Ending

\* And one of the end.
LEMMA EndSealed ==
    ASSUME at' \in Ending, EndExact', FilesExact',
           {Report("final"), Report("failed")} \cap files' = {}
    PROVE  FinalSound'
BY DEF FinalSound, LoopExact, Sealed, FinalRunReplays, Looping, InStep, Ending

\* A step of either that stores another file leaves both reports unwritten.
LEMMA Unsealed ==
    ASSUME FInv, at \in Looping \cup Ending, NEW f, f # Report("final"), f # Report("failed"),
           files' \subseteq files \cup {f}
    PROVE  {Report("final"), Report("failed")} \cap files' = {}
BY DEF FInv, FinalSound, Sealed

\* The first file is no result.
LEMMA PrepareInputsSeals == FInv /\ VInv' /\ PrepareInputs => FinalSound'
<1> SUFFICES ASSUME FInv, VInv', PrepareInputs PROVE FinalSound'
  OBVIOUS
<1>1. /\ at = "inputs" /\ host.step = 1 /\ files' \subseteq files \cup {Report("inputs")}
      /\ UNCHANGED <<host, rounds, torn>>
      /\ at' = "raised" \/ (at' = "loop" /\ files' = {Report("inputs")})
  BY DEF FInv, VInv, IInv, LoopSound, PrepareInputs, Proceeds
<1>2. {Report("final"), Report("failed")} \cap files' = {}
  BY <1>1, FinalIsItself, Unsealed DEF Looping
<1>3. CASE at' = "raised"
  BY <1>2, <1>3, LeftUnsealed DEF Looping, InStep, Ending
<1>4. CASE at' = "loop"
  <2>1. ToolFiles' = {} /\ 1..0 = {} /\ 1 - 1 = 0
    BY <1>1, <1>4 DEF ToolFiles, File, Report
  <2>2. LoopExact'
    BY <1>1, <1>4, <2>1 DEF FInv, FinalSound, LoopExact, Looping
  <2> QED  BY <1>2, <1>4, <2>2, LoopSealed DEF Looping
<1> QED  BY <1>1, <1>3, <1>4

\* A request is no result.
LEMMA BeginStepSeals == FInv /\ VInv' /\ BeginStep => FinalSound'
<1> SUFFICES ASSUME FInv, VInv', BeginStep PROVE FinalSound'
  OBVIOUS
<1>1. /\ at = "loop" /\ UNCHANGED <<host, rounds, torn>>
      /\ files' \subseteq files \cup {File("request", host.step)} /\ files \subseteq files'
      /\ at' \in {"unreachable", "failing", "generate", "except", "raised"}
  BY DEF BeginStep, Proceeds, Fails, Writes, Raises
<1>2. {Report("final"), Report("failed")} \cap files' = {}
  BY <1>1, FinalIsItself, Unsealed DEF Looping, InStep
<1>3. CASE at' \notin Looping
  BY <1>1, <1>2, <1>3, LeftUnsealed DEF Looping, InStep, Ending
<1>4. CASE at' \in Looping
  <2>1. ToolFiles' = ToolFiles
    <3>1. \A s \in StepNumbers : File("request", host.step) # File("tool", s)
      BY DEF File
    <3> QED  BY <1>1, <3>1, ToolFilesKept
  <2>2. LoopExact'
    BY <1>1, <1>4, <2>1 DEF FInv, FinalSound, LoopExact, Looping, InStep
  <2> QED  BY <1>2, <1>4, <2>2, LoopSealed
<1> QED  BY <1>3, <1>4

\* A response is no result.
LEMMA GenerateSeals == FInv /\ VInv' /\ Generate => FinalSound'
<1> SUFFICES ASSUME FInv, VInv', Generate PROVE FinalSound'
  OBVIOUS
<1>1. /\ at = "generate" /\ UNCHANGED <<host, rounds, torn>>
      /\ files' \subseteq files \cup {File("response", host.step)} /\ files \subseteq files'
      /\ at' \in {"parsed", "except", "raised"}
  BY DEF Generate, Writes, Proceeds, Raises
<1>2. {Report("final"), Report("failed")} \cap files' = {}
  BY <1>1, FinalIsItself, Unsealed DEF Looping, InStep
<1>3. CASE at' \notin Looping
  BY <1>1, <1>2, <1>3, LeftUnsealed DEF Looping, InStep, Ending
<1>4. CASE at' \in Looping
  <2>1. ToolFiles' = ToolFiles
    <3>1. \A s \in StepNumbers : File("response", host.step) # File("tool", s)
      BY DEF File
    <3> QED  BY <1>1, <3>1, ToolFilesKept
  <2>2. LoopExact'
    BY <1>1, <1>4, <2>1 DEF FInv, FinalSound, LoopExact, Looping, InStep
  <2> QED  BY <1>2, <1>4, <2>2, LoopSealed
<1> QED  BY <1>3, <1>4

\* A rejected action leaves the loop.
LEMMA RejectActionSeals == FInv /\ VInv' /\ RejectAction => FinalSound'
<1> SUFFICES ASSUME FInv, VInv', RejectAction PROVE FinalSound'
  OBVIOUS
<1>1. at = "parsed" /\ files' = files /\ at' \in {"failing", "except", "raised"}
  BY DEF RejectAction, Fails, AppendFails, Raises
<1>2. Report("final") \notin files'
  BY <1>1 DEF FInv, FinalSound, Sealed, Looping, InStep
<1> QED  BY <1>1, <1>2, LeftUnsealed DEF Looping, InStep, Ending

\* A tool file is stored for the step of the call.
LEMMA RequestToolSeals == FInv /\ VInv' /\ RequestTool => FinalSound'
<1> SUFFICES ASSUME FInv, VInv', RequestTool PROVE FinalSound'
  OBVIOUS
<1>1. /\ at = "parsed" /\ UNCHANGED <<rounds, torn>> /\ host' = Counted(host)
      /\ files' \subseteq files \cup {File("tool", host.step)}
      /\ at' \in {"except", "raised"}
         \/ (at' = "call" /\ files' = files \cup {File("tool", host.step)})
  BY DEF RequestTool, Writes, Proceeds, Raises
<1>2. {Report("final"), Report("failed")} \cap files' = {}
  BY <1>1, FinalIsItself, Unsealed DEF Looping, InStep
<1>3. CASE at' \in {"except", "raised"}
  BY <1>2, <1>3, LeftUnsealed DEF Looping, InStep, Ending
<1>4. CASE at' = "call" /\ files' = files \cup {File("tool", host.step)}
  <2>1. /\ host'.step = host.step /\ host'.kept = host.kept /\ host'.results = host.results
        /\ host.step \in Nat
    <3>1. host \in Hosts
      BY DEF FInv, VInv, IInv, Types
    <3> QED  BY <1>1, <3>1 DEF Hosts, Counted
  <2>2. /\ ~torn /\ Len(rounds) = host.step - 1 /\ host.kept = host.step - 1
        /\ host.results = 1..(host.step - 1) /\ ToolFiles = 1..(host.step - 1)
        /\ host.step \in StepNumbers
    BY <1>1 DEF FInv, VInv, IInv, FinalSound, LoopExact, LoopSound, Looping, InStep
  <2>3. ToolFiles' = ToolFiles \cup {host.step}
    BY <1>4, <2>2 DEF ToolFiles, File
  <2>4. ToolFiles' = 1..host.step
    <3>1. host.step >= 1
      BY DEF FInv, VInv, IInv, Types
    <3> QED  BY <2>1, <2>2, <2>3, <3>1
  <2>5. LoopExact'
    BY <1>1, <1>4, <2>1, <2>2, <2>4 DEF LoopExact
  <2> QED  BY <1>2, <1>4, <2>5, LoopSealed DEF Looping, InStep
<1> QED  BY <1>1, <1>3, <1>4

\* The result of a call is not yet at hand.
LEMMA CallToolSeals == FInv /\ VInv' /\ CallTool => FinalSound'
<1> SUFFICES ASSUME FInv, VInv', CallTool PROVE FinalSound'
  OBVIOUS
<1>1. /\ at = "call" /\ UNCHANGED <<rounds, torn, files>> /\ at' \in {"except", "raised", "called"}
      /\ host' = host \/ \E size \in 1..MaxStepBytes : host' = [host EXCEPT !.bytes = @ + size]
  BY DEF CallTool, Proceeds, Raises
<1>2. {Report("final"), Report("failed")} \cap files' = {}
  BY <1>1 DEF FInv, FinalSound, Sealed, Looping, InStep
<1>3. CASE at' \in {"except", "raised"}
  BY <1>2, <1>3, LeftUnsealed DEF Looping, InStep, Ending
<1>4. CASE at' = "called"
  <2>1. host'.step = host.step /\ host'.kept = host.kept /\ host'.results = host.results
    <3>1. host \in Hosts
      BY DEF FInv, VInv, IInv, Types
    <3> QED  BY <1>1, <3>1 DEF Hosts
  <2>2. ToolFiles' = ToolFiles
    BY <1>1 DEF ToolFiles
  <2>3. LoopExact'
    BY <1>1, <1>4, <2>1, <2>2 DEF FInv, FinalSound, LoopExact, Looping, InStep
  <2> QED  BY <1>2, <1>4, <2>3, LoopSealed DEF Looping, InStep
<1> QED  BY <1>1, <1>3, <1>4

\* With its round the result of a call is at hand.
LEMMA RecordCallSeals == FInv /\ VInv' /\ RecordCall => FinalSound'
<1> SUFFICES ASSUME FInv, VInv', RecordCall PROVE FinalSound'
  OBVIOUS
<1>1. /\ at = "called" /\ UNCHANGED files /\ at' \in {"except", "raised", "failing", "loop"}
  BY DEF RecordCall, Proceeds, Fails, AppendFails, Raises
<1>2. {Report("final"), Report("failed")} \cap files' = {}
  BY <1>1 DEF FInv, FinalSound, Sealed, Looping, InStep
<1>3. CASE at' # "loop"
  BY <1>1, <1>2, <1>3, LeftUnsealed DEF Looping, InStep, Ending
<1>4. CASE at' = "loop"
  <2>1. /\ torn' = torn
        /\ rounds' = Append(rounds, Round(TRUE))
        /\ host' = [host EXCEPT !.kept = @ + 1, !.calls = @ + 1, !.step = @ + 1,
                                !.results = @ \cup {host.step}]
    BY <1>4 DEF RecordCall, Appended, AppendFails, Raises
  <2>2. host \in Hosts /\ host.step >= 1 /\ rounds \in RoundSeqs
    BY DEF FInv, VInv, IInv, Types
  <2>3. /\ host'.step = host.step + 1 /\ host'.kept = host.kept + 1
        /\ host'.results = host.results \cup {host.step} /\ host.step \in Nat
    BY <2>1, <2>2 DEF Hosts
  <2>4. Len(rounds') = Len(rounds) + 1
    BY <2>1, <2>2 DEF RoundSeqs
  <2>5. /\ ~torn /\ Len(rounds) = host.step - 1 /\ host.kept = host.step - 1
        /\ host.results = 1..(host.step - 1) /\ ToolFiles = 1..host.step
    BY <1>1 DEF FInv, FinalSound, LoopExact, Looping, InStep
  <2>6. ToolFiles' = ToolFiles
    BY <1>1 DEF ToolFiles
  <2>7. /\ Len(rounds') = host'.step - 1 /\ host'.kept = host'.step - 1
        /\ host'.results = 1..(host'.step - 1) /\ ToolFiles' = 1..(host'.step - 1)
    BY <2>2, <2>3, <2>4, <2>5, <2>6
  <2>8. LoopExact'
    BY <1>4, <2>1, <2>5, <2>7 DEF LoopExact
  <2> QED  BY <1>2, <1>4, <2>8, LoopSealed DEF Looping
<1> QED  BY <1>3, <1>4

\* The last round is of the action in hand.
LEMMA RecordTerminalSeals == FInv /\ VInv' /\ RecordTerminal => FinalSound'
<1> SUFFICES ASSUME FInv, VInv', RecordTerminal PROVE FinalSound'
  OBVIOUS
<1>1. /\ at = "parsed" /\ UNCHANGED <<files, action>> /\ at' \in {"except", "raised", "terminal"}
  BY DEF RecordTerminal, Proceeds, AppendFails, Raises
<1>2. {Report("final"), Report("failed")} \cap files' = {}
  BY <1>1 DEF FInv, FinalSound, Sealed, Looping, InStep
<1>3. CASE at' # "terminal"
  BY <1>1, <1>2, <1>3, LeftUnsealed DEF Looping, InStep, Ending
<1>4. CASE at' = "terminal"
  <2>1. /\ torn' = torn /\ rounds' = Append(rounds, Round(FALSE))
        /\ host' = [host EXCEPT !.kept = @ + 1]
    BY <1>4 DEF RecordTerminal, Appended, AppendFails, Raises
  <2>2. host \in Hosts /\ host.step >= 1 /\ rounds \in RoundSeqs
    BY DEF FInv, VInv, IInv, Types
  <2>3. /\ host'.step = host.step /\ host'.kept = host.kept + 1 /\ host'.results = host.results
        /\ host.step \in Nat
    BY <2>1, <2>2 DEF Hosts
  <2>4. /\ ~torn /\ Len(rounds) = host.step - 1 /\ host.kept = host.step - 1
        /\ host.results = 1..(host.step - 1) /\ ToolFiles = host.results
        /\ \A i \in DOMAIN rounds : rounds[i].called
    BY <1>1 DEF FInv, VInv, IInv, FinalSound, LoopExact, LoopSound, Looping, InStep
  <2> DEFINE r == Round(FALSE)
  <2>5. ~r.called /\ r.kind = action.kind
    BY DEF Round
  <2> HIDE DEF r
  <2>6. /\ Len(rounds') = host.step /\ DOMAIN rounds = 1..(host.step - 1)
        /\ DOMAIN rounds' = 1..host.step /\ rounds'[host.step] = r
        /\ \A i \in 1..(host.step - 1) : rounds'[i] = rounds[i]
    <3>1. rounds' = Append(rounds, r)
      BY <2>1 DEF r
    <3> QED  BY <2>2, <2>3, <2>4, <3>1 DEF RoundSeqs
  <2>7. \A i \in DOMAIN rounds' : rounds'[i].called <=> i < host.step
    <3> SUFFICES ASSUME NEW i \in DOMAIN rounds'
                 PROVE  rounds'[i].called <=> i < host.step
      OBVIOUS
    <3>1. CASE i = host.step
      BY <2>3, <2>5, <2>6, <3>1
    <3>2. CASE i # host.step
      <4>1. i \in 1..(host.step - 1) /\ i < host.step
        BY <2>3, <2>6, <3>2
      <4>2. rounds'[i] = rounds[i] /\ rounds[i].called
        BY <2>4, <2>6, <4>1
      <4> QED  BY <4>1, <4>2
    <3> QED  BY <3>1, <3>2
  <2>8. ToolFiles' = ToolFiles
    BY <1>1 DEF ToolFiles
  <2>9. host'.kept = host.step
    BY <2>3, <2>4
  <2>10. EndExact'
    BY <1>1, <2>1, <2>3, <2>4, <2>5, <2>6, <2>7, <2>8, <2>9 DEF EndExact
  <2>11. FilesExact'
    BY <1>4 DEF FilesExact
  <2> QED  BY <1>2, <1>4, <2>10, <2>11, EndSealed DEF Ending
<1> QED  BY <1>3, <1>4

\* Whether a verification may pass depends on the action, the rounds and the results.
LEMMA MayPassKept ==
    ASSUME UNCHANGED <<action, pages, rounds>>, ToolFiles' = ToolFiles
    PROVE  MayPass(rounds, ToolFiles)' <=> MayPass(rounds, ToolFiles)
BY DEF MayPass, RoundsValid, Grounded, Role, Challenges

\* What a final report promises.
Replays ==
    /\ RoundsReplay /\ StoredRunVerifies
    /\ rounds[Len(rounds)].kind = attempt.outcome /\ Report(attempt.outcome) \in files
    /\ Report("failed") \notin files

\* It holds when the report is about to be written.
LEMMA FinalReplays ==
    ASSUME FInv, at = "final"
    PROVE  Replays
<1>1. /\ ~torn /\ Len(rounds) = host.step /\ rounds[host.step].kind = action.kind
      /\ Report(action.kind) \in files /\ attempt.outcome = action.kind
      /\ attempt.verdict = IF Report("passed") \in files THEN "passed" ELSE "failed"
      /\ IF Report("passed") \in files THEN MayPass(rounds, ToolFiles)
         ELSE Report("rejected") \in files
      /\ Report("failed") \notin files
  BY DEF FInv, FinalSound, EndExact, FilesExact, Sealed, Ending
<1>2. RoundsValid(rounds, ToolFiles) /\ rounds # <<>>
  BY EndIsValid DEF Ending
<1>3. RoundsReplay
  BY <1>1, <1>2 DEF FInv, VInv, IInv, TraceIsComplete, RoundsReplay
<1>4. Report(IF Report("proposal") \in files THEN "proposal" ELSE "abstention") \in files
  <2>1. attempt.outcome \in {"proposal", "abstention"}
    BY <1>1 DEF FInv, VInv, IInv, AttemptSound
  <2> QED  BY <1>1, <2>1
<1>5. StoredRunVerifies
  BY <1>1, <1>2, <1>4 DEF StoredRunVerifies, ToolFiles
<1> QED  BY <1>1, <1>3, <1>5 DEF Replays

\* And goes on to hold while only the final report and the summary are written.
LEMMA ReplaysKept ==
    ASSUME Replays, UNCHANGED <<action, pages, rounds, torn, attempt>>, files \subseteq files',
           files' \subseteq files \cup {Report("final"), Report("summary")}
    PROVE  Replays'
<1>1. \A s : File("tool", s) \in files' <=> File("tool", s) \in files
  BY DEF File, Report
<1>2. /\ Report("proposal") \in files' <=> Report("proposal") \in files
      /\ Report("failed") \notin files'
  BY DEF Replays, File, Report
<1>3. ToolFiles' = ToolFiles
  BY <1>1 DEF ToolFiles
<1>4. RoundsReplay'
  BY DEF Replays, RoundsReplay
<1>5. StoredRunVerifies'
  <2>1. Report(IF Report("proposal") \in files' THEN "proposal" ELSE "abstention") \in files'
    BY <1>2 DEF Replays, StoredRunVerifies
  <2>2. MayPass(rounds, ToolFiles)' <=> MayPass(rounds, ToolFiles)
    BY <1>3, MayPassKept
  <2>3. RoundsValid(rounds, ToolFiles)' <=> RoundsValid(rounds, ToolFiles)
    BY <1>3 DEF RoundsValid
  <2>4. \/ Report("passed") \in files /\ MayPass(rounds, ToolFiles) /\ attempt.verdict = "passed"
        \/ Report("rejected") \in files /\ RoundsValid(rounds, ToolFiles)
           /\ attempt.verdict = "failed"
    BY DEF Replays, StoredRunVerifies, ToolFiles
  <2>5. \/ /\ Report("passed") \in files' /\ MayPass(rounds, ToolFiles)'
           /\ attempt'.verdict = "passed"
        \/ /\ Report("rejected") \in files' /\ RoundsValid(rounds, ToolFiles)'
           /\ attempt'.verdict = "failed"
    BY <2>2, <2>3, <2>4
  <2> QED  BY <2>1, <2>5 DEF StoredRunVerifies, ToolFiles
<1> QED  BY <1>2, <1>4, <1>5 DEF Replays

\* After its end a session keeps what its report promises.
LEMMA AfterSealed ==
    ASSUME FInv, UNCHANGED <<action, pages, rounds, torn, attempt>>, files \subseteq files',
           files' \subseteq files \cup {Report("summary")},
           at' \notin Looping \cup Ending,
           Report("final") \in files => at' \notin {"failing", "failed"}
    PROVE  FinalSound'
<1>1. CASE Report("final") \notin files
  <2>1. Report("final") \notin files'
    BY <1>1, FinalIsItself
  <2> QED  BY <2>1, LeftUnsealed
<1>2. CASE Report("final") \in files
  <2>1. Replays
    BY <1>2 DEF FInv, FinalSound, Sealed, FinalRunReplays, Replays
  <2>2. Replays'
    BY <2>1, ReplaysKept
  <2>3. Sealed'
    BY <1>2, <2>2 DEF Sealed, FinalRunReplays, Replays
  <2> QED  BY <2>3 DEF FinalSound, LoopExact, EndExact, FilesExact, Ending
<1> QED  BY <1>1, <1>2

\* The terminal action is stored before the attempt is completed.
LEMMA WriteTerminalSeals == FInv /\ VInv' /\ WriteTerminal => FinalSound'
<1> SUFFICES ASSUME FInv, VInv', WriteTerminal PROVE FinalSound'
  OBVIOUS
<1>1. /\ at = "terminal" /\ UNCHANGED <<host, action, rounds, torn>> /\ action \in Terminals
      /\ files' \subseteq files \cup {Report(action.kind)} /\ files \subseteq files'
      /\ at' \in {"complete", "except", "raised"}
      /\ at' = "complete" => Report(action.kind) \in files'
  BY DEF WriteTerminal, Writes, Proceeds, Raises, FInv, VInv, IInv, AttemptSound
<1>2. {Report("final"), Report("failed")} \cap files' = {}
  BY <1>1, FinalIsItself, Unsealed DEF Ending
<1>3. CASE at' # "complete"
  BY <1>1, <1>2, <1>3, LeftUnsealed DEF Looping, InStep, Ending
<1>4. CASE at' = "complete"
  <2>1. \A s \in StepNumbers : Report(action.kind) # File("tool", s)
    BY <1>1, TerminalKinds DEF Report, File
  <2>2. ToolFiles' = ToolFiles
    BY <1>1, <2>1, ToolFilesKept
  <2>3. EndExact' /\ FilesExact'
    BY <1>1, <1>4, <2>2 DEF FInv, FinalSound, EndExact, FilesExact, Ending
  <2> QED  BY <1>2, <1>4, <2>3, EndSealed DEF Ending
<1> QED  BY <1>3, <1>4

\* The attempt is completed with its terminal action stored.
LEMMA CompleteAttemptSeals == FInv /\ VInv' /\ CompleteAttempt => FinalSound'
<1> SUFFICES ASSUME FInv, VInv', CompleteAttempt PROVE FinalSound'
  OBVIOUS
<1>1. /\ at = "complete" /\ UNCHANGED <<host, action, files, pages, rounds, torn>>
      /\ at' \in {"verify", "except", "raised"}
  BY DEF CompleteAttempt, Registers, Proceeds, Raises, trace
<1>2. {Report("final"), Report("failed")} \cap files' = {}
  BY <1>1 DEF FInv, FinalSound, Sealed, Ending
<1>3. CASE at' # "verify"
  BY <1>1, <1>2, <1>3, LeftUnsealed DEF Looping, InStep, Ending
<1>4. CASE at' = "verify"
  <2>1. EndExact' /\ FilesExact'
    BY <1>1, <1>4 DEF FInv, FinalSound, EndExact, FilesExact, Ending, ToolFiles
  <2> QED  BY <1>2, <1>4, <2>1, EndSealed DEF Ending
<1> QED  BY <1>1, <1>3, <1>4

\* What passes would pass when the run is read again.
LEMMA VerifyTerminalSeals == FInv /\ VInv' /\ VerifyTerminal => FinalSound'
<1> SUFFICES ASSUME FInv, VInv', VerifyTerminal PROVE FinalSound'
  OBVIOUS
<1> PICK passed \in BOOLEAN :
        /\ passed => MayPass(SubSeq(rounds, 1, host.kept), host.results)
        /\ Writes(Report(IF passed THEN "passed" ELSE "rejected"), "record")
  BY DEF VerifyTerminal
<1> DEFINE f == Report(IF passed THEN "passed" ELSE "rejected")
<1>1. /\ at = "verify" /\ UNCHANGED <<host, action, pages, rounds, torn, attempt>>
      /\ files' \subseteq files \cup {f} /\ files \subseteq files'
      /\ at' \in {"record", "except", "raised"} /\ (at' = "record" => f \in files')
  BY DEF VerifyTerminal, Writes, Proceeds, Raises
<1>2. f # Report("final") /\ f # Report("failed") /\ \A s \in StepNumbers : f # File("tool", s)
  BY DEF Report, File
<1> HIDE DEF f
<1>3. {Report("final"), Report("failed")} \cap files' = {}
  BY <1>1, <1>2, Unsealed DEF Ending
<1>4. CASE at' # "record"
  BY <1>1, <1>3, <1>4, LeftUnsealed DEF Looping, InStep, Ending
<1>5. CASE at' = "record"
  <2>1. ToolFiles' = ToolFiles /\ ToolFiles = host.results
    BY <1>1, <1>2, ToolFilesKept DEF FInv, FinalSound, EndExact, Ending
  <2>2. Report("passed") \notin files
    BY <1>1 DEF FInv, VInv, PassedSound
  <2>3. IF Report("passed") \in files' THEN passed ELSE Report("rejected") \in files'
    BY <1>1, <1>5, <2>2, FinalIsItself DEF f
  <2>4. SubSeq(rounds, 1, host.kept) = rounds
    BY <1>1, EndIsValid DEF Ending
  <2>5. Report("passed") \in files' => MayPass(rounds, ToolFiles)'
    BY <1>1, <2>1, <2>3, <2>4, MayPassKept
  <2>6. EndExact'
    BY <1>1, <1>5, <2>1 DEF FInv, FinalSound, EndExact, Ending
  <2>7. FilesExact'
    BY <1>1, <1>5, <2>3, <2>5 DEF FInv, FinalSound, FilesExact
  <2> QED  BY <1>3, <1>5, <2>6, <2>7, EndSealed DEF Ending
<1> QED  BY <1>4, <1>5

\* The verdict recorded is the one stored.
LEMMA RecordVerificationSeals == FInv /\ VInv' /\ RecordVerification => FinalSound'
<1> SUFFICES ASSUME FInv, VInv', RecordVerification PROVE FinalSound'
  OBVIOUS
<1>1. /\ at = "record" /\ UNCHANGED <<host, action, files, pages, rounds, torn>>
      /\ at' \in {"final", "except", "raised"} /\ attempt.outcome = action.kind
      /\ at' = "final" =>
            attempt' = [attempt EXCEPT !.verdict = IF Report("passed") \in files
                                                   THEN "passed" ELSE "failed"]
  BY DEF RecordVerification, Registers, Proceeds, Raises, trace, FInv, VInv, IInv, AttemptSound
<1>2. {Report("final"), Report("failed")} \cap files' = {}
  BY <1>1 DEF FInv, FinalSound, Sealed, Ending
<1>3. CASE at' # "final"
  BY <1>1, <1>2, <1>3, LeftUnsealed DEF Looping, InStep, Ending
<1>4. CASE at' = "final"
  <2>1. /\ attempt'.outcome = action.kind
        /\ attempt'.verdict = IF Report("passed") \in files THEN "passed" ELSE "failed"
    BY <1>1, <1>4 DEF FInv, VInv, IInv, Types
  <2>2. ToolFiles' = ToolFiles
    BY <1>1 DEF ToolFiles
  <2>3. MayPass(rounds, ToolFiles)' <=> MayPass(rounds, ToolFiles)
    BY <1>1, <2>2, MayPassKept
  <2>4. EndExact'
    BY <1>1, <1>4, <2>2 DEF FInv, FinalSound, EndExact, Ending
  <2>5. FilesExact'
    BY <1>1, <1>4, <2>1, <2>3 DEF FInv, FinalSound, FilesExact
  <2> QED  BY <1>2, <1>4, <2>4, <2>5, EndSealed DEF Ending
<1> QED  BY <1>1, <1>3, <1>4

\* The final report is written when all it promises is there.
LEMMA WriteFinalSeals == FInv /\ VInv' /\ WriteFinal => FinalSound'
<1> SUFFICES ASSUME FInv, VInv', WriteFinal PROVE FinalSound'
  OBVIOUS
<1>1. /\ at = "final" /\ UNCHANGED <<action, pages, rounds, torn, attempt>>
      /\ files' \subseteq files \cup {Report("final")} /\ files \subseteq files'
      /\ at' \in {"summary", "except", "raised"}
  BY DEF WriteFinal, Writes, Proceeds, Raises
<1>2. Replays'
  BY <1>1, FinalReplays, ReplaysKept
<1>3. Sealed'
  BY <1>1, <1>2 DEF Sealed, FinalRunReplays, Replays, Looping, InStep, Ending
<1> QED  BY <1>1, <1>3 DEF FinalSound, LoopExact, EndExact, FilesExact, Looping, InStep, Ending

\* The summary adds a file no promise is about.
LEMMA WriteSummarySeals == FInv /\ VInv' /\ WriteSummary => FinalSound'
<1> SUFFICES ASSUME FInv, VInv', WriteSummary PROVE FinalSound'
  OBVIOUS
<1>1. /\ UNCHANGED <<action, pages, rounds, torn, attempt>>
      /\ files' \subseteq files \cup {Report("summary")} /\ files \subseteq files'
      /\ at' \in {"returned", "except", "raised"}
  BY DEF WriteSummary, Writes, Proceeds, Raises
<1> QED  BY <1>1, AfterSealed DEF Looping, InStep, Ending

\* A session that fails has no final report.
LEMMA FailAttemptSeals == FInv /\ VInv' /\ FailAttempt => FinalSound'
<1> SUFFICES ASSUME FInv, VInv', FailAttempt PROVE FinalSound'
  OBVIOUS
<1>1. at = "failing" /\ files' = files /\ at' \in {"failed", "except", "raised"}
  BY DEF FailAttempt, Registers, Proceeds, Raises, trace
<1>2. Report("final") \notin files'
  BY <1>1 DEF FInv, FinalSound, Sealed
<1> QED  BY <1>1, <1>2, LeftUnsealed DEF Looping, InStep, Ending

\* Nor does its report of the failure make one.
LEMMA WriteFailedSeals == FInv /\ VInv' /\ WriteFailed => FinalSound'
<1> SUFFICES ASSUME FInv, VInv', WriteFailed PROVE FinalSound'
  OBVIOUS
<1>1. /\ at = "failed" /\ files' \subseteq files \cup {Report("failed")}
      /\ at' \in {"summary", "except", "raised"}
  BY DEF WriteFailed, Writes, Proceeds, Raises
<1>2. Report("final") \notin files'
  BY <1>1, FinalIsItself DEF FInv, FinalSound, Sealed
<1> QED  BY <1>1, <1>2, LeftUnsealed DEF Looping, InStep, Ending

\* The except clause does not fail a session with a final report.
LEMMA RecoverSeals == FInv /\ VInv' /\ Recover => FinalSound'
<1> SUFFICES ASSUME FInv, VInv', Recover PROVE FinalSound'
  OBVIOUS
<1>1. /\ UNCHANGED <<action, files, pages, rounds, torn, attempt>> /\ at' \in {"failing", "raised"}
      /\ at' = "failing" => attempt.outcome = "none"
  BY DEF Recover, trace
<1>2. Report("final") \in files => attempt.outcome # "none"
  <2> SUFFICES ASSUME Report("final") \in files PROVE attempt.outcome # "none"
    OBVIOUS
  <2>1. attempt.verdict \in {"passed", "failed"}
    BY DEF FInv, FinalSound, Sealed, FinalRunReplays, StoredRunVerifies
  <2> QED  BY <2>1 DEF FInv, VInv, IInv, AttemptSound
<1> QED  BY <1>1, <1>2, AfterSealed DEF Looping, InStep, Ending

\* A crash leaves everything stored as it is.
LEMMA CrashSeals == FInv /\ VInv' /\ Crash => FinalSound'
<1> SUFFICES ASSUME FInv, VInv', Crash PROVE FinalSound'
  OBVIOUS
<1> QED  BY AfterSealed DEF Crash, Looping, InStep, Ending

\* Every step keeps what a final run holds.
LEMMA FInvariance == Spec => []FInv
<1>1. Init /\ VInv => FInv
  <2> SUFFICES ASSUME Init, VInv PROVE FInv
    OBVIOUS
  <2>1. ToolFiles = {} /\ 1..0 = {} /\ 1 - 1 = 0 /\ Len(rounds) = 0
    BY DEF Init, ToolFiles
  <2>2. LoopExact
    BY <2>1 DEF Init, LoopExact, Looping
  <2>3. EndExact /\ FilesExact /\ Sealed
    BY DEF Init, EndExact, FilesExact, Sealed, FinalRunReplays, Ending
  <2> QED  BY <2>2, <2>3 DEF FInv, FinalSound
<1>2. FInv /\ VInv' /\ [Next]_vars => FInv'
  <2>1. FInv /\ VInv' /\ Loop => FinalSound'
    BY PrepareInputsSeals, BeginStepSeals, GenerateSeals, RejectActionSeals, RequestToolSeals,
       CallToolSeals, RecordCallSeals, RecordTerminalSeals DEF Loop
  <2>2. FInv /\ VInv' /\ End => FinalSound'
    BY WriteTerminalSeals, CompleteAttemptSeals, VerifyTerminalSeals, RecordVerificationSeals,
       WriteFinalSeals, WriteSummarySeals, FailAttemptSeals, WriteFailedSeals,
     RecoverSeals DEF End
  <2>3. FInv /\ UNCHANGED vars => FinalSound'
    <3> SUFFICES ASSUME FInv, UNCHANGED vars PROVE FinalSound'
      OBVIOUS
    <3>1. ToolFiles' = ToolFiles /\ (MayPass(rounds, ToolFiles)' <=> MayPass(rounds, ToolFiles))
      BY MayPassKept DEF ToolFiles, vars
    <3>2. LoopExact' /\ EndExact' /\ FilesExact'
      BY <3>1 DEF FInv, FinalSound, LoopExact, EndExact, FilesExact, vars
    <3>3. FinalRunReplays'
      <4>1. Replays => Replays'
        BY ReplaysKept DEF vars
      <4> QED  BY <4>1 DEF FInv, FinalSound, Sealed, FinalRunReplays, Replays, vars
    <3>4. Sealed'
      BY <3>3 DEF FInv, FinalSound, Sealed, vars
    <3> QED  BY <3>2, <3>4 DEF FinalSound
  <2> QED  BY <2>1, <2>2, <2>3, CrashSeals DEF Next, FInv
<1> QED  BY <1>1, <1>2, VInvariance, PTL DEF Spec

\* A run that says it is final can be replayed and verified from what is stored, with
\* the verdict it was given, whatever failed and wherever the process ended
\* (replay_agent_run, verify_stored_run, run_research_agent).
THEOREM FinalRunsReplay == Spec => []FinalRunReplays
<1>1. FInv => FinalRunReplays
  BY DEF FInv, FinalSound, Sealed
<1> QED  BY <1>1, FInvariance, PTL

-----------------------------------------------------------------------------
(* The limits of a session: counting rounds *)

CallsOf(rs) == {i \in DOMAIN rs : rs[i].called}
KindOf(rs, kind) == {i \in CallsOf(rs) : rs[i].kind = kind}

\* The limits, whatever becomes of the session.
Bounded ==
    /\ Cardinality(CallsOf(rounds)) <= MaxToolCalls /\ Len(rounds) <= MaxSteps
    /\ Cardinality(KindOf(rounds, "search")) <= MaxPages
    /\ Cardinality(KindOf(rounds, "metrics")) <= MaxReads
    /\ host.bytes <= MaxRunBytes
    /\ at # "unreachable"

\* A call that was requested and has no round yet.
Outstanding(kind) == IF at \in {"call", "called"} /\ action.kind = kind THEN 1 ELSE 0

\* In the loop the counters in memory are ahead of the rounds by the open call only,
\* and within the limits.
CountsSound ==
    at \in Looping =>
        /\ host.calls = host.step - 1 /\ host.step - 1 <= MaxToolCalls
        /\ at \in {"call", "called"} => host.step - 1 < MaxToolCalls
        /\ Cardinality(KindOf(rounds, "search")) + Outstanding("search") <= host.searches
        /\ Cardinality(KindOf(rounds, "metrics")) + Outstanding("metrics") <= host.reads
        /\ host.searches <= MaxPages /\ host.reads <= MaxReads

LInv == FInv /\ Bounded /\ CountsSound

\* The sets that are counted are finite.
LEMMA CountsAreNumbers ==
    ASSUME rounds \in RoundSeqs, NEW kind
    PROVE  /\ IsFiniteSet(CallsOf(rounds)) /\ Cardinality(CallsOf(rounds)) \in Nat
           /\ IsFiniteSet(KindOf(rounds, kind)) /\ Cardinality(KindOf(rounds, kind)) \in Nat
<1>1. DOMAIN rounds = 1..Len(rounds) /\ Len(rounds) \in Nat
  BY DEF RoundSeqs
<1>2. IsFiniteSet(1..Len(rounds))
  BY <1>1, FS_Interval
<1>3. IsFiniteSet(CallsOf(rounds)) /\ IsFiniteSet(KindOf(rounds, kind))
  <2>1. CallsOf(rounds) \subseteq 1..Len(rounds)
    BY <1>1 DEF CallsOf
  <2>2. KindOf(rounds, kind) \subseteq 1..Len(rounds)
    BY <2>1 DEF KindOf
  <2> QED  BY <1>2, <2>1, <2>2, FS_Subset
<1> QED  BY <1>3, FS_CardinalityType

\* In the loop every round is of a call.
LEMMA AllAreCalls ==
    ASSUME FInv, at \in Looping
    PROVE  Cardinality(CallsOf(rounds)) = host.step - 1 /\ Len(rounds) = host.step - 1
           /\ host.step \in Nat \ {0}
<1>1. /\ Len(rounds) = host.step - 1 /\ host.step \in Nat \ {0}
      /\ \A i \in DOMAIN rounds : rounds[i].called
  BY DEF FInv, FinalSound, LoopExact, VInv, IInv, LoopSound, Types, Hosts
<1>2. DOMAIN rounds = 1..Len(rounds)
  BY DEF FInv, VInv, IInv, Types, RoundSeqs
<1>3. CallsOf(rounds) = 1..(host.step - 1)
  BY <1>1, <1>2 DEF CallsOf
<1>4. Cardinality(1..(host.step - 1)) = host.step - 1
  <2>1. 1 \in Int /\ host.step - 1 \in Int /\ (1 > host.step - 1 => host.step - 1 = 0)
    BY <1>1
  <2>2. Cardinality(1..(host.step - 1)) = IF 1 > host.step - 1 THEN 0 ELSE host.step - 1 - 1 + 1
    BY <2>1, FS_Interval
  <2> QED  BY <1>1, <2>1, <2>2
<1> QED  BY <1>1, <1>3, <1>4

\* What an appended round adds to the counts.
LEMMA RoundCounts ==
    ASSUME rounds \in RoundSeqs, NEW called \in BOOLEAN, Appended(Round(called)), NEW kind
    PROVE  /\ Cardinality(CallsOf(rounds')) = Cardinality(CallsOf(rounds))
                                              + IF called THEN 1 ELSE 0
           /\ Cardinality(KindOf(rounds', kind)) = Cardinality(KindOf(rounds, kind))
                                    + IF called /\ action.kind = kind THEN 1 ELSE 0
<1> DEFINE r == Round(called)
           n == Len(rounds) + 1
<1>1. r.called = called /\ r.kind = action.kind
  BY DEF Round
<1>2. rounds' = Append(rounds, r)
  BY DEF Appended
<1> HIDE DEF r
<1>3. /\ DOMAIN rounds' = DOMAIN rounds \cup {n} /\ rounds'[n] = r /\ n \notin DOMAIN rounds
      /\ \A i \in DOMAIN rounds : rounds'[i] = rounds[i]
  BY <1>2 DEF RoundSeqs
<1> HIDE DEF n
<1>4. /\ CallsOf(rounds') = IF called THEN CallsOf(rounds) \cup {n} ELSE CallsOf(rounds)
      /\ KindOf(rounds', kind) = IF called /\ action.kind = kind THEN KindOf(rounds, kind) \cup {n}
                                 ELSE KindOf(rounds, kind)
      /\ n \notin CallsOf(rounds) /\ n \notin KindOf(rounds, kind)
  BY <1>1, <1>3 DEF CallsOf, KindOf
<1>5. /\ IsFiniteSet(CallsOf(rounds)) /\ Cardinality(CallsOf(rounds)) \in Nat
      /\ IsFiniteSet(KindOf(rounds, kind)) /\ Cardinality(KindOf(rounds, kind)) \in Nat
  BY CountsAreNumbers
<1>6. /\ Cardinality(CallsOf(rounds) \cup {n}) = Cardinality(CallsOf(rounds)) + 1
      /\ Cardinality(KindOf(rounds, kind) \cup {n}) = Cardinality(KindOf(rounds, kind)) + 1
  BY <1>4, <1>5, FS_AddElement
<1> QED  BY <1>4, <1>5, <1>6

-----------------------------------------------------------------------------
(* The steps *)

\* The counts and limits are numbers.
LEMMA LimitTypes ==
    ASSUME LInv
    PROVE  /\ rounds \in RoundSeqs /\ host \in Hosts /\ host.step \in Nat \ {0} /\ host.calls \in Nat
           /\ host.searches \in Nat /\ host.reads \in Nat /\ host.bytes \in Nat
           /\ MaxSteps \in Nat /\ MaxToolCalls \in Nat /\ MaxToolCalls < MaxSteps /\ MaxPages \in Nat
           /\ MaxReads \in Nat /\ Len(rounds) \in Nat
           /\ Cardinality(KindOf(rounds, "search")) \in Nat
           /\ Cardinality(KindOf(rounds, "metrics")) \in Nat
           /\ Cardinality(CallsOf(rounds)) \in Nat
<1>1. rounds \in RoundSeqs /\ host \in Hosts /\ host.step >= 1
  BY DEF LInv, FInv, VInv, IInv, Types
<1>2. Len(rounds) \in Nat
  BY <1>1 DEF RoundSeqs
<1>3. host.step \in Nat /\ host.calls \in Nat /\ host.searches \in Nat /\ host.reads \in Nat
      /\ host.bytes \in Nat
  BY <1>1 DEF Hosts
<1>4. \A kind : /\ Cardinality(KindOf(rounds, kind)) \in Nat
                /\ Cardinality(CallsOf(rounds)) \in Nat
  BY <1>1, CountsAreNumbers
<1> QED  BY <1>1, <1>2, <1>3, <1>4, SessionAssumption

\* A step out of the loop that appends nothing.
LEMMA LeavesCounts ==
    ASSUME LInv, rounds' = rounds, host'.bytes = host.bytes,
           at' \notin Looping \cup {"unreachable"}
    PROVE  Bounded' /\ CountsSound'
BY DEF LInv, Bounded, CountsSound, CallsOf, KindOf

\* A step of the loop that counts nothing.
LEMMA StaysCounted ==
    ASSUME LInv, UNCHANGED <<rounds, host>>, {at, at'} \subseteq Looping \ {"call", "called"}
    PROVE  Bounded' /\ CountsSound'
BY LimitTypes DEF LInv, Bounded, CountsSound, Outstanding, CallsOf, KindOf, Looping, InStep

\* A round that fits is within the limits.
LEMMA AppendBounded ==
    ASSUME LInv, NEW called \in BOOLEAN, at \in {"parsed", "called"}, called => at = "called",
           Fits(Round(called)), Appended(Round(called)), host'.bytes = host.bytes,
           at' # "unreachable"
    PROVE  Bounded'
<1>1. at \in Looping
  BY DEF Looping, InStep
<1>2. /\ Cardinality(CallsOf(rounds)) = host.step - 1 /\ Len(rounds) = host.step - 1
      /\ host.step \in Nat \ {0}
  BY <1>1, AllAreCalls DEF LInv
<1>3. host.step <= MaxSteps
  BY SessionAssumption DEF LInv, FInv, VInv, IInv, LoopSound, InStep, StepNumbers
<1>4. Len(rounds') = Len(rounds) + 1
  BY LimitTypes DEF Appended, RoundSeqs
<1>5. /\ called => host.step - 1 < MaxToolCalls
      /\ Cardinality(KindOf(rounds, "search"))
            + (IF called /\ action.kind = "search" THEN 1 ELSE 0) <= MaxPages
      /\ Cardinality(KindOf(rounds, "metrics"))
            + (IF called /\ action.kind = "metrics" THEN 1 ELSE 0) <= MaxReads
  <2>1. /\ Cardinality(KindOf(rounds, "search")) \in Nat /\ MaxPages \in Nat
        /\ Cardinality(KindOf(rounds, "metrics")) \in Nat /\ MaxReads \in Nat
        /\ host.searches \in Nat /\ host.reads \in Nat
    BY LimitTypes
  <2>2. Bounded /\ CountsSound
    BY DEF LInv
  <2>3. CASE called
    <3>1. at = "called" /\ host.step - 1 < MaxToolCalls
      BY <1>1, <2>2, <2>3 DEF CountsSound
    <3>2. /\ Outstanding("search") = IF action.kind = "search" THEN 1 ELSE 0
          /\ Outstanding("metrics") = IF action.kind = "metrics" THEN 1 ELSE 0
      BY <3>1 DEF Outstanding
    <3>3. /\ Cardinality(KindOf(rounds, "search")) + Outstanding("search") <= host.searches
          /\ host.searches <= MaxPages
      BY <1>1, <2>2 DEF CountsSound
    <3>4. /\ Cardinality(KindOf(rounds, "metrics")) + Outstanding("metrics") <= host.reads
          /\ host.reads <= MaxReads
      BY <1>1, <2>2 DEF CountsSound
    <3>5. Cardinality(KindOf(rounds, "search"))
            + (IF action.kind = "search" THEN 1 ELSE 0) <= MaxPages
      BY <2>1, <3>2, <3>3
    <3>6. Cardinality(KindOf(rounds, "metrics"))
            + (IF action.kind = "metrics" THEN 1 ELSE 0) <= MaxReads
      BY <2>1, <3>2, <3>4
    <3> QED  BY <2>3, <3>1, <3>5, <3>6
  <2>4. CASE ~called
    BY <2>1, <2>2, <2>4 DEF Bounded
  <2> QED  BY <2>3, <2>4
<1>6. Cardinality(CallsOf(rounds')) <= MaxToolCalls
  <2>1. Cardinality(CallsOf(rounds')) = host.step - 1 + IF called THEN 1 ELSE 0
    BY <1>2, LimitTypes, RoundCounts
  <2>2. host.step - 1 <= MaxToolCalls
    BY <1>2 DEF LInv, Bounded
  <2> QED  BY <1>2, <1>5, <2>1, <2>2, LimitTypes
<1>7. /\ Cardinality(KindOf(rounds', "search")) <= MaxPages
      /\ Cardinality(KindOf(rounds', "metrics")) <= MaxReads
  BY <1>5, LimitTypes, RoundCounts
<1> QED  BY <1>2, <1>3, <1>4, <1>6, <1>7 DEF LInv, Bounded

\* An append that fails is within the limits, whether it left its round or not.
LEMMA AppendFailsCounts ==
    ASSUME LInv, NEW called \in BOOLEAN, at \in {"parsed", "called"}, called => at = "called",
           AppendFails(Round(called))
    PROVE  Bounded' /\ CountsSound'
<1>1. host' = host /\ at' \in {"except", "raised"}
  BY DEF AppendFails, Raises
<1>2. CASE rounds' = rounds
  BY <1>1, <1>2, LeavesCounts DEF Looping, InStep
<1>3. CASE Fits(Round(called)) /\ Appended(Round(called))
  <2>1. Bounded'
    BY <1>1, <1>3, AppendBounded
  <2> QED  BY <1>1, <2>1 DEF CountsSound, Looping, InStep
<1> QED  BY <1>2, <1>3 DEF AppendFails

\* The loop does not run past its end.
LEMMA BeginStepCounts == LInv /\ BeginStep => Bounded' /\ CountsSound'
<1> SUFFICES ASSUME LInv, BeginStep PROVE Bounded' /\ CountsSound'
  OBVIOUS
<1>1. at = "loop" /\ UNCHANGED <<host, rounds>>
  BY DEF BeginStep
<1>2. ~(host.step > MaxSteps)
  BY <1>1, LimitTypes DEF LInv, CountsSound, Looping
<1>3. at' \in {"failing", "generate", "except", "raised"}
  BY <1>2 DEF BeginStep, Fails, Writes, Proceeds, Raises
<1>4. CASE at' = "generate"
  BY <1>1, <1>4, StaysCounted DEF Looping, InStep
<1>5. CASE at' # "generate"
  BY <1>1, <1>3, <1>5, LeavesCounts DEF Looping, InStep
<1> QED  BY <1>4, <1>5

\* Steps of the loop that count nothing.
LEMMA QuietCounts == LInv /\ (PrepareInputs \/ Generate) => Bounded' /\ CountsSound'
<1> SUFFICES ASSUME LInv, PrepareInputs \/ Generate PROVE Bounded' /\ CountsSound'
  OBVIOUS
<1>1. UNCHANGED <<host, rounds>> /\ at \in {"inputs", "generate"}
      /\ at' \in {"loop", "parsed", "except", "raised"}
  BY DEF PrepareInputs, Generate, Writes, Proceeds, Raises
<1>2. CASE at' \in {"loop", "parsed"}
  BY <1>1, <1>2, StaysCounted DEF Looping, InStep
<1>3. CASE at' \in {"except", "raised"}
  BY <1>1, <1>3, LeavesCounts DEF Looping, InStep
<1> QED  BY <1>1, <1>2, <1>3

\* A call is requested only below the limit of calls, and goes on only within those
\* of pages and reads.
LEMMA RequestToolCounts == LInv /\ RequestTool => Bounded' /\ CountsSound'
<1> SUFFICES ASSUME LInv, RequestTool PROVE Bounded' /\ CountsSound'
  OBVIOUS
<1>1. /\ at = "parsed" /\ UNCHANGED <<rounds, action>> /\ host' = Counted(host)
      /\ ~(host.calls >= MaxToolCalls)
      /\ \/ at' \in {"except", "raised"}
         \/ at' = "call" /\ host'.searches <= MaxPages /\ host'.reads <= MaxReads
  BY DEF RequestTool, Refused, TooManyCalls, Writes, Proceeds, Raises
<1>2. /\ host'.step = host.step /\ host'.calls = host.calls /\ host'.bytes = host.bytes
      /\ host'.searches = host.searches + IF action.kind = "search" THEN 1 ELSE 0
      /\ host'.reads = host.reads + IF action.kind = "metrics" THEN 1 ELSE 0
  <2> DEFINE searches == IF action.kind = "search" THEN host.searches + 1 ELSE host.searches
             reads == IF action.kind = "metrics" THEN host.reads + 1 ELSE host.reads
  <2>1. host' = [host EXCEPT !.searches = searches, !.reads = reads]
    BY <1>1 DEF Counted
  <2>2. /\ searches = host.searches + IF action.kind = "search" THEN 1 ELSE 0
        /\ reads = host.reads + IF action.kind = "metrics" THEN 1 ELSE 0
    BY LimitTypes
  <2>3. host \in Hosts
    BY LimitTypes
  <2> HIDE DEF searches, reads
  <2>4. /\ host'.step = host.step /\ host'.calls = host.calls /\ host'.bytes = host.bytes
        /\ host'.searches = searches /\ host'.reads = reads
    BY <2>1, <2>3 DEF Hosts
  <2> QED  BY <2>2, <2>4
<1>3. CASE at' # "call"
  BY <1>1, <1>2, <1>3, LeavesCounts DEF Looping, InStep
<1>4. CASE at' = "call"
  <2>1. /\ host.calls = host.step - 1
        /\ Cardinality(KindOf(rounds, "search")) <= host.searches
        /\ Cardinality(KindOf(rounds, "metrics")) <= host.reads
    BY <1>1, LimitTypes DEF LInv, CountsSound, Outstanding, Looping, InStep
  <2>2. Bounded'
    BY <1>1, <1>2, <1>4 DEF LInv, Bounded, CallsOf, KindOf
  <2>3. /\ Outstanding("search")' = IF action.kind = "search" THEN 1 ELSE 0
        /\ Outstanding("metrics")' = IF action.kind = "metrics" THEN 1 ELSE 0
        /\ KindOf(rounds, "search")' = KindOf(rounds, "search")
        /\ KindOf(rounds, "metrics")' = KindOf(rounds, "metrics")
    BY <1>1, <1>4 DEF Outstanding, KindOf, CallsOf
  <2>4. /\ host'.calls = host'.step - 1 /\ host'.step - 1 < MaxToolCalls
        /\ host'.step - 1 <= MaxToolCalls
        /\ host'.searches <= MaxPages /\ host'.reads <= MaxReads
    <3>1. /\ host.step \in Nat /\ host.calls \in Nat /\ MaxToolCalls \in Nat
          /\ ~(host.calls >= MaxToolCalls)
      BY <1>1, LimitTypes
    <3>2. /\ host'.calls = host'.step - 1 /\ host'.step - 1 < MaxToolCalls
          /\ host'.step - 1 <= MaxToolCalls
      BY <1>2, <2>1, <3>1
    <3> QED  BY <1>1, <1>4, <3>2
  <2>5. /\ (Cardinality(KindOf(rounds, "search")) + Outstanding("search") <= host.searches)'
        /\ (Cardinality(KindOf(rounds, "metrics")) + Outstanding("metrics") <= host.reads)'
    <3>1. /\ Cardinality(KindOf(rounds, "search")) + (IF action.kind = "search" THEN 1 ELSE 0)
                <= host'.searches
          /\ Cardinality(KindOf(rounds, "metrics")) + (IF action.kind = "metrics" THEN 1 ELSE 0)
                <= host'.reads
      <4>1. /\ Cardinality(KindOf(rounds, "search")) \in Nat /\ host.searches \in Nat
            /\ Cardinality(KindOf(rounds, "metrics")) \in Nat /\ host.reads \in Nat
        BY LimitTypes
      <4>2. CASE action.kind = "search"
        BY <1>2, <2>1, <4>1, <4>2
      <4>3. CASE action.kind # "search"
        BY <1>2, <2>1, <4>1, <4>3
      <4> QED  BY <4>2, <4>3
    <3> QED  BY <2>3, <3>1
  <2>6. CountsSound'
    BY <2>4, <2>5 DEF CountsSound
  <2> QED  BY <2>2, <2>6
<1> QED  BY <1>1, <1>3, <1>4

\* The bytes of a result are within the limit of the run.
LEMMA CallToolCounts == LInv /\ CallTool => Bounded' /\ CountsSound'
<1> SUFFICES ASSUME LInv, CallTool PROVE Bounded' /\ CountsSound'
  OBVIOUS
<1>1. /\ at = "call" /\ UNCHANGED <<rounds, action>> /\ at' \in {"except", "raised", "called"}
      /\ \/ host' = host
         \/ \E size \in 1..MaxStepBytes : /\ host' = [host EXCEPT !.bytes = @ + size]
                                          /\ host.bytes + size <= MaxRunBytes
  BY DEF CallTool, WithinBytes, Proceeds, Raises
<1>2. /\ host'.step = host.step /\ host'.calls = host.calls /\ host'.searches = host.searches
      /\ host'.reads = host.reads /\ host'.bytes <= MaxRunBytes
  <2>1. CASE host' = host
    BY <2>1 DEF LInv, Bounded
  <2>2. ASSUME NEW size \in 1..MaxStepBytes, host' = [host EXCEPT !.bytes = @ + size],
               host.bytes + size <= MaxRunBytes
        PROVE  /\ host'.step = host.step /\ host'.calls = host.calls
               /\ host'.searches = host.searches
               /\ host'.reads = host.reads /\ host'.bytes <= MaxRunBytes
    <3>1. host \in Hosts
      BY LimitTypes
    <3> QED  BY <2>2, <3>1 DEF Hosts
  <2> QED  BY <1>1, <2>1, <2>2
<1>3. Bounded'
  BY <1>1, <1>2 DEF LInv, Bounded, CallsOf, KindOf
<1>4. CountsSound'
  BY <1>1, <1>2 DEF LInv, CountsSound, Outstanding, CallsOf, KindOf, Looping, InStep
<1> QED  BY <1>3, <1>4

\* The round of a call closes it.
LEMMA RecordCallCounts == LInv /\ RecordCall => Bounded' /\ CountsSound'
<1> SUFFICES ASSUME LInv, RecordCall PROVE Bounded' /\ CountsSound'
  OBVIOUS
<1>1. CASE AppendFails(Round(TRUE))
  BY <1>1, AppendFailsCounts DEF RecordCall
<1>2. CASE /\ Fits(Round(TRUE)) /\ Appended(Round(TRUE))
           /\ host' = [host EXCEPT !.kept = @ + 1, !.calls = @ + 1, !.step = @ + 1,
                                   !.results = @ \cup {host.step}]
           /\ IF host.step = MaxSteps THEN Fails("exhausted") ELSE Proceeds("loop")
  <2>1. at = "called" /\ at' \in {"failing", "loop"}
    BY <1>2 DEF RecordCall, Fails, Proceeds
  <2>2. /\ host'.step = host.step + 1 /\ host'.calls = host.calls + 1
        /\ host'.searches = host.searches /\ host'.reads = host.reads /\ host'.bytes = host.bytes
    <3>1. host \in Hosts
      BY LimitTypes
    <3> QED  BY <1>2, <3>1 DEF Hosts
  <2>3. Bounded'
    BY <1>2, <2>1, <2>2, AppendBounded
  <2>4. CASE at' = "failing"
    BY <2>3, <2>4 DEF CountsSound, Looping, InStep
  <2>5. CASE at' = "loop"
    <3>1. /\ host.calls = host.step - 1 /\ host.step - 1 < MaxToolCalls
          /\ Cardinality(KindOf(rounds, "search"))
                + (IF action.kind = "search" THEN 1 ELSE 0) <= host.searches
          /\ Cardinality(KindOf(rounds, "metrics"))
                + (IF action.kind = "metrics" THEN 1 ELSE 0) <= host.reads
          /\ host.searches <= MaxPages /\ host.reads <= MaxReads
      BY <2>1 DEF LInv, CountsSound, Outstanding, Looping, InStep
    <3>2. /\ Cardinality(KindOf(rounds', "search")) = Cardinality(KindOf(rounds, "search"))
                                     + IF action.kind = "search" THEN 1 ELSE 0
          /\ Cardinality(KindOf(rounds', "metrics")) = Cardinality(KindOf(rounds, "metrics"))
                                     + IF action.kind = "metrics" THEN 1 ELSE 0
      BY <1>2, LimitTypes, RoundCounts
    <3>3. Outstanding("search")' = 0 /\ Outstanding("metrics")' = 0
      BY <2>5 DEF Outstanding
    <3>4. /\ Cardinality(KindOf(rounds', "search")) \in Nat
          /\ Cardinality(KindOf(rounds', "metrics")) \in Nat
      <4>1. /\ Cardinality(KindOf(rounds, "search")) \in Nat
            /\ Cardinality(KindOf(rounds, "metrics")) \in Nat
        BY LimitTypes
      <4> QED  BY <3>2, <4>1
    <3>5. /\ host'.calls = host'.step - 1 /\ host'.step - 1 <= MaxToolCalls
          /\ host'.searches <= MaxPages /\ host'.reads <= MaxReads
      <4>1. host.step \in Nat /\ host.calls \in Nat /\ MaxToolCalls \in Nat
        BY LimitTypes
      <4>2. host.calls = host.step - 1 /\ host.step - 1 < MaxToolCalls
        BY <3>1
      <4>3. host'.calls = host'.step - 1
        BY <2>2, <4>1, <4>2
      <4>4. host'.step - 1 <= MaxToolCalls
        BY <2>2, <4>1, <4>2
      <4> QED  BY <2>2, <3>1, <4>3, <4>4
    <3>6. /\ Cardinality(KindOf(rounds', "search")) <= host'.searches
          /\ Cardinality(KindOf(rounds', "metrics")) <= host'.reads
      BY <2>2, <3>1, <3>2
    <3>7. /\ (Cardinality(KindOf(rounds, "search")) + Outstanding("search") <= host.searches)'
          /\ (Cardinality(KindOf(rounds, "metrics")) + Outstanding("metrics") <= host.reads)'
      BY <3>3, <3>4, <3>6
    <3>8. ~(at' \in {"call", "called"})
      BY <2>5
    <3> QED  BY <2>3, <3>5, <3>7, <3>8 DEF CountsSound
  <2> QED  BY <2>1, <2>4, <2>5
<1> QED  BY <1>1, <1>2 DEF RecordCall

\* The last round is within the limits.
LEMMA LastRoundCounts == LInv /\ (RejectAction \/ RecordTerminal) => Bounded' /\ CountsSound'
<1> SUFFICES ASSUME LInv, RejectAction \/ RecordTerminal PROVE Bounded' /\ CountsSound'
  OBVIOUS
<1>1. at = "parsed"
  BY DEF RejectAction, RecordTerminal
<1>2. CASE AppendFails(Round(FALSE))
  BY <1>1, <1>2, AppendFailsCounts
<1>3. CASE /\ Fits(Round(FALSE)) /\ Appended(Round(FALSE)) /\ host' = [host EXCEPT !.kept = @ + 1]
           /\ at' \in {"failing", "terminal"}
  <2>1. host'.bytes = host.bytes
    <3>1. host \in Hosts
      BY LimitTypes
    <3> QED  BY <1>3, <3>1 DEF Hosts
  <2>2. Bounded'
    BY <1>1, <1>3, <2>1, AppendBounded
  <2> QED  BY <1>3, <2>2 DEF CountsSound, Looping, InStep
<1> QED  BY <1>2, <1>3 DEF RejectAction, RecordTerminal, Fails, Proceeds

\* Nothing is counted after the loop.
LEMMA EndCounts == LInv /\ (End \/ Crash) => Bounded' /\ CountsSound'
<1> SUFFICES ASSUME LInv, End \/ Crash PROVE Bounded' /\ CountsSound'
  OBVIOUS
<1>1. UNCHANGED <<host, rounds>> /\ at' \notin Looping \cup {"unreachable"}
  BY DEF End, Crash, WriteTerminal, CompleteAttempt, VerifyTerminal, RecordVerification, WriteFinal,
         WriteSummary, FailAttempt, WriteFailed, Recover, Writes, Registers, Proceeds, Raises, trace,
         Looping, InStep
<1> QED  BY <1>1, LeavesCounts

\* The limits of the config hold over the whole run, and the loop always leaves the
\* model a step to end in (ResearchAgentConfig, run_research_agent).
THEOREM LimitsAreKept == Spec => []LimitsHold
<1>1. Init /\ FInv => LInv
  <2> SUFFICES ASSUME Init, FInv PROVE LInv
    OBVIOUS
  <2>1. rounds = <<>> /\ DOMAIN rounds = {} /\ Len(rounds) = 0
    BY DEF Init
  <2>2. CallsOf(rounds) = {} /\ \A kind : KindOf(rounds, kind) = {}
    BY <2>1 DEF CallsOf, KindOf
  <2>3. /\ Cardinality(CallsOf(rounds)) = 0
        /\ Cardinality(KindOf(rounds, "search")) = 0 /\ Cardinality(KindOf(rounds, "metrics")) = 0
    BY <2>2, FS_EmptySet
  <2>4. /\ host.step = 1 /\ host.calls = 0 /\ host.searches = 0 /\ host.reads = 0 /\ host.bytes = 0
        /\ at = "inputs"
    BY DEF Init
  <2> QED  BY <2>1, <2>3, <2>4, SessionAssumption DEF LInv, Bounded, CountsSound, Outstanding
<1>2. LInv /\ FInv' /\ [Next]_vars => LInv'
  <2>1. LInv /\ UNCHANGED vars => Bounded' /\ CountsSound'
    BY DEF LInv, vars, Bounded, CountsSound, Outstanding, CallsOf, KindOf
  <2> QED  BY <2>1, BeginStepCounts, QuietCounts, RequestToolCounts, CallToolCounts, RecordCallCounts,
              LastRoundCounts, EndCounts DEF Next, Loop, LInv
<1>3. LInv => LimitsHold
  <2> SUFFICES ASSUME LInv PROVE LimitsHold
    OBVIOUS
  <2>1. at = "called" => host.step < MaxSteps
    BY LimitTypes DEF LInv, CountsSound, Looping, InStep
  <2> QED  BY <2>1 DEF LimitsHold, LInv, Bounded, CallsOf, KindOf
<1> QED  BY <1>1, <1>2, <1>3, FInvariance, PTL DEF Spec
=============================================================================
