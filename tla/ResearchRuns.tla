---------------------------- MODULE ResearchRuns ----------------------------
(***************************************************************************)
(* Runs of the research pipeline that share a workspace (run_to_stage):    *)
(* the capture of the configured inputs, the run's name and directories,   *)
(* the stages in the order of their dependencies, the annotation of text   *)
(* by a local model through the cache all runs share, and the manifest a   *)
(* run ends with.                                                          *)
(*                                                                         *)
(* Configured files are edited at any time. Runs interleave at every read  *)
(* or write of what they share; what a run writes in directories of its    *)
(* own is a step per stage.                                                *)
(***************************************************************************)
EXTENDS Integers, Sequences, FiniteSets, SequencesExt

CONSTANTS
    Runs,
    Names,          \* base names of run directories
    BaseOf,         \* BaseOf[r]: given, or made of the time and a fingerprint
    Explicit,       \* runs whose name is given, so that it has no suffix
    Target,         \* Target[r]: the stage it is asked for
    Texts,
    Source,         \* Source[v]: the texts in version v of the text file
    BatchSize, MaxEdits,
    Faults          \* subset of {"crash", "write"}

Roles == {"market", "text", "model"}
Areas == <<"interim", "processed", "models", "reports">>
Stages == {"ingest_market", "ingest_text", "annotate_text", "build_features", "build_labels",
           "train", "predict", "backtest", "paper", "report"}
Versions == 0..MaxEdits
\* A cache key is an identity: of a text and of the model that reads it.
Keys == Texts \X Versions

ASSUME RunAssumption ==
    /\ IsFiniteSet(Runs) /\ BaseOf \in [Runs -> Names]
    /\ Explicit \subseteq Runs /\ Target \in [Runs -> Stages]
    /\ BatchSize \in Nat \ {0} /\ MaxEdits \in Nat
    /\ Source \in [Versions -> Seq(Texts)]
    /\ Runs \cap {"absent", "torn"} = {}

VARIABLES
    version,    \* of each configured file
    owner,      \* owner[n]: who made the directories of the name n
    cache,      \* _cache/llm_annotations: whose generation a record is
    at, captured, name, made,       \* of a run: place, manifest, name, directories made
    done, used, files,              \* stages done, versions they read, artifacts
    source, record, todo, pending,  \* the annotator's memory
    attempts,   \* keys of its generation_attempts
    final       \* run.final.json

run == <<at, captured, name, made>>
work == <<done, used, files>>
annotator == <<source, record, todo, pending, attempts>>
vars == <<version, owner, cache, run, work, annotator, final>>

-----------------------------------------------------------------------------
(* Values *)

DEPENDENCIES ==
    [s \in Stages |->
        CASE s \in {"ingest_market", "ingest_text"} -> <<>>
          [] s = "annotate_text" -> <<"ingest_market", "ingest_text">>
          [] s = "build_features" -> <<"annotate_text">>
          [] s = "build_labels" -> <<"ingest_market">>
          [] s = "train" -> <<"build_features", "build_labels">>
          [] s = "predict" -> <<"train">>
          [] s \in {"backtest", "paper"} -> <<"predict">>
          [] s = "report" -> <<"backtest">>]

\* Candidates: the base, then base-01, base-02, ...
Candidates == Names \X (0..Cardinality(Runs))
NoName == <<"none", 0>>
Taken(n) == owner[n] # <<>>

Places == {"idle", "captured", "directories", "announce", "stages", "lookup", "load", "loading",
           "loaded", "generate", "store", "filling", "bind", "failing",
           "complete", "failed", "refused", "crashed"}
Ended == {"complete", "failed", "refused", "crashed"}
\* Where a run holds all its directories.
Holding == Places \ {"idle", "captured", "directories", "refused", "crashed"}

Unread == MaxEdits + 1
\* What a stage that raised may leave of its files.
Partly(s) == <<"part of", s>>
Whole(s) == <<"all of", s>>
NoFinal == [state |-> "absent", listed |-> {}]

Init ==
    /\ version = [f \in Roles |-> 0] /\ owner = [n \in Candidates |-> <<>>]
    /\ cache = [k \in Keys |-> "absent"]
    /\ at = [r \in Runs |-> "idle"] /\ captured = [r \in Runs |-> [f \in Roles |-> Unread]]
    /\ name = [r \in Runs |-> NoName] /\ made = [r \in Runs |-> 0]
    /\ done = [r \in Runs |-> {}] /\ used = [r \in Runs |-> [f \in Roles |-> Unread]]
    /\ files = [r \in Runs |-> {}]
    /\ source = [r \in Runs |-> <<>>] /\ record = [r \in Runs |-> [k \in Keys |-> "absent"]]
    /\ todo = [r \in Runs |-> <<>>] /\ pending = [r \in Runs |-> <<>>]
    /\ attempts = [r \in Runs |-> {}]
    /\ final = [r \in Runs |-> NoFinal]

-----------------------------------------------------------------------------
(* How a step goes on *)

Goes(r, place) == at' = [at EXCEPT ![r] = place]
\* An exception of a stage: the except clause of run_to_stage.
Raises(r) == Goes(r, "failing")
Leaves(r, file) == files' = [files EXCEPT ![r] = @ \cup {file}]
\* A stage that raised, with some of its files there.
StageRaises(r, s) ==
    /\ Raises(r) /\ (files' = files \/ Leaves(r, Partly(s))) /\ UNCHANGED <<done, used>>

\* An operator of the machine replaces a configured file.
Edit ==
    /\ \E f \in Roles : version[f] < MaxEdits /\ version' = [version EXCEPT ![f] = @ + 1]
    /\ UNCHANGED <<owner, cache, run, work, annotator, final>>

-----------------------------------------------------------------------------
(* create_run_context *)

\* input_manifest
Capture(r) ==
    /\ at[r] = "idle" /\ Goes(r, "captured")
    /\ captured' = [captured EXCEPT ![r] = version]
    /\ UNCHANGED <<version, owner, cache, name, made, work, annotator, final>>

\* The first candidate none of whose directories exists, of which there is one for
\* every run and one more; a given name is the only candidate.
ChooseName(r) ==
    /\ at[r] = "captured"
    /\ LET free == {i \in 0..Cardinality(Runs) : ~Taken(<<BaseOf[r], i>>)}
           first == CHOOSE i \in free : \A j \in free : i <= j
       IN  /\ free # {}
           /\ IF r \in Explicit /\ first # 0
              THEN Goes(r, "refused") /\ name' = name
              ELSE Goes(r, "directories") /\ name' = [name EXCEPT ![r] = <<BaseOf[r], first>>]
    /\ UNCHANGED <<version, owner, cache, captured, made, work, annotator, final>>

\* Mutant of MakeDirectory: mkdir with exist_ok=True.
MakeAnyDirectory(r) ==
    /\ at[r] = "directories"
    /\ made' = [made EXCEPT ![r] = @ + 1]
    /\ owner' = IF Len(owner[name[r]]) > made[r] THEN owner
                ELSE [owner EXCEPT ![name[r]] = Append(@, r)]
    /\ IF made'[r] = Len(Areas) THEN Goes(r, "announce") ELSE at' = at
    /\ UNCHANGED <<version, cache, captured, name, work, annotator, final>>
\* The four directories one after the other, exist_ok=False.
MakeDirectory(r) ==
    /\ at[r] = "directories"
    /\ IF Len(owner[name[r]]) > made[r]
       THEN Goes(r, "refused") /\ UNCHANGED <<made, owner>>
       ELSE /\ made' = [made EXCEPT ![r] = @ + 1]
            /\ owner' = [owner EXCEPT ![name[r]] = Append(@, r)]
            /\ IF made'[r] = Len(Areas) THEN Goes(r, "announce") ELSE at' = at
    /\ UNCHANGED <<version, cache, captured, name, work, annotator, final>>

\* config.snapshot.json, run.initial.json and execution_scope.json: all before
\* the try block, so that no run.failed.json tells of a failure.
Announce(r) ==
    /\ at[r] = "announce"
    /\ \/ Goes(r, "stages") /\ Leaves(r, Whole("initial"))
       \/ "write" \in Faults /\ Goes(r, "refused") /\ (files' = files \/ Leaves(r, Partly("initial")))
    /\ UNCHANGED <<version, owner, cache, captured, name, made, done, used, annotator, final>>

-----------------------------------------------------------------------------
(* The stages *)

\* PipelineExecution.run: the stage at which the recursion is. It goes to the
\* first dependency that is not done.
Missing(r, s) == {i \in DOMAIN DEPENDENCIES[s] : DEPENDENCIES[s][i] \notin done[r]}
Due(r) ==
    LET next[s \in Stages] ==
            IF Missing(r, s) = {} THEN s
            ELSE next[DEPENDENCIES[s][CHOOSE i \in Missing(r, s) :
                                          \A j \in Missing(r, s) : i <= j]]
    IN  next[Target[r]]

Running(r, s) == at[r] = "stages" /\ Target[r] \notin done[r] /\ Due(r) = s
Completes(r, s) ==
    /\ done' = [done EXCEPT ![r] = @ \cup {s}] /\ Leaves(r, Whole(s)) /\ Goes(r, "stages")

\* _ingest_raw and _captured_input_path: the bytes are copied, compared with
\* the manifest and then read from the copy.
Ingest(r, s, roles) ==
    /\ Running(r, s)
    /\ \/ StageRaises(r, s)
       \/ /\ \A f \in roles : version[f] = captured[r][f]
          /\ used' = [used EXCEPT ![r] = [f \in Roles |-> IF f \in roles THEN version[f] ELSE @[f]]]
          /\ Completes(r, s)
    /\ UNCHANGED <<version, owner, cache, captured, name, made, annotator, final>>

IngestMarket(r) == Ingest(r, "ingest_market", {"market"})
\* _ensure_assets reads the asset file if ingest_market has not.
IngestText(r) ==
    Ingest(r, "ingest_text",
           IF "ingest_market" \in done[r] THEN {"text"} ELSE {"text", "market"})

\* The other stages compute, and write under the run's own name.
OwnStages == Stages \ {"ingest_market", "ingest_text", "annotate_text"}
Work(r) ==
    /\ \E s \in OwnStages :
          Running(r, s) /\ (StageRaises(r, s) \/ (Completes(r, s) /\ used' = used))
    /\ UNCHANGED <<version, owner, cache, captured, name, made, annotator, final>>

-----------------------------------------------------------------------------
(* annotate_text *)

Items(r) == Source[used[r]["text"]]
Key(r, i) == <<Items(r)[i], used[r]["model"]>>
Shared == <<version, owner, captured, name, made, final>>

\* CachedLocalLLMAnnotator hashes the model file; the manifest has its hash.
ConstructAnnotator(r) ==
    /\ Running(r, "annotate_text")
    /\ \/ StageRaises(r, "annotate_text")
       \/ /\ version["model"] = captured[r]["model"] /\ Goes(r, "lookup")
          /\ used' = [used EXCEPT ![r]["model"] = version["model"]]
          /\ UNCHANGED <<done, files>>
    /\ UNCHANGED <<Shared, cache, annotator>>

\* _read_cache for one request after the other; texts not found are generated
\* once each.
LookUp(r) ==
    /\ at[r] = "lookup"
    /\ IF Len(source[r]) = Len(Items(r))
       THEN /\ Goes(r, IF todo[r] = <<>> THEN "bind" ELSE "load")
            /\ UNCHANGED <<source, record, todo, files>>
       ELSE LET k == Key(r, Len(source[r]) + 1)
            IN  \/ /\ cache[k] = "torn" /\ Raises(r)
                   /\ (files' = files \/ Leaves(r, Partly("annotate_text")))
                   /\ UNCHANGED <<source, record, todo>>
                \/ /\ cache[k] = "absent"
                   /\ source' = [source EXCEPT ![r] = Append(@, "missing")]
                   /\ todo' = [todo EXCEPT ![r] = IF Contains(@, k) THEN @ ELSE Append(@, k)]
                   /\ UNCHANGED <<at, record, files>>
                \/ /\ cache[k] \in Runs
                   /\ source' = [source EXCEPT ![r] = Append(@, "cache")]
                   /\ record' = [record EXCEPT ![r][k] = cache[k]]
                   /\ UNCHANGED <<at, todo, files>>
    /\ UNCHANGED <<Shared, cache, done, used, pending, attempts>>

\* LlamaCppGenerationSession: the hash of the file, the load, the hash again.
CheckModel(r) ==
    /\ at[r] = "load"
    /\ IF version["model"] = used[r]["model"] THEN Goes(r, "loading") ELSE Raises(r)
    /\ UNCHANGED <<Shared, cache, work, annotator>>
LoadModel(r) ==
    /\ at[r] = "loading"
    /\ used' = [used EXCEPT ![r]["model"] = version["model"]] /\ Goes(r, "loaded")
    /\ UNCHANGED <<Shared, cache, done, files, annotator>>
\* Mutant of ConfirmModel: no hash after the load.
ConfirmNothing(r) ==
    /\ at[r] = "loaded" /\ Goes(r, "generate")
    /\ UNCHANGED <<Shared, cache, work, annotator>>
ConfirmModel(r) ==
    /\ at[r] = "loaded"
    /\ IF version["model"] = captured[r]["model"] THEN Goes(r, "generate") ELSE Raises(r)
    /\ UNCHANGED <<Shared, cache, work, annotator>>

Chunk(r) == SubSeq(todo[r], 1, IF Len(todo[r]) < BatchSize THEN Len(todo[r]) ELSE BatchSize)
\* Mutant of Generate: an answer is kept only once it is valid.
GenerateUnkept(r) ==
    /\ at[r] = "generate"
    /\ LET chunk == Chunk(r)
           rest == SubSeq(todo[r], Len(chunk) + 1, Len(todo[r]))
       IN  /\ attempts' = attempts
           /\ \/ Raises(r) /\ UNCHANGED <<todo, pending>>
              \/ /\ todo' = [todo EXCEPT ![r] = rest]
                 /\ pending' = [pending EXCEPT ![r] = @ \o chunk]
                 /\ IF rest = <<>> THEN Goes(r, "store") ELSE at' = at
    /\ UNCHANGED <<Shared, cache, work, source, record>>
\* _write_generation_attempt: what the model answers is written under the name of
\* the run that asked.
Answered(r, keys) == attempts' = [attempts EXCEPT ![r] = @ \cup keys]
\* The session raises, or an answer is left out, cut off or not what the schema
\* and the verifier ask for: the answers there are have been written by then.
GenerationFails(r, chunk) ==
    /\ \E keys \in SUBSET ToSet(chunk) : Answered(r, keys)
    /\ Raises(r) /\ UNCHANGED <<todo, pending>>
\* A batch, answered, then parsed and verified. Nothing of it is in the cache
\* before every batch is valid.
Generate(r) ==
    /\ at[r] = "generate"
    /\ LET chunk == Chunk(r)
           rest == SubSeq(todo[r], Len(chunk) + 1, Len(todo[r]))
       IN  \/ GenerationFails(r, chunk)
           \/ /\ Answered(r, ToSet(chunk))
              /\ todo' = [todo EXCEPT ![r] = rest]
              /\ pending' = [pending EXCEPT ![r] = @ \o chunk]
              /\ IF rest = <<>> THEN Goes(r, "store") ELSE at' = at
    /\ UNCHANGED <<Shared, cache, work, source, record>>

\* What the items with key k, not found, are told of where their answer is from.
Told(r, k) ==
    LET waiting == {i \in DOMAIN source[r] : source[r][i] = "missing" /\ Key(r, i) = k}
    IN  [i \in DOMAIN source[r] |->
            IF i \notin waiting THEN source[r][i]
            ELSE IF \A j \in waiting : i <= j THEN "generated" ELSE "deduplicated"]

\* Mutant of OpenRecord: a record another run made is as good, and is left.
OpenRecordOrKeep(r) ==
    /\ at[r] = "store" /\ pending[r] # <<>>
    /\ LET k == Head(pending[r])
       IN  IF cache[k] = "absent"
           THEN cache' = [cache EXCEPT ![k] = "torn"] /\ Goes(r, "filling")
                /\ UNCHANGED <<source, record, pending>>
           ELSE /\ cache' = cache /\ at' = at
                /\ record' = [record EXCEPT ![r][k] = r]
                /\ source' = [source EXCEPT ![r] = Told(r, k)]
                /\ pending' = [pending EXCEPT ![r] = Tail(@)]
    /\ UNCHANGED <<Shared, work, todo, attempts>>
\* _write_cache compares with a record that is there: it is not the same, for it
\* has the latency of its own generation (that two are equal is left out), and one
\* that is not whole cannot be read.
OpenRecord(r) ==
    /\ at[r] = "store" /\ pending[r] # <<>>
    /\ LET k == Head(pending[r])
       IN  IF cache[k] = "absent"
           THEN cache' = [cache EXCEPT ![k] = "torn"] /\ Goes(r, "filling")
           ELSE Raises(r) /\ cache' = cache
    /\ UNCHANGED <<Shared, work, annotator>>

\* Between open and close the record is there and not whole.
FillRecord(r) ==
    /\ at[r] = "filling"
    /\ LET k == Head(pending[r])
       IN  \/ /\ cache' = [cache EXCEPT ![k] = r] /\ Goes(r, "store")
              /\ record' = [record EXCEPT ![r][k] = r]
              /\ source' = [source EXCEPT ![r] = Told(r, k)]
              /\ pending' = [pending EXCEPT ![r] = Tail(@)]
           \/ "write" \in Faults /\ Raises(r) /\ UNCHANGED <<cache, record, source, pending>>
    /\ UNCHANGED <<Shared, work, todo, attempts>>

AllStored(r) ==
    /\ at[r] = "store" /\ pending[r] = <<>> /\ Goes(r, "bind")
    /\ UNCHANGED <<Shared, cache, work, annotator>>

\* The decision rounds that count a generation of k as this run's.
GeneratedRounds(r, k) ==
    {i \in DOMAIN source[r] : Key(r, i) = k /\ source[r][i] = "generated"}
\* The responses, the decision rounds with their replay, the Silver rows: all
\* under the run's name, all from the memory of the annotator.
Bind(r) ==
    /\ at[r] = "bind"
    /\ \/ StageRaises(r, "annotate_text")
       \/ Completes(r, "annotate_text") /\ used' = used
    /\ UNCHANGED <<Shared, cache, annotator>>

-----------------------------------------------------------------------------
(* The end of a run *)

\* Mutant of Finalize: the manifest is made when the last stage begins.
FinalizeEarly(r) ==
    /\ at[r] = "stages" /\ Target[r] \in done[r]
    /\ final' = [final EXCEPT ![r] = [state |-> "whole",
                                      listed |-> files[r] \ {Whole(Target[r])}]]
    /\ Goes(r, "complete")
    /\ UNCHANGED <<version, owner, cache, captured, name, made, work, annotator>>
\* finalize_run with artifact_manifest.
Finalize(r) ==
    /\ at[r] = "stages" /\ Target[r] \in done[r]
    /\ \/ /\ final' = [final EXCEPT ![r] = [state |-> "whole", listed |-> files[r]]]
          /\ Goes(r, "complete")
       \/ /\ "write" \in Faults /\ Raises(r)
          /\ final' \in {final, [final EXCEPT ![r] = [state |-> "torn", listed |-> {}]]}
    /\ UNCHANGED <<version, owner, cache, captured, name, made, work, annotator>>

\* fail_run, which may fail in its turn.
FailRun(r) ==
    /\ at[r] = "failing" /\ Goes(r, "failed")
    /\ \/ Leaves(r, Whole("failed"))
       \/ "write" \in Faults /\ (files' = files \/ Leaves(r, Partly("failed")))
    /\ UNCHANGED <<version, owner, cache, captured, name, made, done, used, annotator, final>>

\* The end of the process; what it was writing stays as it is.
Crash(r) ==
    /\ "crash" \in Faults /\ at[r] \notin Ended \cup {"idle"} /\ Goes(r, "crashed")
    /\ UNCHANGED <<version, owner, cache, captured, name, made, work, annotator, final>>

-----------------------------------------------------------------------------
Start(r) == Capture(r) \/ ChooseName(r) \/ MakeDirectory(r) \/ Announce(r)
Annotate(r) == \/ ConstructAnnotator(r) \/ LookUp(r) \/ CheckModel(r) \/ LoadModel(r)
               \/ ConfirmModel(r) \/ Generate(r) \/ OpenRecord(r) \/ FillRecord(r)
               \/ AllStored(r) \/ Bind(r)
Next ==
    \/ Edit
    \/ \E r \in Runs : \/ Start(r) \/ IngestMarket(r) \/ IngestText(r) \/ Annotate(r)
                       \/ Work(r) \/ Finalize(r) \/ FailRun(r) \/ Crash(r)

Spec == Init /\ [][Next]_vars

-----------------------------------------------------------------------------
(* Properties *)

Complete(r) == final[r].state = "whole"

\* A run past the start has made every directory it writes in: no two runs
\* write under one name, whatever names they were given or chose at once
\* (create_run_context).
OwnDirectories ==
    \A r \in Runs : at[r] \in Holding => owner[name[r]] = [i \in DOMAIN Areas |-> r]

\* A final manifest tells the whole run: every artifact in the run's directories
\* and nothing else, of each stage the target needs and all those before it,
\* and no word of a failure (finalize_run, artifact_manifest).
FinalManifestHolds ==
    \A r \in Runs : Complete(r) =>
        /\ final[r].listed = files[r]
        /\ Whole("initial") \in files[r] /\ Whole(Target[r]) \in files[r]
        /\ \A s \in Stages : Whole(s) \in files[r] =>
              /\ Partly(s) \notin files[r]
              /\ ToSet(DEPENDENCIES[s]) \subseteq {d \in Stages : Whole(d) \in files[r]}
        /\ {Whole("failed"), Partly("failed")} \cap files[r] = {}

\* A completed run worked on exactly the inputs its manifest names, whenever the
\* files were edited: what it read, and the model that answered (_ingest_raw,
\* annotate_text, LlamaCppGenerationSession).
CapturedIsUsed ==
    \A r \in Runs : Complete(r) =>
        \A f \in Roles : used[r][f] # Unread => used[r][f] = captured[r][f]

\* Completed runs that had one text annotated by one model have the same answer
\* of one generation, which is the one in the cache (annotate, _write_cache).
CompleteRunsAgree ==
    \A r \in Runs : Complete(r) /\ "annotate_text" \in done[r] =>
        \A i \in DOMAIN source[r] :
            /\ cache[Key(r, i)] \in Runs /\ record[r][Key(r, i)] = cache[Key(r, i)]

\* A record of the cache comes of an attempt kept by the run that made it, and a
\* completed run counts each of its generations once and those of others never
\* (_write_generation_attempt, inference_source_for).
GenerationsAreKept ==
    /\ \A k \in Keys : cache[k] \in Runs => k \in attempts[cache[k]]
    /\ \A r \in Runs : Complete(r) /\ "annotate_text" \in done[r] =>
          \A k \in {Key(r, i) : i \in DOMAIN source[r]} :
              Cardinality(GeneratedRounds(r, k)) = IF record[r][k] = r THEN 1 ELSE 0
=============================================================================
