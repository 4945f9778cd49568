------------------------- MODULE ResearchRunsProofs -------------------------
(***************************************************************************)
(* What holds of ResearchRuns for any runs, names, targets, texts and      *)
(* faults: no two runs write under one name, a completed run has read the  *)
(* inputs its manifest names, the manifest lists the artifacts of every    *)
(* stage, and the answers of its annotator are those of the cache.         *)
(***************************************************************************)
EXTENDS ResearchRuns, FiniteSetTheorems, SequenceTheorems, WellFoundedInduction, TLAPS

-----------------------------------------------------------------------------
(* The directories of a run *)

Types ==
    /\ owner \in [Candidates -> Seq(Runs)]
    /\ at \in [Runs -> Places]
    /\ name \in [Runs -> Candidates \cup {NoName}]
    /\ made \in [Runs -> Nat]

\* A run owns the directories it has made, in their order, and no one goes on with
\* a name another run has all directories of.
DirectoriesSound ==
    \A r \in Runs :
        /\ at[r] \in {"idle", "captured"} => made[r] = 0
        /\ at[r] = "directories" =>
              /\ name[r] \in Candidates /\ made[r] < 4 /\ made[r] <= Len(owner[name[r]])
              /\ \A i \in 1..made[r] : owner[name[r]][i] = r
        /\ at[r] \in Holding =>
              /\ name[r] \in Candidates /\ Len(owner[name[r]]) = 4
              /\ \A i \in 1..4 : owner[name[r]][i] = r

DInv == Types /\ DirectoriesSound

\* A nonempty set of suffixes has a first one.
LEMMA FirstSuffix ==
    ASSUME NEW S \in SUBSET Nat, S # {}
    PROVE  \E i \in S : \A j \in S : i <= j
<1>1. PICK i \in S : \A j \in S : <<j, i>> \notin OpToRel(<, Nat)
  BY NatLessThanWellFounded, WFMin, ZenonT(30)
<1>2. ASSUME NEW j \in S, j < i PROVE FALSE
  <2>1. <<j, i>> \in Nat \X Nat
    OBVIOUS
  <2>2. <<j, i>>[1] < <<j, i>>[2]
    BY <1>2
  <2>3. <<j, i>> \in OpToRel(<, Nat)
    BY <2>1, <2>2, Zenon DEF OpToRel
  <2> QED  BY <1>1, <2>3
<1> QED  BY <1>2

\* Steps of a run that holds its directories, or ends, change nothing of them.
LEMMA LaterKeeps ==
    ASSUME DInv, UNCHANGED <<owner, name, made>>, NEW r \in Runs, NEW p \in Places, Goes(r, p),
           at[r] \in Holding, p \in Holding \cup {"crashed", "refused"}
    PROVE  DInv'
<1>1. Types'
  BY DEF DInv, Types, Goes
<1>2. \A q \in Runs : at'[q] = IF q = r THEN p ELSE at[q]
  BY DEF DInv, Types, Goes
<1>3. at'[r] \notin {"idle", "captured", "directories"}
  BY <1>2 DEF Holding
<1>4. DirectoriesSound'
  BY <1>2, <1>3 DEF DInv, DirectoriesSound
<1> QED  BY <1>1, <1>4 DEF DInv

\* As do the others of their steps.
LEMMA StaysKeeps ==
    ASSUME DInv, UNCHANGED <<owner, name, made, at>>
    PROVE  DInv'
BY DEF DInv, Types, DirectoriesSound

\* A run that has captured its inputs has made nothing.
LEMMA CaptureKeeps == ASSUME DInv, NEW r \in Runs, Capture(r) PROVE DInv'
<1>1. Types'
  BY DEF DInv, Types, Capture, Goes, Places
<1>2. \A q \in Runs : at'[q] = IF q = r THEN "captured" ELSE at[q]
  BY DEF DInv, Types, Capture, Goes
<1>3. made[r] = 0 /\ UNCHANGED <<owner, name, made>>
  BY DEF DInv, DirectoriesSound, Capture
<1>4. DirectoriesSound'
  BY <1>2, <1>3 DEF DInv, DirectoriesSound, Holding
<1> QED  BY <1>1, <1>4 DEF DInv

\* The name it chooses is a candidate.
LEMMA ChooseNameKeeps == ASSUME DInv, NEW r \in Runs, ChooseName(r) PROVE DInv'
<1> DEFINE free == {i \in 0..Cardinality(Runs) : ~Taken(<<BaseOf[r], i>>)}
           first == CHOOSE i \in free : \A j \in free : i <= j
<1>1. /\ at[r] = "captured" /\ UNCHANGED <<owner, made>> /\ free # {}
      /\ \/ Goes(r, "refused") /\ name' = name
         \/ Goes(r, "directories") /\ name' = [name EXCEPT ![r] = <<BaseOf[r], first>>]
  BY DEF ChooseName
<1>2. first \in 0..Cardinality(Runs)
  <2>1. free \in SUBSET Nat /\ free \subseteq 0..Cardinality(Runs)
    BY FS_CardinalityType, RunAssumption
  <2>2. \E i \in free : \A j \in free : i <= j
    BY <1>1, <2>1, FirstSuffix
  <2> QED  BY <2>1, <2>2
<1> HIDE DEF free, first
<1>3. <<BaseOf[r], first>> \in Candidates
  BY <1>2, RunAssumption DEF Candidates
<1>4. made[r] = 0
  BY <1>1 DEF DInv, DirectoriesSound
<1>5. CASE Goes(r, "refused") /\ name' = name
  <2>1. Types'
    BY <1>1, <1>5 DEF DInv, Types, Goes, Places
  <2>2. \A q \in Runs : at'[q] = IF q = r THEN "refused" ELSE at[q]
    BY <1>5 DEF DInv, Types, Goes
  <2>3. DirectoriesSound'
    BY <1>1, <1>5, <2>2 DEF DInv, DirectoriesSound, Holding
  <2> QED  BY <2>1, <2>3 DEF DInv
<1>6. CASE Goes(r, "directories") /\ name' = [name EXCEPT ![r] = <<BaseOf[r], first>>]
  <2>1. Types'
    BY <1>1, <1>3, <1>6 DEF DInv, Types, Goes, Places
  <2>2. \A q \in Runs : /\ at'[q] = IF q = r THEN "directories" ELSE at[q]
                        /\ name'[q] = IF q = r THEN <<BaseOf[r], first>> ELSE name[q]
    BY <1>6 DEF DInv, Types, Goes
  <2>3. Len(owner[<<BaseOf[r], first>>]) >= 0
    BY <1>3 DEF DInv, Types
  <2>4. DirectoriesSound'
    BY <1>1, <1>3, <1>4, <2>2, <2>3 DEF DInv, DirectoriesSound, Holding
  <2> QED  BY <2>1, <2>4 DEF DInv
<1> QED  BY <1>1, <1>5, <1>6

\* A directory is made only under a name none of whose directories beyond one's own
\* exists; no run that holds that name is in the way.
LEMMA MakeDirectoryKeeps == ASSUME DInv, NEW r \in Runs, MakeDirectory(r) PROVE DInv'
<1> DEFINE n == name[r]
<1>1. /\ at[r] = "directories" /\ name' = name /\ n \in Candidates /\ made[r] \in Nat
      /\ owner[n] \in Seq(Runs) /\ Len(owner[n]) \in Nat /\ made[r] < 4 /\ made[r] <= Len(owner[n])
      /\ \A i \in 1..made[r] : owner[n][i] = r
  BY DEF DInv, Types, DirectoriesSound, MakeDirectory
<1>2. CASE Len(owner[n]) > made[r]
  <2>1. Goes(r, "refused") /\ UNCHANGED <<made, owner>>
    BY <1>2 DEF MakeDirectory
  <2>2. Types'
    BY <1>1, <2>1 DEF DInv, Types, Goes, Places
  <2>3. \A q \in Runs : at'[q] = IF q = r THEN "refused" ELSE at[q]
    BY <2>1 DEF DInv, Types, Goes
  <2>4. DirectoriesSound'
    BY <1>1, <2>1, <2>3 DEF DInv, DirectoriesSound, Holding
  <2> QED  BY <2>2, <2>4 DEF DInv
<1>3. CASE ~(Len(owner[n]) > made[r])
  <2>1. /\ made' = [made EXCEPT ![r] = @ + 1] /\ owner' = [owner EXCEPT ![n] = Append(@, r)]
        /\ IF made'[r] = 4 THEN Goes(r, "announce") ELSE at' = at
    BY <1>3 DEF MakeDirectory, Areas
  <2>2. Len(owner[n]) = made[r]
    BY <1>1, <1>3
  <2>3. \A q \in Runs : made'[q] = IF q = r THEN made[r] + 1 ELSE made[q]
    BY <2>1 DEF DInv, Types
  <2>4. \A q \in Runs : at'[q] = IF q = r /\ made[r] + 1 = 4 THEN "announce" ELSE at[q]
    BY <2>1, <2>3 DEF DInv, Types, Goes
  <2>5. \A m \in Candidates : owner'[m] = IF m = n THEN Append(owner[n], r) ELSE owner[m]
    BY <1>1, <2>1 DEF DInv, Types
  <2>6. /\ Len(owner'[n]) = made[r] + 1 /\ \A i \in 1..(made[r] + 1) : owner'[n][i] = r
        /\ \A i \in 1..made[r] : owner'[n][i] = owner[n][i]
    <3>1. owner'[n] = Append(owner[n], r)
      BY <1>1, <2>5
    <3> QED  BY <1>1, <2>2, <3>1
  <2>7. Types'
    <3>1. owner' \in [Candidates -> Seq(Runs)]
      BY <1>1, <2>1 DEF DInv, Types
    <3>2. made' \in [Runs -> Nat]
      BY <1>1, <2>1 DEF DInv, Types
    <3>3. at' \in [Runs -> Places]
      BY <2>1 DEF DInv, Types, Goes, Places
    <3> QED  BY <1>1, <3>1, <3>2, <3>3 DEF DInv, Types
  <2>8. ASSUME NEW q \in Runs
        PROVE  /\ at'[q] \in {"idle", "captured"} => made'[q] = 0
               /\ at'[q] = "directories" =>
                     /\ name[q] \in Candidates /\ made'[q] < 4 /\ made'[q] <= Len(owner'[name[q]])
                     /\ \A i \in 1..made'[q] : owner'[name[q]][i] = q
               /\ at'[q] \in Holding =>
                     /\ name[q] \in Candidates /\ Len(owner'[name[q]]) = 4
                     /\ \A i \in 1..4 : owner'[name[q]][i] = q
    <3>1. CASE q = r
      <4>1. made'[r] = made[r] + 1 /\ made[r] + 1 <= 4
        BY <1>1, <2>3
      <4>2. CASE made[r] + 1 = 4
        <5>1. at'[r] = "announce"
          BY <2>4, <4>2
        <5> QED  BY <1>1, <2>6, <3>1, <4>2, <5>1
      <4>3. CASE made[r] + 1 # 4
        <5>1. at'[r] = "directories" /\ made'[r] < 4
          BY <1>1, <2>4, <4>1, <4>3
        <5> QED  BY <1>1, <2>6, <3>1, <4>1, <5>1 DEF Holding
      <4> QED  BY <4>2, <4>3
    <3>2. CASE q # r
      <4>1. at'[q] = at[q] /\ made'[q] = made[q] /\ made[q] \in Nat
        BY <2>3, <2>4, <3>2 DEF DInv, Types
      <4>2. CASE name[q] \in Candidates /\ name[q] = n
        <5>1. at[q] \notin Holding
          BY <1>1, <2>2, <4>2 DEF DInv, DirectoriesSound
        <5>2. at[q] = "directories" => /\ made[q] < 4 /\ made[q] <= made[r]
                                       /\ \A i \in 1..made[q] : owner[n][i] = q
          BY <2>2, <4>2 DEF DInv, DirectoriesSound
        <5>3. at[q] = "directories" => \A i \in 1..made[q] : owner'[n][i] = q
          BY <1>1, <2>6, <4>1, <5>2
        <5>4. at[q] \in {"idle", "captured"} => made[q] = 0
          BY DEF DInv, DirectoriesSound
        <5> QED  BY <1>1, <2>6, <4>1, <4>2, <5>1, <5>2, <5>3, <5>4
      <4>3. CASE name[q] \in Candidates /\ name[q] # n
        <5>1. owner'[name[q]] = owner[name[q]]
          BY <2>5, <4>3
        <5> QED  BY <4>1, <4>3, <5>1 DEF DInv, DirectoriesSound
      <4>4. CASE name[q] \notin Candidates
        BY <4>1, <4>4 DEF DInv, DirectoriesSound
      <4> QED  BY <4>2, <4>3, <4>4
    <3> QED  BY <3>1, <3>2
  <2>9. DirectoriesSound'
    BY <1>1, <2>8 DEF DirectoriesSound
  <2> QED  BY <2>7, <2>9 DEF DInv
<1> QED  BY <1>2, <1>3

\* A crash leaves the directories that are there.
LEMMA CrashKeeps == ASSUME DInv, NEW r \in Runs, Crash(r) PROVE DInv'
<1>1. UNCHANGED <<owner, name, made>> /\ Goes(r, "crashed")
  BY DEF Crash
<1>2. Types'
  BY <1>1 DEF DInv, Types, Goes, Places
<1>3. \A q \in Runs : at'[q] = IF q = r THEN "crashed" ELSE at[q]
  BY <1>1 DEF DInv, Types, Goes
<1>4. DirectoriesSound'
  BY <1>1, <1>3 DEF DInv, DirectoriesSound, Holding
<1> QED  BY <1>2, <1>4 DEF DInv

\* The steps after the start, of a run that holds its directories.
Later(r) == \/ Announce(r) \/ IngestMarket(r) \/ IngestText(r) \/ Annotate(r) \/ Work(r)
            \/ Finalize(r) \/ FailRun(r)

\* None of them changes a directory or a name.
LEMMA LaterStays ==
    ASSUME NEW r \in Runs, Later(r)
    PROVE  UNCHANGED <<owner, name, made>> /\ at[r] \in Holding
BY DEF Later, Annotate, Holding, Places, Announce, IngestMarket, IngestText, Ingest, Running, Work,
       Finalize, FailRun, ConstructAnnotator, LookUp, CheckModel, LoadModel, ConfirmModel, Generate,
       OpenRecord, FillRecord, AllStored, Bind, Shared

\* And all of them go on to hold them, or end.
LEMMA LaterGoes ==
    ASSUME NEW r \in Runs, Later(r)
    PROVE  at' = at \/ \E p \in Places : Goes(r, p) /\ p \in Holding \cup {"refused"}
<1>1. CASE Announce(r)
  BY <1>1 DEF Announce, Raises, Holding, Places
<1>2. CASE IngestMarket(r)
  BY <1>2 DEF IngestMarket, Ingest, StageRaises, Completes, Raises, Holding, Places
<1>3. CASE IngestText(r)
  BY <1>3 DEF IngestText, Ingest, StageRaises, Completes, Raises, Holding, Places
<1>4. CASE ConstructAnnotator(r)
  BY <1>4 DEF ConstructAnnotator, StageRaises, Raises, Holding, Places
<1>5. CASE LookUp(r)
  BY <1>5 DEF LookUp, Raises, Holding, Places
<1>6. CASE CheckModel(r)
  BY <1>6 DEF CheckModel, Raises, Holding, Places
<1>7. CASE LoadModel(r)
  BY <1>7 DEF LoadModel, Raises, Holding, Places
<1>8. CASE ConfirmModel(r)
  BY <1>8 DEF ConfirmModel, Raises, Holding, Places
<1>9. CASE Generate(r)
  BY <1>9 DEF Generate, GenerationFails, Raises, Holding, Places
<1>10. CASE OpenRecord(r)
  BY <1>10 DEF OpenRecord, Raises, Holding, Places
<1>11. CASE FillRecord(r)
  BY <1>11 DEF FillRecord, Raises, Holding, Places
<1>12. CASE AllStored(r)
  BY <1>12 DEF AllStored, Raises, Holding, Places
<1>13. CASE Bind(r)
  BY <1>13 DEF Bind, StageRaises, Completes, Raises, Holding, Places
<1>14. CASE Work(r)
  BY <1>14 DEF Work, StageRaises, Completes, Raises, Holding, Places
<1>15. CASE Finalize(r)
  BY <1>15 DEF Finalize, Raises, Holding, Places
<1>16. CASE FailRun(r)
  BY <1>16 DEF FailRun, Raises, Holding, Places
<1> QED  BY <1>1, <1>2, <1>3, <1>4, <1>5, <1>6, <1>7, <1>8,
            <1>9, <1>10, <1>11, <1>12, <1>13, <1>14, <1>15, <1>16 DEF Later, Annotate

\* A run past its start made every directory it writes in, whatever names the runs were
\* given or chose at once (create_run_context).
THEOREM DirectoriesAreOwn == Spec => []OwnDirectories
<1>1. Init => DInv
  BY DEF Init, DInv, Types, DirectoriesSound, Places, Holding
<1>2. DInv /\ [Next]_vars => DInv'
  <2>1. ASSUME DInv, NEW r \in Runs, Later(r) PROVE DInv'
    BY <2>1, LaterStays, LaterGoes, LaterKeeps, StaysKeeps
  <2>2. ASSUME DInv, NEW r \in Runs, Start(r) PROVE DInv'
    BY <2>1, <2>2, CaptureKeeps, ChooseNameKeeps, MakeDirectoryKeeps DEF Start, Later
  <2>3. CASE Edit \/ UNCHANGED vars
    BY <2>3, StaysKeeps DEF Edit, vars, run
  <2> QED  BY <2>1, <2>2, <2>3, CrashKeeps DEF Next, Later
<1>3. DInv => OwnDirectories
  <2> SUFFICES ASSUME DInv, NEW r \in Runs, at[r] \in Holding
               PROVE  owner[name[r]] = [i \in DOMAIN Areas |-> r]
    BY DEF OwnDirectories
  <2>1. owner[name[r]] \in Seq(Runs) /\ Len(owner[name[r]]) = 4
        /\ \A i \in 1..4 : owner[name[r]][i] = r
    BY DEF DInv, Types, DirectoriesSound
  <2>2. DOMAIN Areas = 1..4
    BY DEF Areas
  <2> QED  BY <2>1, <2>2
<1> QED  BY <1>1, <1>2, <1>3, PTL DEF Spec

-----------------------------------------------------------------------------
(* The inputs of a run *)

\* The places of a run that does not go on, and may have read another model.
Lost == {"failing", "failed", "crashed"}

InputTypes ==
    /\ at \in [Runs -> Places]
    /\ version \in [Roles -> Nat]
    /\ captured \in [Runs -> [Roles -> Nat]] /\ used \in [Runs -> [Roles -> Nat]]
    /\ DOMAIN final = Runs

\* A file only gets newer. What a run reads is what it captured, but for the model
\* between its load and the hash that follows, which is then no older.
InputsSound ==
    \A r \in Runs :
        /\ at[r] = "idle" => \A f \in Roles : used[r][f] = Unread
        /\ at[r] # "idle" => \A f \in Roles : captured[r][f] <= version[f]
        /\ at[r] \notin Lost =>
              \A f \in Roles : used[r][f] \in {Unread, captured[r][f]}
                               \/ (f = "model" /\ at[r] = "loaded")
        /\ at[r] = "loaded" => /\ captured[r]["model"] <= used[r]["model"]
                               /\ used[r]["model"] <= version["model"]
        /\ Complete(r) => at[r] = "complete"

CInv == InputTypes /\ InputsSound

\* No manifest of a run is whole but that of a run that completes, or was before.
WholeOnlyAt(r, p) ==
    /\ DOMAIN final' = Runs
    /\ \A q \in Runs : Complete(q)' => Complete(q) \/ (q = r /\ p = "complete")

\* A step that reads no input keeps what is said of them.
LEMMA ReadsNothing ==
    ASSUME CInv, UNCHANGED <<version, captured, used>>, NEW r \in Runs, NEW p \in Places,
           Goes(r, p), at[r] \notin {"idle", "complete"}, p \notin {"idle", "loaded"},
           p \in Lost \/ at[r] \notin Lost \cup {"loaded"}, WholeOnlyAt(r, p)
    PROVE  CInv'
<1>1. InputTypes'
  BY DEF CInv, InputTypes, Goes, WholeOnlyAt
<1>2. \A q \in Runs : at'[q] = IF q = r THEN p ELSE at[q]
  BY DEF CInv, InputTypes, Goes
<1>3. InputsSound'
  BY <1>2 DEF CInv, InputsSound, WholeOnlyAt, Lost
<1> QED  BY <1>1, <1>3 DEF CInv

\* Nor one that changes none of the places, inputs and manifests.
LEMMA NothingMoves ==
    ASSUME CInv, UNCHANGED <<version, captured, used, at, final>>
    PROVE  CInv'
BY DEF CInv, InputTypes, InputsSound, Complete

\* A file that is edited is newer.
LEMMA EditReads == ASSUME CInv, Edit PROVE CInv'
<1>1. PICK f \in Roles : version' = [version EXCEPT ![f] = @ + 1]
  BY DEF Edit
<1>2. UNCHANGED <<captured, used, at, final>>
  BY DEF Edit, run, work
<1>3. \A g \in Roles : version'[g] \in Nat /\ version'[g] >= version[g]
  BY <1>1 DEF CInv, InputTypes
<1>4. InputTypes'
  BY <1>1, <1>2 DEF CInv, InputTypes
<1>5. ASSUME NEW r \in Runs
      PROVE  /\ at[r] # "idle" => \A g \in Roles : captured[r][g] <= version'[g]
             /\ at[r] = "loaded" => used[r]["model"] <= version'["model"]
  <2>1. \A g \in Roles : captured[r][g] \in Nat /\ used[r][g] \in Nat /\ version[g] \in Nat
    BY DEF CInv, InputTypes
  <2>2. "model" \in Roles
    BY DEF Roles
  <2> QED  BY <1>3, <2>1, <2>2 DEF CInv, InputsSound
<1>6. InputsSound'
  BY <1>2, <1>5 DEF CInv, InputsSound, Complete
<1> QED  BY <1>4, <1>6 DEF CInv

\* A run captures the files as they are, and has read none of them.
LEMMA CaptureReads == ASSUME CInv, NEW r \in Runs, Capture(r) PROVE CInv'
<1>1. /\ at[r] = "idle" /\ captured' = [captured EXCEPT ![r] = version]
      /\ Goes(r, "captured") /\ UNCHANGED <<version, used, final>>
  BY DEF Capture, work
<1>2. InputTypes'
  BY <1>1 DEF CInv, InputTypes, Goes, Places
<1>3. \A q \in Runs : /\ at'[q] = IF q = r THEN "captured" ELSE at[q]
                      /\ captured'[q] = IF q = r THEN version ELSE captured[q]
  BY <1>1 DEF CInv, InputTypes, Goes
<1>4. \A f \in Roles : version[f] <= version[f] /\ used[r][f] = Unread
  BY <1>1 DEF CInv, InputTypes, InputsSound
<1>5. ~Complete(r)
  BY <1>1 DEF CInv, InputsSound
<1>6. InputsSound'
  BY <1>1, <1>3, <1>4, <1>5 DEF CInv, InputsSound, Complete, Lost
<1> QED  BY <1>2, <1>6 DEF CInv

\* What is read is compared with what was captured.
LEMMA IngestReads ==
    ASSUME CInv, NEW r \in Runs, NEW s, NEW roles \in SUBSET Roles, Ingest(r, s, roles)
    PROVE  CInv'
<1>1. at[r] = "stages" /\ UNCHANGED <<version, captured, final>>
  BY DEF Ingest, Running
<1>2. CASE StageRaises(r, s)
  <2>1. Goes(r, "failing") /\ used' = used
    BY <1>2 DEF StageRaises, Raises
  <2>2. WholeOnlyAt(r, "failing")
    BY <1>1 DEF WholeOnlyAt, Complete, CInv, InputTypes
  <2> QED  BY <1>1, <2>1, <2>2, ReadsNothing DEF Lost, Places
<1>3. CASE /\ \A f \in roles : version[f] = captured[r][f]
           /\ used' = [used EXCEPT
                  ![r] = [f \in Roles |-> IF f \in roles THEN version[f] ELSE @[f]]]
           /\ Completes(r, s)
  <2>1. at' = at
    BY <1>1, <1>3 DEF Completes, Goes, CInv, InputTypes
  <2>2. \A q \in Runs :
          used'[q] = IF q = r THEN [f \in Roles |-> IF f \in roles THEN version[f] ELSE used[r][f]]
                     ELSE used[q]
    BY <1>3 DEF CInv, InputTypes
  <2>3. InputTypes'
    BY <1>1, <1>3, <2>1 DEF CInv, InputTypes
  <2>4. \A f \in Roles : used'[r][f] \in {Unread, captured[r][f]}
    BY <1>1, <1>3, <2>2 DEF CInv, InputsSound, Lost
  <2>5. InputsSound'
    BY <1>1, <2>1, <2>2, <2>4 DEF CInv, InputsSound, Complete
  <2> QED  BY <2>3, <2>5 DEF CInv
<1> QED  BY <1>2, <1>3 DEF Ingest

\* The model is hashed before it is used,
LEMMA ConstructReads == ASSUME CInv, NEW r \in Runs, ConstructAnnotator(r) PROVE CInv'
<1>1. at[r] = "stages" /\ UNCHANGED <<version, captured, final>>
  BY DEF ConstructAnnotator, Running, Shared
<1>2. CASE StageRaises(r, "annotate_text")
  <2>1. Goes(r, "failing") /\ used' = used
    BY <1>2 DEF StageRaises, Raises
  <2>2. WholeOnlyAt(r, "failing")
    BY <1>1 DEF WholeOnlyAt, Complete, CInv, InputTypes
  <2> QED  BY <1>1, <2>1, <2>2, ReadsNothing DEF Lost, Places
<1>3. CASE /\ version["model"] = captured[r]["model"] /\ Goes(r, "lookup")
           /\ used' = [used EXCEPT ![r]["model"] = version["model"]]
  <2>1. \A q \in Runs : at'[q] = IF q = r THEN "lookup" ELSE at[q]
    BY <1>3 DEF Goes, CInv, InputTypes
  <2>2. \A q \in Runs, f \in Roles :
            used'[q][f] = IF q = r /\ f = "model" THEN version["model"] ELSE used[q][f]
    BY <1>3 DEF CInv, InputTypes
  <2>3. InputTypes'
    BY <1>1, <1>3 DEF CInv, InputTypes, Goes, Places, Roles
  <2>4. \A f \in Roles : used'[r][f] \in {Unread, captured[r][f]}
    BY <1>1, <1>3, <2>2 DEF CInv, InputsSound, Lost
  <2>5. "model" \in Roles
    BY DEF Roles
  <2>6. InputsSound'
    BY <1>1, <2>1, <2>2, <2>4, <2>5 DEF CInv, InputsSound, Complete
  <2> QED  BY <2>3, <2>6 DEF CInv
<1> QED  BY <1>2, <1>3 DEF ConstructAnnotator

\* and what is loaded is no older than that,
LEMMA LoadReads == ASSUME CInv, NEW r \in Runs, LoadModel(r) PROVE CInv'
<1>1. /\ at[r] = "loading" /\ UNCHANGED <<version, captured, final>> /\ Goes(r, "loaded")
      /\ used' = [used EXCEPT ![r]["model"] = version["model"]]
  BY DEF LoadModel, Shared
<1>2. \A q \in Runs : at'[q] = IF q = r THEN "loaded" ELSE at[q]
  BY <1>1 DEF Goes, CInv, InputTypes
<1>3. \A q \in Runs, f \in Roles :
          used'[q][f] = IF q = r /\ f = "model" THEN version["model"] ELSE used[q][f]
  BY <1>1 DEF CInv, InputTypes
<1>4. "model" \in Roles /\ version["model"] \in Nat
  BY DEF Roles, CInv, InputTypes
<1>5. InputTypes'
  BY <1>1, <1>4 DEF CInv, InputTypes, Goes, Places
<1>6. InputsSound'
  BY <1>1, <1>2, <1>3, <1>4 DEF CInv, InputsSound, Complete, Lost
<1> QED  BY <1>5, <1>6 DEF CInv

\* so that it is what was captured if the file still is.
LEMMA ConfirmReads == ASSUME CInv, NEW r \in Runs, ConfirmModel(r) PROVE CInv'
<1>1. at[r] = "loaded" /\ UNCHANGED <<version, captured, used, final>>
  BY DEF ConfirmModel, Shared, work
<1>2. CASE Raises(r)
  <2>1. WholeOnlyAt(r, "failing")
    BY <1>1 DEF WholeOnlyAt, Complete, CInv, InputTypes
  <2> QED  BY <1>1, <1>2, <2>1, ReadsNothing DEF Raises, Lost, Places
<1>3. CASE version["model"] = captured[r]["model"] /\ Goes(r, "generate")
  <2>1. \A q \in Runs : at'[q] = IF q = r THEN "generate" ELSE at[q]
    BY <1>3 DEF Goes, CInv, InputTypes
  <2>2. InputTypes'
    BY <1>1, <1>3 DEF CInv, InputTypes, Goes, Places
  <2>3. used[r]["model"] = captured[r]["model"]
    <3>1. /\ used[r]["model"] \in Nat /\ captured[r]["model"] \in Nat /\ version["model"] \in Nat
      BY DEF CInv, InputTypes, Roles
    <3>2. captured[r]["model"] <= used[r]["model"] /\ used[r]["model"] <= version["model"]
      BY <1>1 DEF CInv, InputsSound
    <3> QED  BY <1>3, <3>1, <3>2
  <2>4. InputsSound'
    BY <1>1, <2>1, <2>3 DEF CInv, InputsSound, Complete, Lost
  <2> QED  BY <2>2, <2>4 DEF CInv
<1> QED  BY <1>2, <1>3 DEF ConfirmModel

\* The manifest of a run is whole when it completes.
LEMMA FinalizeReads == ASSUME CInv, NEW r \in Runs, Finalize(r) PROVE CInv'
<1>1. at[r] = "stages" /\ UNCHANGED <<version, captured, used>>
  BY DEF Finalize, work
<1>2. CASE /\ final' = [final EXCEPT ![r] = [state |-> "whole", listed |-> files[r]]]
           /\ Goes(r, "complete")
  <2>1. WholeOnlyAt(r, "complete")
    BY <1>2 DEF WholeOnlyAt, Complete, CInv, InputTypes
  <2> QED  BY <1>1, <1>2, <2>1, ReadsNothing DEF Lost, Places
<1>3. CASE /\ Raises(r)
           /\ final' \in {final, [final EXCEPT ![r] = [state |-> "torn", listed |-> {}]]}
  <2>1. WholeOnlyAt(r, "failing")
    BY <1>3 DEF WholeOnlyAt, Complete, CInv, InputTypes
  <2> QED  BY <1>1, <1>3, <2>1, ReadsNothing DEF Raises, Lost, Places
<1> QED  BY <1>2, <1>3 DEF Finalize

\* The steps that read no input.
Blind(r) == \/ ChooseName(r) \/ MakeDirectory(r) \/ Announce(r) \/ LookUp(r) \/ CheckModel(r)
            \/ Generate(r) \/ OpenRecord(r) \/ FillRecord(r) \/ AllStored(r) \/ Bind(r)
            \/ Work(r) \/ FailRun(r) \/ Crash(r)

\* They change neither the files nor what a run captured, read or was told.
LEMMA BlindStays ==
    ASSUME NEW r \in Runs, Blind(r)
    PROVE  UNCHANGED <<version, captured, used, final>>
BY DEF Blind, ChooseName, MakeDirectory, Announce, LookUp, CheckModel, Generate, OpenRecord,
       FillRecord, AllStored, Bind, Work, FailRun, Crash, StageRaises, Completes, Shared, work

\* They move a run on, or out of its stages.
LEMMA BlindGoes ==
    ASSUME NEW r \in Runs, Blind(r)
    PROVE  \/ at' = at
           \/ \E p \in Places \ {"idle", "loaded"} :
                 /\ Goes(r, p) /\ at[r] \notin {"idle", "complete"}
                 /\ p \in Lost \/ at[r] \notin Lost \cup {"loaded"}
<1>1. CASE ChooseName(r)
  BY <1>1 DEF ChooseName, Raises, Places, Lost
<1>2. CASE MakeDirectory(r)
  BY <1>2 DEF MakeDirectory, Raises, Places, Lost
<1>3. CASE Announce(r)
  BY <1>3 DEF Announce, Raises, Places, Lost
<1>4. CASE LookUp(r)
  BY <1>4 DEF LookUp, Raises, Places, Lost
<1>5. CASE CheckModel(r)
  BY <1>5 DEF CheckModel, Raises, Places, Lost
<1>6. CASE Generate(r)
  BY <1>6 DEF Generate, GenerationFails, Raises, Places, Lost
<1>7. CASE OpenRecord(r)
  BY <1>7 DEF OpenRecord, Raises, Places, Lost
<1>8. CASE FillRecord(r)
  BY <1>8 DEF FillRecord, Raises, Places, Lost
<1>9. CASE AllStored(r)
  BY <1>9 DEF AllStored, Raises, Places, Lost
<1>10. CASE Bind(r)
  BY <1>10 DEF Bind, StageRaises, Completes, Raises, Places, Lost
<1>11. CASE Work(r)
  BY <1>11 DEF Work, StageRaises, Completes, Running, Raises, Places, Lost
<1>12. CASE FailRun(r)
  BY <1>12 DEF FailRun, Raises, Places, Lost
<1>13. CASE Crash(r)
  BY <1>13 DEF Crash, Ended, Raises, Places, Lost
<1> QED  BY <1>1, <1>2, <1>3, <1>4, <1>5, <1>6, <1>7,
            <1>8, <1>9, <1>10, <1>11, <1>12, <1>13 DEF Blind

LEMMA InputsAtFirst == Init => CInv
  BY RunAssumption DEF Init, CInv, InputTypes, InputsSound, Places, Unread, Complete, NoFinal

LEMMA InputsNext == CInv /\ [Next]_vars => CInv'
<1>1. ASSUME CInv, NEW r \in Runs, Blind(r) PROVE CInv'
  <2>1. WholeOnlyAt(r, "failing") /\ \A p : WholeOnlyAt(r, p)
    BY <1>1, BlindStays DEF WholeOnlyAt, Complete, CInv, InputTypes
  <2> QED  BY <1>1, <2>1, BlindStays, BlindGoes, ReadsNothing, NothingMoves
<1>2. ASSUME CInv, NEW r \in Runs, IngestMarket(r) \/ IngestText(r) PROVE CInv'
  BY <1>2, IngestReads DEF IngestMarket, IngestText, Roles
<1>3. CASE UNCHANGED vars
  BY <1>3, NothingMoves DEF vars, run, work
<1> QED  BY <1>1, <1>2, <1>3, EditReads, CaptureReads, ConstructReads, LoadReads, ConfirmReads,
            FinalizeReads DEF Next, Start, Annotate, Blind

\* A completed run worked on exactly the inputs its manifest names, however the files
\* were edited under it (_ingest_raw, annotate_text, LlamaCppGenerationSession).
THEOREM InputsAreCaptured == Spec => []CapturedIsUsed
<1>1. CInv => CapturedIsUsed
  BY DEF CInv, InputsSound, CapturedIsUsed, Lost
<1> QED  BY InputsAtFirst, InputsNext, <1>1, PTL DEF Spec

-----------------------------------------------------------------------------
(* The stages in the order of their dependencies *)

First(r, s) == DEPENDENCIES[s][CHOOSE i \in Missing(r, s) : \A j \in Missing(r, s) : i <= j]

\* From a stage: itself, if what it needs is done; else from the first that is not.
DueFrom(r, next) ==
    [s \in Stages |-> IF Missing(r, s) = {} THEN s ELSE next[First(r, s)]]

LEMMA Dependencies ==
    /\ DEPENDENCIES["ingest_market"] = <<>> /\ DEPENDENCIES["ingest_text"] = <<>>
    /\ DEPENDENCIES["annotate_text"] = <<"ingest_market", "ingest_text">>
    /\ DEPENDENCIES["build_features"] = <<"annotate_text">>
    /\ DEPENDENCIES["build_labels"] = <<"ingest_market">>
    /\ DEPENDENCIES["train"] = <<"build_features", "build_labels">>
    /\ DEPENDENCIES["predict"] = <<"train">>
    /\ DEPENDENCIES["backtest"] = <<"predict">> /\ DEPENDENCIES["paper"] = <<"predict">>
    /\ DEPENDENCIES["report"] = <<"backtest">>
  BY DEF DEPENDENCIES, Stages

\* The stages by how far they are from the first.
Rank == [s \in Stages |->
            CASE s \in {"ingest_market", "ingest_text"} -> 0
              [] s \in {"annotate_text", "build_labels"} -> 1
              [] s = "build_features" -> 2
              [] s = "train" -> 3
              [] s = "predict" -> 4
              [] s \in {"backtest", "paper"} -> 5
              [] s = "report" -> 6]

LEMMA DependenciesAreStages ==
    ASSUME NEW s \in Stages, NEW i \in DOMAIN DEPENDENCIES[s]
    PROVE  /\ DEPENDENCIES[s][i] \in Stages /\ Rank[DEPENDENCIES[s][i]] < Rank[s]
           /\ i \in Nat
  BY Dependencies DEF Stages, Rank

LEMMA FewDependencies ==
    ASSUME NEW s \in Stages
    PROVE  DOMAIN DEPENDENCIES[s] \subseteq {1, 2}
<1>1. DOMAIN <<>> = {}
  OBVIOUS
<1>2. \A a : DOMAIN <<a>> = {1}
  OBVIOUS
<1>3. \A a, b : DOMAIN <<a, b>> = {1, 2}
  OBVIOUS
<1> QED  BY <1>1, <1>2, <1>3, Dependencies DEF Stages

LEMMA FirstIsMissing ==
    ASSUME NEW r, NEW s \in Stages, Missing(r, s) # {}
    PROVE  First(r, s) \in Stages \ done[r] /\ Rank[First(r, s)] < Rank[s]
<1>1. Missing(r, s) \subseteq {1, 2}
  BY FewDependencies DEF Missing
<1>2. \E i \in Missing(r, s) : \A j \in Missing(r, s) : i <= j
  BY <1>1
<1>3. First(r, s) \in {DEPENDENCIES[s][i] : i \in Missing(r, s)}
  BY <1>2 DEF First
<1> QED  BY <1>3, DependenciesAreStages DEF Missing

Agree(n, f, g) == \A s \in Stages : Rank[s] < n => f[s] = g[s]

LEMMA AgreeMore ==
    ASSUME NEW r, NEW n \in Nat, NEW f, NEW g, Agree(n, f, g)
    PROVE  Agree(n + 1, DueFrom(r, f), DueFrom(r, g))
<1> SUFFICES ASSUME NEW s \in Stages, Rank[s] < n + 1
             PROVE  DueFrom(r, f)[s] = DueFrom(r, g)[s]
  BY DEF Agree
<1>0. \A t \in Stages : Rank[t] \in Nat
  BY DEF Rank, Stages
<1>1. CASE Missing(r, s) = {}
  BY <1>1 DEF DueFrom
<1>2. CASE Missing(r, s) # {}
  <2>1. First(r, s) \in Stages /\ Rank[First(r, s)] < Rank[s]
    BY <1>2, FirstIsMissing
  <2>2. Rank[First(r, s)] < n
    BY <1>0, <2>1
  <2>3. f[First(r, s)] = g[First(r, s)]
    BY <2>1, <2>2 DEF Agree
  <2> QED  BY <1>2, <2>3 DEF DueFrom
<1> QED  BY <1>1, <1>2

\* The recursion has a value.
LEMMA DueIsDefined ==
    ASSUME NEW r
    PROVE  \E next : next = DueFrom(r, next)
<1> DEFINE F0 == [s \in Stages |-> s]
           F1 == DueFrom(r, F0)
           F2 == DueFrom(r, F1)
           F3 == DueFrom(r, F2)
           F4 == DueFrom(r, F3)
           F5 == DueFrom(r, F4)
           F6 == DueFrom(r, F5)
           F7 == DueFrom(r, F6)
           F8 == DueFrom(r, F7)
<1>0. \A s \in Stages : Rank[s] \in 0..6
  BY DEF Rank, Stages
<1>1. Agree(0, F0, F1)
  BY <1>0 DEF Agree
<1> HIDE DEF F0
<1>2. Agree(0 + 1, F1, F2)
  BY <1>1, AgreeMore
<1>3. Agree(0 + 1 + 1, F2, F3)
  BY <1>2, AgreeMore
<1>4. Agree(0 + 1 + 1 + 1, F3, F4)
  BY <1>3, AgreeMore
<1>5. Agree(0 + 1 + 1 + 1 + 1, F4, F5)
  BY <1>4, AgreeMore
<1>6. Agree(0 + 1 + 1 + 1 + 1 + 1, F5, F6)
  BY <1>5, AgreeMore
<1>7. Agree(0 + 1 + 1 + 1 + 1 + 1 + 1, F6, F7)
  BY <1>6, AgreeMore
<1>8. Agree(0 + 1 + 1 + 1 + 1 + 1 + 1 + 1, F7, F8)
  BY <1>7, AgreeMore
<1>9. \A s \in Stages : F7[s] = F8[s]
  BY <1>0, <1>8 DEF Agree
<1>10. F7 = [s \in Stages |-> F7[s]] /\ F8 = [s \in Stages |-> F8[s]]
  BY DEF DueFrom
<1> HIDE DEF F7
<1>11. F7 = F8
  BY <1>9, <1>10
<1>12. F7 = DueFrom(r, F7)
  BY <1>11
<1> QED  BY <1>12

DueFunction(r) == CHOOSE next : next = DueFrom(r, next)

\* From a stage that is not done the recursion comes to one that can be done.
Comes(r, n, f) ==
    \A s \in Stages \ done[r] :
        Rank[s] < n => f[s] \in Stages \ done[r] /\ Missing(r, f[s]) = {}

LEMMA ComesMore ==
    ASSUME NEW r, NEW n \in Nat, NEW f, f = DueFrom(r, f), Comes(r, n, f)
    PROVE  Comes(r, n + 1, f)
<1> SUFFICES ASSUME NEW s \in Stages \ done[r], Rank[s] < n + 1
             PROVE  f[s] \in Stages \ done[r] /\ Missing(r, f[s]) = {}
  BY DEF Comes
<1>0. \A t \in Stages : Rank[t] \in Nat
  BY DEF Rank, Stages
<1>1. f[s] = IF Missing(r, s) = {} THEN s ELSE f[First(r, s)]
  BY DEF DueFrom
<1>2. CASE Missing(r, s) = {}
  BY <1>1, <1>2
<1>3. CASE Missing(r, s) # {}
  <2>1. First(r, s) \in Stages \ done[r] /\ Rank[First(r, s)] < Rank[s]
    BY <1>3, FirstIsMissing
  <2>2. Rank[First(r, s)] < n
    BY <1>0, <2>1
  <2> QED  BY <1>1, <1>3, <2>1, <2>2 DEF Comes
<1> QED  BY <1>2, <1>3

\* The stage that is due is not done, and all it depends on is.
LEMMA DueIs ==
    ASSUME NEW r, Target[r] \in Stages \ done[r]
    PROVE  Due(r) \in Stages \ done[r] /\ Missing(r, Due(r)) = {}
<1> DEFINE f == DueFunction(r)
<1>1. f = DueFrom(r, f)
  BY DueIsDefined DEF DueFunction
<1>2. Due(r) = f[Target[r]]
  BY DEF Due, DueFunction, DueFrom, First
<1> HIDE DEF f
<1>3. \A s \in Stages : Rank[s] \in 0..6
  BY DEF Rank, Stages
<1>4. Comes(r, 0, f)
  BY <1>3 DEF Comes
<1>5. Comes(r, 0 + 1 + 1 + 1, f)
  BY <1>1, <1>4, ComesMore
<1>6. Comes(r, 0 + 1 + 1 + 1 + 1 + 1, f)
  BY <1>1, <1>5, ComesMore
<1>7. Comes(r, 0 + 1 + 1 + 1 + 1 + 1 + 1 + 1, f)
  BY <1>1, <1>6, ComesMore
<1>8. Target[r] \in Stages \ done[r] /\ Rank[Target[r]] < 0 + 1 + 1 + 1 + 1 + 1 + 1 + 1
  BY <1>3
<1>9. f[Target[r]] \in Stages \ done[r] /\ Missing(r, f[Target[r]]) = {}
  BY <1>7, <1>8 DEF Comes
<1> QED  BY <1>2, <1>9
-----------------------------------------------------------------------------
(* The files of a run *)

\* The annotator is at work; the run has started and has not failed.
Asking == {"lookup", "load", "loading", "loaded", "generate", "store", "filling", "bind"}
Started == Asking \cup {"stages", "complete"}

\* A run that has not failed has the files of the stages it has done, whole, and no
\* others; a manifest that is whole is of a run that is complete.
FilesSound(r) ==
    /\ \A s \in Stages : Whole(s) \in files[r] <=> s \in done[r]
    /\ \A s \in done[r] : Missing(r, s) = {}
    /\ at[r] \notin Lost \cup {"refused"} =>
           /\ \A s \in Stages : Partly(s) \notin files[r]
           /\ Whole("failed") \notin files[r] /\ Partly("failed") \notin files[r]
    /\ at[r] \in Started => Whole("initial") \in files[r]
    /\ at[r] \in Asking => Missing(r, "annotate_text") = {} /\ "annotate_text" \notin done[r]
    /\ Complete(r) =>
           at[r] = "complete" /\ final[r].listed = files[r] /\ Target[r] \in done[r]

FileTypes ==
    /\ at \in [Runs -> Places] /\ done \in [Runs -> SUBSET Stages]
    /\ DOMAIN files = Runs /\ DOMAIN final = Runs

MInv == FileTypes /\ \A r \in Runs : FilesSound(r)

LEMMA FilesApart ==
    /\ \A s, t \in Stages \cup {"initial", "failed"} :
          Whole(s) # Partly(t) /\ (Whole(s) = Whole(t) => s = t)
    /\ "initial" \notin Stages /\ "failed" \notin Stages
  BY DEF Whole, Partly, Stages

\* Only run r moves.
Alone(r) ==
    \A q \in Runs \ {r} :
        at'[q] = at[q] /\ done'[q] = done[q] /\ files'[q] = files[q] /\ final'[q] = final[q]

LEMMA FilesOfOne ==
    ASSUME MInv, NEW r \in Runs, Alone(r), FileTypes', FilesSound(r)'
    PROVE  MInv'
<1>1. ASSUME NEW q \in Runs, q # r PROVE FilesSound(q)'
  <2>1. at'[q] = at[q] /\ done'[q] = done[q] /\ files'[q] = files[q] /\ final'[q] = final[q]
    BY <1>1 DEF Alone
  <2> QED  BY <2>1 DEF MInv, FilesSound, Missing, Complete
<1> QED  BY <1>1 DEF MInv

\* A step that writes no file of the run's own and ends nothing.
LEMMA FilesAsTheyAre ==
    ASSUME MInv, NEW r \in Runs, NEW p \in Places, Goes(r, p), UNCHANGED <<done, files, final>>,
           at[r] # "complete",
           p \in Started => at[r] \in Started,
           p \notin Lost \cup {"refused"} => at[r] \notin Lost \cup {"refused"},
           p \in Asking => Missing(r, "annotate_text") = {} /\ "annotate_text" \notin done[r]
    PROVE  MInv'
<1>1. \A q \in Runs : at'[q] = IF q = r THEN p ELSE at[q]
  BY DEF MInv, FileTypes, Goes
<1>2. FileTypes' /\ Alone(r)
  BY <1>1 DEF MInv, FileTypes, Goes, Alone
<1>3. FilesSound(r)'
  BY <1>1 DEF MInv, FilesSound, Missing, Complete
<1> QED  BY <1>2, <1>3, FilesOfOne

\* A stage that fails leaves some of its files, and the run for lost.
LEMMA FilesOfTheLost ==
    ASSUME MInv, NEW r \in Runs, NEW p \in Lost \cup {"refused"}, Goes(r, p), done' = done,
           NEW file, \A s \in Stages : file # Whole(s),
           files' = files \/ Leaves(r, file),
           DOMAIN final' = Runs, \A q \in Runs \ {r} : final'[q] = final[q],
           ~Complete(r)'
    PROVE  MInv'
<1>1. \A q \in Runs : at'[q] = IF q = r THEN p ELSE at[q]
  BY DEF MInv, FileTypes, Goes
<1>2. /\ DOMAIN files' = Runs /\ files'[r] \in {files[r], files[r] \cup {file}}
      /\ \A q \in Runs \ {r} : files'[q] = files[q]
  BY DEF MInv, FileTypes, Leaves
<1>3. FileTypes' /\ Alone(r)
  BY <1>1, <1>2 DEF MInv, FileTypes, Goes, Alone, Lost, Places
<1>4. \A s \in Stages : Whole(s) \in files'[r] <=> Whole(s) \in files[r]
  BY <1>2
<1>5. FilesSound(r)'
  BY <1>1, <1>4 DEF MInv, FilesSound, Missing, Lost, Started, Asking
<1> QED  BY <1>3, <1>5, FilesOfOne

\* A stage is done with all it depends on done.
LEMMA FilesOfAStage ==
    ASSUME MInv, NEW r \in Runs, NEW s \in Stages, Completes(r, s), final' = final,
           at[r] \in Asking \cup {"stages"}, Missing(r, s) = {}
    PROVE  MInv'
<1>1. \A q \in Runs : /\ at'[q] = IF q = r THEN "stages" ELSE at[q]
                      /\ done'[q] = IF q = r THEN done[r] \cup {s} ELSE done[q]
                      /\ files'[q] = IF q = r THEN files[r] \cup {Whole(s)} ELSE files[q]
  BY DEF MInv, FileTypes, Completes, Goes, Leaves
<1>2. FileTypes' /\ Alone(r)
  BY <1>1 DEF MInv, FileTypes, Completes, Goes, Leaves, Alone, Places
<1>3. \A t \in done'[r] : Missing(r, t)' = {}
  <2>1. \A t \in done'[r] : Missing(r, t) = {}
    BY <1>1 DEF MInv, FilesSound
  <2> QED  BY <1>1, <2>1 DEF Missing
<1>4. /\ \A t \in Stages : /\ Whole(t) \in files'[r] <=> t \in done'[r]
                           /\ Partly(t) \in files'[r] => Partly(t) \in files[r]
      /\ Whole("failed") \in files'[r] => Whole("failed") \in files[r]
      /\ Partly("failed") \in files'[r] => Partly("failed") \in files[r]
      /\ Whole("initial") \in files[r] => Whole("initial") \in files'[r]
  BY <1>1, FilesApart DEF MInv, FilesSound
<1>5. at[r] \notin Lost \cup {"refused", "complete"} /\ at[r] \in Started
  BY DEF Asking, Lost, Started
<1>6. ~Complete(r)
  BY <1>5 DEF MInv, FilesSound
<1>7. FilesSound(r)'
  <2>1. at'[r] = "stages" /\ "stages" \notin Asking /\ final'[r] = final[r]
    BY <1>1 DEF Asking
  <2> QED  BY <1>3, <1>4, <1>5, <1>6, <2>1 DEF MInv, FilesSound, Complete
<1> QED  BY <1>2, <1>7, FilesOfOne

\* A stage that raises.
LEMMA FilesOfARaise ==
    ASSUME MInv, NEW r \in Runs, NEW s \in Stages, StageRaises(r, s), final' = final,
           at[r] # "complete"
    PROVE  MInv'
<1>1. /\ Goes(r, "failing") /\ done' = done
      /\ files' = files \/ Leaves(r, Partly(s))
  BY DEF StageRaises, Raises
<1>2. "failing" \in Lost \cup {"refused"} /\ \A t \in Stages : Partly(s) # Whole(t)
  BY FilesApart DEF Lost
<1>3. ~Complete(r)' /\ DOMAIN final' = Runs
  BY DEF MInv, FileTypes, FilesSound, Complete
<1> QED  BY <1>1, <1>2, <1>3, FilesOfTheLost

\* A raise in the annotator, between its files.
LEMMA FilesOfAnError ==
    ASSUME MInv, NEW r \in Runs, NEW p \in Lost \cup {"refused"}, Goes(r, p), at[r] # "complete",
           UNCHANGED <<done, files, final>>
    PROVE  MInv'
<1>1. ~Complete(r)' /\ DOMAIN final' = Runs
  BY DEF MInv, FileTypes, FilesSound, Complete
<1>2. \A t \in Stages : Partly("failed") # Whole(t)
  BY FilesApart
<1> QED  BY <1>1, <1>2, FilesOfTheLost

\* The beginning: nothing but the name and the directories.
LEMMA FilesOfTheStart ==
    ASSUME MInv, NEW r \in Runs, Capture(r) \/ ChooseName(r) \/ MakeDirectory(r)
    PROVE  MInv'
<1>1. UNCHANGED <<done, files, final>>
  BY DEF Capture, ChooseName, MakeDirectory, work
<1>2. \/ at' = at
      \/ \E p \in {"captured", "directories", "announce", "refused"} : Goes(r, p)
  BY DEF Capture, ChooseName, MakeDirectory
<1>3. at[r] \in {"idle", "captured", "directories"}
  BY DEF Capture, ChooseName, MakeDirectory
<1>4. CASE at' = at
  BY <1>1, <1>4 DEF MInv, FileTypes, FilesSound, Missing, Complete
<1>5. CASE Goes(r, "refused")
  BY <1>1, <1>3, <1>5, FilesOfAnError
<1>6. ASSUME NEW p \in {"captured", "directories", "announce"}, Goes(r, p) PROVE MInv'
  <2>1. p \in Places /\ p \notin Started /\ p \notin Asking
    BY DEF Places, Started, Asking
  <2> QED  BY <1>1, <1>3, <1>6, <2>1, FilesAsTheyAre DEF Lost
<1> QED  BY <1>2, <1>4, <1>5, <1>6

LEMMA FilesOfAnnounce ==
    ASSUME MInv, NEW r \in Runs, Announce(r) PROVE MInv'
<1>1. at[r] = "announce" /\ UNCHANGED <<done, final>>
  BY DEF Announce
<1>2. ~Complete(r) /\ DOMAIN final' = Runs
  BY <1>1 DEF MInv, FileTypes, FilesSound
<1>3. CASE Goes(r, "stages") /\ Leaves(r, Whole("initial"))
  <2>1. \A q \in Runs : /\ at'[q] = IF q = r THEN "stages" ELSE at[q]
                        /\ files'[q] = IF q = r THEN files[r] \cup {Whole("initial")} ELSE files[q]
    BY <1>3 DEF MInv, FileTypes, Goes, Leaves
  <2>2. FileTypes' /\ Alone(r)
    BY <1>1, <1>3, <2>1 DEF MInv, FileTypes, Goes, Leaves, Alone, Places
  <2>3. \A t \in Stages \cup {"failed"} :
           /\ Whole(t) \in files'[r] <=> Whole(t) \in files[r]
           /\ Partly(t) \in files'[r] <=> Partly(t) \in files[r]
    BY <2>1, FilesApart
  <2>4. FilesSound(r)'
    <3>1. at'[r] = "stages" /\ "stages" \notin Asking /\ "stages" \notin Lost \cup {"refused"}
          /\ Whole("initial") \in files'[r]
      BY <2>1 DEF Asking, Lost
    <3>2. at[r] \notin Lost \cup {"refused"}
      BY <1>1 DEF Lost
    <3> QED  BY <1>1, <1>2, <2>3, <3>1, <3>2 DEF MInv, FilesSound, Complete, Missing
  <2> QED  BY <2>2, <2>4, FilesOfOne
<1>4. CASE Goes(r, "refused") /\ (files' = files \/ Leaves(r, Partly("initial")))
  <2>1. \A t \in Stages : Partly("initial") # Whole(t)
    BY FilesApart
  <2> QED  BY <1>1, <1>2, <1>4, <2>1, FilesOfTheLost DEF Complete
<1> QED  BY <1>3, <1>4 DEF Announce

\* What is due is not done, and all that it needs is.
LEMMA RunningIs ==
    ASSUME NEW r \in Runs, NEW s, Running(r, s)
    PROVE  s \in Stages \ done[r] /\ Missing(r, s) = {} /\ at[r] = "stages"
  BY DueIs, RunAssumption DEF Running

LEMMA FilesOfIngest ==
    ASSUME MInv, NEW r \in Runs, IngestMarket(r) \/ IngestText(r) \/ Work(r) PROVE MInv'
<1>1. PICK s : Running(r, s) /\ (StageRaises(r, s) \/ Completes(r, s)) /\ final' = final
  BY DEF IngestMarket, IngestText, Work, Ingest
<1>2. s \in Stages /\ Missing(r, s) = {} /\ at[r] = "stages"
  BY <1>1, RunningIs
<1> QED  BY <1>1, <1>2, FilesOfARaise, FilesOfAStage

\* The annotator writes no file of the run's own before it binds.
LEMMA FilesOfTheAnnotator ==
    ASSUME MInv, NEW r \in Runs, Annotate(r) PROVE MInv'
<1>0. "annotate_text" \in Stages
  BY DEF Stages
<1>1. CASE ConstructAnnotator(r)
  <2>1. /\ Running(r, "annotate_text") /\ final' = final
        /\ \/ StageRaises(r, "annotate_text")
           \/ Goes(r, "lookup") /\ UNCHANGED <<done, files>>
    BY <1>1 DEF ConstructAnnotator, Shared
  <2>2. Missing(r, "annotate_text") = {} /\ "annotate_text" \notin done[r] /\ at[r] = "stages"
    BY <2>1, RunningIs
  <2>3. CASE StageRaises(r, "annotate_text")
    BY <1>0, <2>1, <2>2, <2>3, FilesOfARaise
  <2>4. CASE Goes(r, "lookup") /\ UNCHANGED <<done, files>>
    BY <2>1, <2>2, <2>4, FilesAsTheyAre DEF Places, Started, Asking, Lost
  <2> QED  BY <2>1, <2>3, <2>4
<1>2. CASE LookUp(r)
  <2>1. /\ at[r] = "lookup" /\ UNCHANGED <<done, final>>
        /\ \/ files' = files /\ (at' = at \/ Goes(r, "bind") \/ Goes(r, "load"))
           \/ Goes(r, "failing") /\ (files' = files \/ Leaves(r, Partly("annotate_text")))
    BY <1>2 DEF LookUp, Shared, Raises
  <2>2. Missing(r, "annotate_text") = {} /\ "annotate_text" \notin done[r]
    BY <2>1 DEF MInv, FilesSound, Asking
  <2>3. CASE UNCHANGED <<at, files>>
    BY <2>1, <2>3 DEF MInv, FileTypes, FilesSound, Missing, Complete
  <2>4. CASE files' = files /\ (Goes(r, "bind") \/ Goes(r, "load"))
    BY <2>1, <2>2, <2>4, FilesAsTheyAre DEF Places, Started, Asking, Lost
  <2>5. CASE Goes(r, "failing") /\ (files' = files \/ Leaves(r, Partly("annotate_text")))
    <3>1. ~Complete(r) /\ DOMAIN final' = Runs
      BY <2>1 DEF MInv, FileTypes, FilesSound
    <3>2. \A t \in Stages : Partly("annotate_text") # Whole(t)
      BY <1>0, FilesApart
    <3> QED  BY <2>1, <2>5, <3>1, <3>2, FilesOfTheLost DEF Complete, Lost
  <2> QED  BY <2>1, <2>3, <2>4, <2>5
<1>3. ASSUME \/ CheckModel(r) \/ LoadModel(r) \/ ConfirmModel(r) \/ Generate(r)
             \/ OpenRecord(r) \/ FillRecord(r) \/ AllStored(r)
      PROVE  MInv'
  <2>1. at[r] \in Asking /\ UNCHANGED <<done, files, final>>
    BY <1>3 DEF CheckModel, LoadModel, ConfirmModel, Generate, OpenRecord, FillRecord, AllStored,
                Shared, work, Asking
  <2>2. \/ at' = at \/ Goes(r, "failing")
        \/ \E p \in Asking : Goes(r, p)
    BY <1>3 DEF CheckModel, LoadModel, ConfirmModel, Generate, GenerationFails, OpenRecord,
                FillRecord, AllStored, Raises, Asking
  <2>3. Missing(r, "annotate_text") = {} /\ "annotate_text" \notin done[r]
    BY <2>1 DEF MInv, FilesSound
  <2>4. CASE at' = at
    BY <2>1, <2>4 DEF MInv, FileTypes, FilesSound, Missing, Complete
  <2>5. CASE Goes(r, "failing")
    BY <2>1, <2>5, FilesOfAnError DEF Lost, Asking
  <2>6. ASSUME NEW p \in Asking, Goes(r, p) PROVE MInv'
    <3>1. p \in Places /\ at[r] # "complete" /\ at[r] \notin Lost \cup {"refused"}
          /\ at[r] \in Started
      BY <2>1 DEF Places, Started, Asking, Lost
    <3> QED  BY <2>1, <2>3, <2>6, <3>1, FilesAsTheyAre
  <2> QED  BY <2>2, <2>4, <2>5, <2>6
<1>4. CASE Bind(r)
  <2>1. /\ at[r] = "bind" /\ final' = final
        /\ StageRaises(r, "annotate_text") \/ Completes(r, "annotate_text")
    BY <1>4 DEF Bind, Shared
  <2>2. Missing(r, "annotate_text") = {} /\ at[r] \in Asking
    BY <2>1 DEF MInv, FilesSound, Asking
  <2> QED  BY <1>0, <2>1, <2>2, FilesOfARaise, FilesOfAStage
<1> QED  BY <1>1, <1>2, <1>3, <1>4 DEF Annotate

LEMMA FilesOfFinalize ==
    ASSUME MInv, NEW r \in Runs, Finalize(r) PROVE MInv'
<1>1. at[r] = "stages" /\ Target[r] \in done[r] /\ UNCHANGED <<done, files>>
  BY DEF Finalize, work
<1>2. CASE /\ final' = [final EXCEPT ![r] = [state |-> "whole", listed |-> files[r]]]
           /\ Goes(r, "complete")
  <2>1. /\ \A q \in Runs : at'[q] = IF q = r THEN "complete" ELSE at[q]
        /\ \A q \in Runs \ {r} : final'[q] = final[q]
        /\ final'[r] = [state |-> "whole", listed |-> files[r]] /\ DOMAIN final' = Runs
    BY <1>2 DEF MInv, FileTypes, Goes
  <2>2. FileTypes' /\ Alone(r)
    BY <1>1, <2>1, <1>2 DEF MInv, FileTypes, Goes, Alone, Places
  <2>3. /\ "complete" \notin Asking /\ at[r] \in Started /\ at[r] \notin Lost \cup {"refused"}
    BY <1>1 DEF Asking, Started, Lost
  <2>4. at'[r] = "complete" /\ final'[r].listed = files[r]
    BY <2>1
  <2>5. FilesSound(r)'
    BY <1>1, <2>3, <2>4 DEF MInv, FilesSound, Complete, Missing
  <2> QED  BY <2>2, <2>5, FilesOfOne
<1>3. CASE /\ Raises(r)
           /\ final' \in {final, [final EXCEPT ![r] = [state |-> "torn", listed |-> {}]]}
  <2>1. /\ DOMAIN final' = Runs /\ \A q \in Runs \ {r} : final'[q] = final[q]
        /\ final'[r] \in {final[r], [state |-> "torn", listed |-> {}]}
    BY <1>3 DEF MInv, FileTypes
  <2>2. ~Complete(r)'
    BY <1>1, <2>1 DEF MInv, FilesSound, Complete
  <2>3. \A t \in Stages : Partly("failed") # Whole(t)
    BY FilesApart
  <2> QED  BY <1>1, <1>3, <2>1, <2>2, <2>3, FilesOfTheLost DEF Raises, Lost
<1> QED  BY <1>2, <1>3 DEF Finalize

LEMMA FilesOfTheEnd ==
    ASSUME MInv, NEW r \in Runs, FailRun(r) \/ Crash(r) PROVE MInv'
<1>1. CASE FailRun(r)
  <2>1. /\ at[r] = "failing" /\ UNCHANGED <<done, final>> /\ Goes(r, "failed")
        /\ files' = files \/ Leaves(r, Whole("failed")) \/ Leaves(r, Partly("failed"))
    BY <1>1 DEF FailRun
  <2>2. ~Complete(r)' /\ DOMAIN final' = Runs /\ "failed" \in Lost \cup {"refused"}
    BY <2>1 DEF MInv, FileTypes, FilesSound, Complete, Lost
  <2>3. \A t \in Stages : Partly("failed") # Whole(t) /\ Whole("failed") # Whole(t)
    BY FilesApart
  <2> QED  BY <2>1, <2>2, <2>3, FilesOfTheLost
<1>2. CASE Crash(r)
  BY <1>2, FilesOfAnError DEF Crash, Ended, Lost, work
<1> QED  BY <1>1, <1>2

\* What the invariant says of a whole manifest.
LEMMA ManifestIsTrue == ASSUME MInv PROVE FinalManifestHolds
<1> SUFFICES ASSUME NEW r \in Runs, Complete(r)
             PROVE  /\ final[r].listed = files[r]
                    /\ Whole("initial") \in files[r] /\ Whole(Target[r]) \in files[r]
                    /\ \A s \in Stages : Whole(s) \in files[r] =>
                          /\ Partly(s) \notin files[r]
                          /\ ToSet(DEPENDENCIES[s])
                                \subseteq {d \in Stages : Whole(d) \in files[r]}
                    /\ {Whole("failed"), Partly("failed")} \cap files[r] = {}
  BY DEF FinalManifestHolds
<1>1. /\ FilesSound(r) /\ at[r] = "complete" /\ final[r].listed = files[r]
      /\ Target[r] \in done[r]
  BY DEF MInv, FilesSound
<1>2. Target[r] \in Stages /\ at[r] \in Started /\ at[r] \notin Lost \cup {"refused"}
  BY <1>1, RunAssumption DEF Started, Lost
<1>3. ASSUME NEW s \in Stages, Whole(s) \in files[r]
      PROVE  ToSet(DEPENDENCIES[s]) \subseteq {d \in Stages : Whole(d) \in files[r]}
  <2>1. Missing(r, s) = {}
    BY <1>1, <1>3 DEF FilesSound
  <2>2. \A i \in DOMAIN DEPENDENCIES[s] :
            DEPENDENCIES[s][i] \in done[r] /\ DEPENDENCIES[s][i] \in Stages
    BY <2>1, DependenciesAreStages DEF Missing
  <2> QED  BY <1>1, <2>2 DEF FilesSound, ToSet
<1> QED  BY <1>1, <1>2, <1>3 DEF FilesSound

LEMMA FilesStay == ASSUME MInv, UNCHANGED <<at, done, files, final>> PROVE MInv'
  BY DEF MInv, FileTypes, FilesSound, Missing, Complete

LEMMA FilesAtFirst == Init => MInv
  BY FilesApart DEF Init, MInv, FileTypes, FilesSound, Missing, Complete, NoFinal, Places,
                    Started, Asking

LEMMA FilesNext == MInv /\ [Next]_vars => MInv'
<1>1. ASSUME MInv, Edit \/ UNCHANGED vars PROVE MInv'
  BY <1>1, FilesStay DEF Edit, vars, run, work
<1> QED  BY <1>1, FilesOfTheStart, FilesOfAnnounce, FilesOfIngest, FilesOfTheAnnotator,
            FilesOfFinalize, FilesOfTheEnd DEF Next, Start

\* A final manifest lists every artifact of the run and no other, of every stage the
\* target needs, whole, and none of a failure (finalize_run, artifact_manifest).
THEOREM ManifestsAreWhole == Spec => []FinalManifestHolds
  BY FilesAtFirst, FilesNext, ManifestIsTrue, PTL DEF Spec

-----------------------------------------------------------------------------
(* The keys of a run *)

\* What a run has read, it captured: the text once it is ingested, and the model
\* while it answers but between its load and the hash that follows.
ReadOf(r) ==
    /\ at[r] = "idle" => done[r] = {}
    /\ "ingest_text" \in done[r] => used[r]["text"] = captured[r]["text"]
    /\ at[r] \in Asking \ {"loaded"} \/ "annotate_text" \in done[r] =>
           used[r]["model"] = captured[r]["model"]
ReadSound == version \in [Roles -> Versions] /\ \A r \in Runs : ReadOf(r)

Base == CInv /\ MInv /\ ReadSound

\* What the run knows of the files does not change.
LEMMA ReadAsItIs ==
    ASSUME Base, UNCHANGED <<version, captured, used, done>>,
           at' = at \/ \E r \in Runs, p \in Places \ {"idle"} :
               Goes(r, p) /\ (p \in Asking \ {"loaded"} => at[r] \in Asking \ {"loaded"})
    PROVE  ReadSound'
<1>1. CASE at' = at
  BY <1>1 DEF Base, ReadSound, ReadOf
<1>2. ASSUME NEW r \in Runs, NEW p \in Places \ {"idle"}, Goes(r, p),
             p \in Asking \ {"loaded"} => at[r] \in Asking \ {"loaded"}
      PROVE  ReadSound'
  <2>1. \A q \in Runs : at'[q] = IF q = r THEN p ELSE at[q]
    BY <1>2 DEF Base, CInv, InputTypes, Goes
  <2> QED  BY <1>2, <2>1 DEF Base, ReadSound, ReadOf
<1> QED  BY <1>1, <1>2

\* A run that moves alone.
LEMMA ReadOfOne ==
    ASSUME Base, NEW r \in Runs, version' = version, ReadOf(r)',
           \A q \in Runs \ {r} : /\ at'[q] = at[q] /\ done'[q] = done[q]
                                 /\ used'[q] = used[q] /\ captured'[q] = captured[q]
    PROVE  ReadSound'
  BY DEF Base, ReadSound, ReadOf

LEMMA ReadNext == Base /\ [Next]_vars => ReadSound'
<1> SUFFICES ASSUME Base, [Next]_vars PROVE ReadSound'
  OBVIOUS
<1>0. /\ at \in [Runs -> Places] /\ done \in [Runs -> SUBSET Stages]
      /\ version \in [Roles -> Versions] /\ "model" \in Roles /\ "text" \in Roles
      /\ captured \in [Runs -> [Roles -> Nat]] /\ used \in [Runs -> [Roles -> Nat]]
  BY DEF Base, CInv, InputTypes, MInv, FileTypes, ReadSound, Roles
<1>1. CASE Edit
  <2>1. PICK f \in Roles : version[f] < MaxEdits /\ version' = [version EXCEPT ![f] = @ + 1]
    BY <1>1 DEF Edit
  <2>2. version' \in [Roles -> Versions]
    BY <1>0, <2>1, RunAssumption DEF Versions
  <2>3. UNCHANGED <<at, captured, used, done>>
    BY <1>1 DEF Edit, run, work
  <2> QED  BY <2>2, <2>3 DEF Base, ReadSound, ReadOf
<1>2. ASSUME NEW r \in Runs, Capture(r) PROVE ReadSound'
  <2>1. /\ at[r] = "idle" /\ Goes(r, "captured") /\ UNCHANGED <<version, done, used>>
        /\ captured' = [captured EXCEPT ![r] = version]
    BY <1>2 DEF Capture, work
  <2>2. /\ at'[r] = "captured"
        /\ \A q \in Runs \ {r} : at'[q] = at[q] /\ captured'[q] = captured[q]
    BY <1>0, <2>1 DEF Goes
  <2>3. done[r] = {}
    BY <2>1 DEF Base, ReadSound, ReadOf
  <2>4. ReadOf(r)'
    BY <2>1, <2>2, <2>3 DEF ReadOf, Asking
  <2> QED  BY <2>1, <2>2, <2>4, ReadOfOne
<1>3. ASSUME NEW r \in Runs, ChooseName(r) \/ MakeDirectory(r) \/ Announce(r) PROVE ReadSound'
  <2>1. UNCHANGED <<version, captured, used, done>>
    BY <1>3 DEF ChooseName, MakeDirectory, Announce, work
  <2>2. at' = at \/ \E p \in {"refused", "directories", "announce", "stages"} : Goes(r, p)
    BY <1>3 DEF ChooseName, MakeDirectory, Announce
  <2> QED  BY <2>1, <2>2, ReadAsItIs DEF Places, Asking
<1>4. ASSUME NEW r \in Runs, NEW s, StageRaises(r, s), UNCHANGED <<version, captured>>
      PROVE  ReadSound'
  BY <1>4, ReadAsItIs DEF StageRaises, Raises, Places, Asking
<1>5. ASSUME NEW r \in Runs, NEW s \in Stages \ {"annotate_text"}, Completes(r, s),
             at[r] = "stages", UNCHANGED <<version, captured>>,
             \A q \in Runs \ {r} : used'[q] = used[q], used'[r]["model"] = used[r]["model"],
             IF s = "ingest_text" THEN used'[r]["text"] = captured[r]["text"]
             ELSE used'[r]["text"] = used[r]["text"]
      PROVE  ReadSound'
  <2>1. \A q \in Runs : at'[q] = at[q] /\ done'[q] = IF q = r THEN done[r] \cup {s} ELSE done[q]
    BY <1>0, <1>5 DEF Completes, Goes
  <2>2. ReadOf(r)
    BY DEF Base, ReadSound
  <2>3. ReadOf(r)'
    BY <1>5, <2>1, <2>2 DEF ReadOf, Asking
  <2> QED  BY <1>5, <2>1, <2>3, ReadOfOne
<1>6. ASSUME NEW r \in Runs, IngestMarket(r) PROVE ReadSound'
  <2>1. /\ at[r] = "stages" /\ UNCHANGED <<version, captured>>
        /\ \/ StageRaises(r, "ingest_market")
           \/ /\ used' = [used EXCEPT
                     ![r] = [f \in Roles |-> IF f \in {"market"} THEN version[f] ELSE @[f]]]
              /\ Completes(r, "ingest_market")
    BY <1>6 DEF IngestMarket, Ingest, Running
  <2> QED  BY <1>0, <1>4, <1>5, <2>1 DEF Stages
<1>7. ASSUME NEW r \in Runs, IngestText(r) PROVE ReadSound'
  <2>1. PICK roles \in {{"text"}, {"text", "market"}} : Ingest(r, "ingest_text", roles)
    BY <1>7 DEF IngestText
  <2>2. /\ at[r] = "stages" /\ UNCHANGED <<version, captured>>
        /\ \/ StageRaises(r, "ingest_text")
           \/ /\ \A f \in roles : version[f] = captured[r][f]
              /\ used' = [used EXCEPT
                     ![r] = [f \in Roles |-> IF f \in roles THEN version[f] ELSE @[f]]]
              /\ Completes(r, "ingest_text")
    BY <2>1 DEF Ingest, Running
  <2>3. "text" \in roles /\ "model" \notin roles
    OBVIOUS
  <2> QED  BY <1>0, <1>4, <1>5, <2>2, <2>3 DEF Stages
<1>8. ASSUME NEW r \in Runs, Work(r) PROVE ReadSound'
  <2>1. PICK s \in OwnStages : /\ at[r] = "stages" /\ UNCHANGED <<version, captured>>
                               /\ StageRaises(r, s) \/ (Completes(r, s) /\ used' = used)
    BY <1>8 DEF Work, Running
  <2>2. s \in Stages \ {"annotate_text", "ingest_text"}
    BY DEF OwnStages
  <2> QED  BY <1>4, <1>5, <2>1, <2>2
<1>9. ASSUME NEW r \in Runs, ConstructAnnotator(r) PROVE ReadSound'
  <2>1. CASE StageRaises(r, "annotate_text")
    BY <1>4, <1>9, <2>1 DEF ConstructAnnotator, Shared
  <2>2. CASE /\ version["model"] = captured[r]["model"] /\ Goes(r, "lookup") /\ done' = done
             /\ used' = [used EXCEPT ![r]["model"] = version["model"]]
    <3>1. at'[r] = "lookup" /\ \A q \in Runs \ {r} : at'[q] = at[q] /\ used'[q] = used[q]
      BY <1>0, <2>2 DEF Goes
    <3>2. used'[r]["model"] = version["model"] /\ used'[r]["text"] = used[r]["text"]
      BY <1>0, <2>2
    <3>3. UNCHANGED <<version, captured, done>>
      BY <1>9, <2>2 DEF ConstructAnnotator, Shared
    <3>4. ReadOf(r)'
      BY <2>2, <3>1, <3>2, <3>3 DEF Base, ReadSound, ReadOf
    <3> QED  BY <3>1, <3>3, <3>4, ReadOfOne
  <2> QED  BY <1>9, <2>1, <2>2 DEF ConstructAnnotator
<1>10. ASSUME NEW r \in Runs, LoadModel(r) PROVE ReadSound'
  <2>1. /\ at[r] = "loading" /\ Goes(r, "loaded") /\ UNCHANGED <<version, captured, done>>
        /\ used' = [used EXCEPT ![r]["model"] = version["model"]]
    BY <1>10 DEF LoadModel, Shared
  <2>2. /\ at'[r] = "loaded" /\ used'[r]["text"] = used[r]["text"]
        /\ \A q \in Runs \ {r} : at'[q] = at[q] /\ used'[q] = used[q]
    BY <1>0, <2>1 DEF Goes
  <2>3. "annotate_text" \notin done[r]
    BY <2>1 DEF Base, MInv, FilesSound, Asking
  <2>4. ReadOf(r)'
    BY <2>1, <2>2, <2>3 DEF Base, ReadSound, ReadOf
  <2> QED  BY <2>1, <2>2, <2>4, ReadOfOne
<1>11. ASSUME NEW r \in Runs, ConfirmModel(r) PROVE ReadSound'
  <2>1. at[r] = "loaded" /\ UNCHANGED <<version, captured, used, done>>
    BY <1>11 DEF ConfirmModel, Shared, work
  <2>2. CASE Raises(r)
    BY <2>1, <2>2, ReadAsItIs DEF Raises, Places, Asking
  <2>3. CASE version["model"] = captured[r]["model"] /\ Goes(r, "generate")
    <3>1. at'[r] = "generate" /\ \A q \in Runs \ {r} : at'[q] = at[q]
      BY <1>0, <2>3 DEF Goes
    <3>2. captured[r]["model"] <= used[r]["model"] /\ used[r]["model"] <= version["model"]
      BY <2>1 DEF Base, CInv, InputsSound
    <3>3. version["model"] \in Nat /\ captured[r]["model"] \in Nat /\ used[r]["model"] \in Nat
      BY <1>0 DEF Versions
    <3>4. used[r]["model"] = captured[r]["model"]
      BY <2>3, <3>2, <3>3
    <3>5. ReadOf(r)'
      BY <2>1, <3>1, <3>4 DEF Base, ReadSound, ReadOf
    <3> QED  BY <2>1, <3>1, <3>5, ReadOfOne
  <2> QED  BY <1>11, <2>2, <2>3 DEF ConfirmModel
<1>12. ASSUME NEW r \in Runs, \/ LookUp(r) \/ CheckModel(r) \/ Generate(r) \/ OpenRecord(r)
                              \/ FillRecord(r) \/ AllStored(r)
       PROVE  ReadSound'
  <2>1. UNCHANGED <<version, captured, used, done>> /\ at[r] \in Asking \ {"loaded"}
    BY <1>12 DEF LookUp, CheckModel, Generate, OpenRecord, FillRecord, AllStored, Shared, work,
                 Asking
  <2>2. at' = at \/ \E p \in Places \ {"idle"} : Goes(r, p)
    BY <1>12 DEF LookUp, CheckModel, Generate, GenerationFails, OpenRecord, FillRecord, AllStored,
                 Raises, Places
  <2> QED  BY <2>1, <2>2, ReadAsItIs
<1>13. ASSUME NEW r \in Runs, Bind(r) PROVE ReadSound'
  <2>1. CASE StageRaises(r, "annotate_text")
    BY <1>4, <1>13, <2>1 DEF Bind, Shared
  <2>2. CASE Completes(r, "annotate_text") /\ used' = used
    <3>1. at[r] = "bind" /\ UNCHANGED <<version, captured, used>>
      BY <1>13, <2>2 DEF Bind, Shared
    <3>2. /\ at'[r] = "stages" /\ done'[r] = done[r] \cup {"annotate_text"}
          /\ \A q \in Runs \ {r} : at'[q] = at[q] /\ done'[q] = done[q]
      BY <1>0, <2>2 DEF Completes, Goes
    <3>3. used[r]["model"] = captured[r]["model"]
      BY <3>1 DEF Base, ReadSound, ReadOf, Asking
    <3>4. ReadOf(r)'
      BY <3>1, <3>2, <3>3 DEF Base, ReadSound, ReadOf
    <3> QED  BY <3>1, <3>2, <3>4, ReadOfOne
  <2> QED  BY <1>13, <2>1, <2>2 DEF Bind
<1>14. ASSUME NEW r \in Runs, Finalize(r) \/ FailRun(r) \/ Crash(r) PROVE ReadSound'
  <2>1. UNCHANGED <<version, captured, used, done>>
    BY <1>14 DEF Finalize, FailRun, Crash, work
  <2>2. \E p \in {"complete", "failing", "failed", "crashed"} : Goes(r, p)
    BY <1>14 DEF Finalize, FailRun, Crash, Raises
  <2> QED  BY <2>1, <2>2, ReadAsItIs DEF Places, Asking
<1>15. CASE UNCHANGED vars
  BY <1>15, ReadAsItIs DEF vars, run, work
<1> QED  BY <1>1, <1>2, <1>3, <1>6, <1>7, <1>8, <1>9, <1>10, <1>11, <1>12, <1>13, <1>14, <1>15
         DEF Next, Start, Annotate

-----------------------------------------------------------------------------
(* Sequences and the sets of what is in them *)

LEMMA AppendedSet ==
    ASSUME NEW S, NEW s \in Seq(S), NEW e \in S
    PROVE  ToSet(Append(s, e)) = ToSet(s) \cup {e}
<1>1. /\ DOMAIN Append(s, e) = 1..(Len(s) + 1) /\ Append(s, e)[Len(s) + 1] = e
      /\ \A i \in 1..Len(s) : Append(s, e)[i] = s[i]
  OBVIOUS
<1>2. DOMAIN s = 1..Len(s) /\ Len(s) \in Nat
  OBVIOUS
<1> QED  BY <1>1, <1>2 DEF ToSet

LEMMA JoinedSet ==
    ASSUME NEW S, NEW s \in Seq(S), NEW t \in Seq(S)
    PROVE  ToSet(s \o t) = ToSet(s) \cup ToSet(t)
<1> DEFINE u == s \o t
<1>1. /\ DOMAIN s = 1..Len(s) /\ DOMAIN t = 1..Len(t) /\ Len(s) \in Nat /\ Len(t) \in Nat
      /\ DOMAIN u = 1..(Len(s) + Len(t))
      /\ \A i \in 1..Len(s) : u[i] = s[i]
      /\ \A i \in 1..(Len(s) + Len(t)) : i > Len(s) => u[i] = t[i - Len(s)]
  OBVIOUS
<1> HIDE DEF u
<1>2. \A i \in DOMAIN t : u[Len(s) + i] = t[i] /\ Len(s) + i \in DOMAIN u
  BY <1>1
<1>3. \A i \in DOMAIN u : i \in DOMAIN s \/ i - Len(s) \in DOMAIN t
  BY <1>1
<1>4. ToSet(u) \subseteq ToSet(s) \cup ToSet(t)
  BY <1>1, <1>3 DEF ToSet
<1>5. ToSet(s) \cup ToSet(t) \subseteq ToSet(u)
  BY <1>1, <1>2 DEF ToSet
<1> QED  BY <1>4, <1>5 DEF u

LEMMA HeadAndTail ==
    ASSUME NEW S, NEW s \in Seq(S), s # <<>>
    PROVE  /\ Head(s) \in S /\ Tail(s) \in Seq(S)
           /\ ToSet(s) = {Head(s)} \cup ToSet(Tail(s))
<1>1. /\ DOMAIN s = 1..Len(s) /\ Len(s) \in Nat \ {0} /\ Head(s) = s[1] /\ s[1] \in S
      /\ Tail(s) \in Seq(S) /\ DOMAIN Tail(s) = 1..(Len(s) - 1)
      /\ \A i \in 1..(Len(s) - 1) : Tail(s)[i] = s[i + 1]
  OBVIOUS
<1>2. \A i \in DOMAIN s : i = 1 \/ (i - 1 \in DOMAIN Tail(s) /\ s[i] = Tail(s)[i - 1])
  BY <1>1
<1>3. \A i \in DOMAIN Tail(s) : i + 1 \in DOMAIN s /\ Tail(s)[i] = s[i + 1]
  BY <1>1
<1>4. 1 \in DOMAIN s
  BY <1>1
<1>5. ToSet(s) \subseteq {Head(s)} \cup ToSet(Tail(s))
  <2> SUFFICES ASSUME NEW i \in DOMAIN s PROVE s[i] \in {Head(s)} \cup ToSet(Tail(s))
    BY DEF ToSet
  <2>1. CASE i = 1
    BY <1>1, <2>1
  <2>2. CASE i # 1
    BY <1>2, <2>2 DEF ToSet
  <2> QED  BY <2>1, <2>2
<1>6. {Head(s)} \cup ToSet(Tail(s)) \subseteq ToSet(s)
  BY <1>1, <1>3, <1>4 DEF ToSet
<1> QED  BY <1>1, <1>5, <1>6

LEMMA CutSet ==
    ASSUME NEW S, NEW s \in Seq(S), NEW n \in 0..Len(s)
    PROVE  /\ SubSeq(s, 1, n) \in Seq(S) /\ Len(SubSeq(s, 1, n)) = n
           /\ SubSeq(s, n + 1, Len(s)) \in Seq(S)
           /\ ToSet(s) = ToSet(SubSeq(s, 1, n)) \cup ToSet(SubSeq(s, n + 1, Len(s)))
<1> DEFINE a == SubSeq(s, 1, n)
           b == SubSeq(s, n + 1, Len(s))
<1>1. DOMAIN s = 1..Len(s) /\ Len(s) \in Nat /\ n \in Nat /\ n <= Len(s)
  OBVIOUS
<1>2. /\ a \in Seq(S) /\ Len(a) = n /\ DOMAIN a = 1..n
      /\ \A i \in 1..n : a[i] = s[i]
  OBVIOUS
<1>3. /\ b \in Seq(S) /\ DOMAIN b = 1..(Len(s) - n)
      /\ \A i \in 1..(Len(s) - n) : b[i] = s[n + i]
  <2>1. n + 1 \in Int /\ Len(s) \in Int /\ \A i \in (n + 1)..Len(s) : s[i] \in S
    BY <1>1
  <2>2. /\ b \in Seq(S)
        /\ Len(b) = IF n + 1 <= Len(s) THEN Len(s) - (n + 1) + 1 ELSE 0
        /\ \A i \in 1..(Len(s) - (n + 1) + 1) : b[i] = s[n + 1 + i - 1]
    BY <2>1, SubSeqProperties
  <2> HIDE DEF a, b
  <2>3. Len(b) = IF n + 1 <= Len(s) THEN Len(s) - (n + 1) + 1 ELSE 0
    BY <2>2
  <2>4. Len(b) = Len(s) - n
    <3> DEFINE l == Len(s)
    <3>1. l \in Nat /\ n \in Nat /\ n <= l
      BY <1>1
    <3>2. (IF n + 1 <= l THEN l - (n + 1) + 1 ELSE 0) = l - n
      <4> HIDE DEF l
      <4> QED  BY <3>1
    <3> QED  BY <2>3, <3>2
  <2>5. DOMAIN b = 1..(Len(s) - n)
    BY <2>2, <2>4
  <2>6. \A i \in 1..(Len(s) - n) : b[i] = s[n + i]
    <3> SUFFICES ASSUME NEW i \in 1..(Len(s) - n) PROVE b[i] = s[n + i]
      OBVIOUS
    <3>1. i \in 1..(Len(s) - (n + 1) + 1) /\ n + 1 + i - 1 = n + i
      BY <1>1
    <3> QED  BY <2>2, <3>1
  <2> QED  BY <2>2, <2>5, <2>6
<1> HIDE DEF a, b
<1>4. \A i \in DOMAIN s : (i \in DOMAIN a /\ s[i] = a[i])
                          \/ (i - n \in DOMAIN b /\ s[i] = b[i - n])
  BY <1>1, <1>2, <1>3
<1>5. ToSet(s) \subseteq ToSet(a) \cup ToSet(b)
  BY <1>4 DEF ToSet
<1>6. ToSet(a) \cup ToSet(b) \subseteq ToSet(s)
  <2>1. /\ \A i \in DOMAIN a : i \in DOMAIN s /\ a[i] = s[i]
        /\ \A i \in DOMAIN b : n + i \in DOMAIN s /\ b[i] = s[n + i]
    BY <1>1, <1>2, <1>3
  <2> QED  BY <2>1 DEF ToSet
<1>7. ToSet(s) = ToSet(a) \cup ToSet(b)
  BY <1>5, <1>6
<1> QED  BY <1>2, <1>3, <1>7 DEF a, b

LEMMA ContainedIs ==
    ASSUME NEW S, NEW s \in Seq(S), NEW e
    PROVE  Contains(s, e) <=> e \in ToSet(s)
  BY DEF Contains, ToSet

LEMMA EmptySet == ToSet(<<>>) = {}
  BY DEF ToSet

-----------------------------------------------------------------------------
(* The memory of the annotator *)

Answers == {"missing", "cache", "generated", "deduplicated"}

MemoryTypes ==
    /\ cache \in [Keys -> Runs \cup {"absent", "torn"}]
    /\ source \in [Runs -> Seq(Answers)]
    /\ record \in [Runs -> [Keys -> Runs \cup {"absent"}]]
    /\ todo \in [Runs -> Seq(Keys)] /\ pending \in [Runs -> Seq(Keys)]
    /\ attempts \in [Runs -> SUBSET Keys]

Annotating(r) == at[r] \in Asking \/ "annotate_text" \in done[r]
Unstarted == {"idle", "captured", "directories", "announce", "stages"}
Forgetful(r) == at[r] \in Unstarted /\ "annotate_text" \notin done[r]
Answering == {"lookup", "load", "loading", "loaded", "generate"}
\* The key of an item: Key, but while another model may be loaded.
KeyAt(r, i) == <<Items(r)[i], captured[r]["model"]>>
Waits(r) == ToSet(todo[r]) \cup ToSet(pending[r])
GeneratedAt(r, k, i) == i \in DOMAIN source[r] /\ source[r][i] = "generated" /\ KeyAt(r, i) = k

\* A record of the cache is of an attempt of the run that made it, and what a run
\* remembers of it is what it is; none is of a run that has not come to store one; one
\* that is not whole is being written by one run at most.
CacheSound ==
    /\ \A k \in Keys : cache[k] \in Runs => k \in attempts[cache[k]]
    /\ \A r \in Runs, k \in Keys : record[r][k] \in Runs => cache[k] = record[r][k]
    /\ \A r \in Runs : Forgetful(r) \/ at[r] \in Answering => \A k \in Keys : cache[k] # r
    /\ \A r \in Runs : at[r] = "filling" =>
           /\ pending[r] # <<>> /\ cache[Head(pending[r])] = "torn"
           /\ \A q \in Runs \ {r} : at[q] = "filling" => Head(pending[q]) # Head(pending[r])

\* Every item looked up has a record, or its key waits to be generated or stored; a
\* generation of the run's own is that of one item and was kept.
Remembers(r) ==
    /\ Len(source[r]) <= Len(Items(r))
    /\ \A i \in DOMAIN source[r] :
           /\ source[r][i] = "missing" => KeyAt(r, i) \in Waits(r)
           /\ source[r][i] # "missing" => record[r][KeyAt(r, i)] \in Runs
           /\ source[r][i] = "generated" => record[r][KeyAt(r, i)] = r
    /\ \A k \in Waits(r) : \E i \in DOMAIN source[r] : KeyAt(r, i) = k
    /\ \A k \in Keys : record[r][k] = r =>
           \E i \in DOMAIN source[r] :
               /\ GeneratedAt(r, k, i)
               /\ \A j \in DOMAIN source[r] : GeneratedAt(r, k, j) => j = i
    /\ ToSet(pending[r]) \subseteq attempts[r]

\* What is still to do, by how far the run is.
Placed(r) ==
    /\ at[r] \in {"lookup", "load", "loading", "loaded"} => pending[r] = <<>>
    /\ at[r] \in {"store", "filling", "bind"} \/ "annotate_text" \in done[r] => todo[r] = <<>>
    /\ at[r] = "bind" \/ "annotate_text" \in done[r] => pending[r] = <<>>

MemoryOf(r) ==
    /\ Forgetful(r) => source[r] = <<>> /\ todo[r] = <<>> /\ pending[r] = <<>>
    /\ Annotating(r) => Remembers(r) /\ Placed(r)

AInv == MemoryTypes /\ CacheSound /\ \A r \in Runs : MemoryOf(r)

\* A run that has been in the annotator has ingested the text.
LEMMA TextIsIngested ==
    ASSUME Base, NEW r \in Runs, Annotating(r)
    PROVE  at[r] # "idle" /\ "ingest_text" \in done[r]
<1>1. Missing(r, "annotate_text") = {}
  BY DEF Base, MInv, FilesSound, Annotating
<1>2. 2 \in DOMAIN DEPENDENCIES["annotate_text"] /\ DEPENDENCIES["annotate_text"][2] = "ingest_text"
  BY Dependencies
<1>3. "ingest_text" \in done[r]
  BY <1>1, <1>2 DEF Missing
<1> QED  BY <1>3 DEF Base, ReadSound, ReadOf

\* The files a run captured are captured once, and a stage done stays done.
LEMMA OnceCaptured ==
    ASSUME Base, [Next]_vars, NEW r \in Runs, at[r] # "idle"
    PROVE  captured'[r] = captured[r] /\ done[r] \subseteq done'[r]
<1>0. DOMAIN captured = Runs /\ DOMAIN done = Runs
  BY DEF Base, CInv, InputTypes, MInv, FileTypes
<1>1. CASE Edit \/ UNCHANGED vars
  BY <1>1 DEF Edit, vars, run, work
<1>2. ASSUME NEW q \in Runs, Capture(q)
      PROVE  captured'[r] = captured[r] /\ done[r] \subseteq done'[r]
  BY <1>0, <1>2 DEF Capture, work
<1>3. ASSUME NEW q \in Runs, \/ ChooseName(q) \/ MakeDirectory(q) \/ Announce(q) \/ CheckModel(q)
                             \/ LoadModel(q) \/ ConfirmModel(q) \/ Generate(q) \/ OpenRecord(q)
                             \/ FillRecord(q) \/ AllStored(q) \/ LookUp(q)
                             \/ Finalize(q) \/ FailRun(q) \/ Crash(q)
      PROVE  captured'[r] = captured[r] /\ done[r] \subseteq done'[r]
  BY <1>3 DEF ChooseName, MakeDirectory, Announce, CheckModel, LoadModel, ConfirmModel, Generate,
              OpenRecord, FillRecord, AllStored, LookUp, Finalize, FailRun, Crash, Shared, work
<1>4. ASSUME NEW q \in Runs, NEW s, StageRaises(q, s) \/ Completes(q, s)
      PROVE  done[r] \subseteq done'[r]
  BY <1>0, <1>4 DEF StageRaises, Completes
<1>5. ASSUME NEW q \in Runs, \/ IngestMarket(q) \/ IngestText(q) \/ Work(q)
                             \/ ConstructAnnotator(q) \/ Bind(q)
      PROVE  captured'[r] = captured[r] /\ done[r] \subseteq done'[r]
  <2>1. captured' = captured
    BY <1>5 DEF IngestMarket, IngestText, Ingest, Work, ConstructAnnotator, Bind, Shared
  <2>2. done' = done \/ \E s : StageRaises(q, s) \/ Completes(q, s)
    BY <1>5 DEF IngestMarket, IngestText, Ingest, Work, ConstructAnnotator, Bind
  <2> QED  BY <1>4, <2>1, <2>2
<1> QED  BY <1>1, <1>2, <1>3, <1>5 DEF Next, Start, Annotate

\* The keys of what a run annotates stay what they are.
LEMMA KeysStay ==
    ASSUME Base, Base', [Next]_vars, NEW r \in Runs, Annotating(r)
    PROVE  Items(r)' = Items(r) /\ captured'[r] = captured[r]
<1>1. at[r] # "idle" /\ "ingest_text" \in done[r]
  BY TextIsIngested
<1>2. captured'[r] = captured[r] /\ "ingest_text" \in done'[r]
  BY <1>1, OnceCaptured
<1>3. used[r]["text"] = captured[r]["text"]
  BY <1>1 DEF Base, ReadSound, ReadOf
<1>4. used'[r]["text"] = captured'[r]["text"]
  BY <1>2 DEF Base, ReadSound, ReadOf
<1> QED  BY <1>2, <1>3, <1>4 DEF Items

\* They are keys.
LEMMA TextsAre ==
    ASSUME Base, NEW r \in Runs, "ingest_text" \in done[r]
    PROVE  Items(r) \in Seq(Texts) /\ captured[r]["model"] \in Versions
<1>1. at[r] # "idle"
  BY DEF Base, ReadSound, ReadOf
<1>2. \A f \in Roles : /\ captured[r][f] <= version[f] /\ captured[r][f] \in Nat
                        /\ version[f] \in 0..MaxEdits
  BY <1>1 DEF Base, CInv, InputTypes, InputsSound, ReadSound, Versions
<1>3. \A f \in Roles : captured[r][f] \in Versions
  BY <1>2, RunAssumption DEF Versions
<1>4. used[r]["text"] \in Versions
  BY <1>1, <1>3 DEF Base, ReadSound, ReadOf, Roles
<1>5. Items(r) \in Seq(Texts)
  BY <1>4, RunAssumption DEF Items
<1> QED  BY <1>3, <1>5 DEF Roles

LEMMA KeysAre ==
    ASSUME Base, NEW r \in Runs, Annotating(r)
    PROVE  /\ Items(r) \in Seq(Texts) /\ captured[r]["model"] \in Versions
           /\ \A i \in 1..Len(Items(r)) : KeyAt(r, i) \in Keys
<1>1. Items(r) \in Seq(Texts) /\ captured[r]["model"] \in Versions
  BY TextIsIngested, TextsAre
<1> QED  BY <1>1 DEF KeyAt, Keys

LEMMA KeyIs ==
    ASSUME Base, NEW r \in Runs, at[r] \in Asking \ {"loaded"} \/ "annotate_text" \in done[r]
    PROVE  \A i : Key(r, i) = KeyAt(r, i)
  BY DEF Base, ReadSound, ReadOf, Key, KeyAt

\* What a run remembers is the same while it stays.
LEMMA MemoryStays ==
    ASSUME Base, Base', [Next]_vars, NEW r \in Runs, MemoryOf(r),
           source'[r] = source[r], record'[r] = record[r],
           todo'[r] = todo[r], pending'[r] = pending[r], attempts[r] \subseteq attempts'[r],
           Forgetful(r)' => Forgetful(r), Annotating(r)' => Annotating(r) /\ Placed(r)'
    PROVE  MemoryOf(r)'
<1>1. ASSUME Annotating(r)' PROVE Remembers(r)'
  <2>1. Remembers(r) /\ Items(r)' = Items(r) /\ captured'[r] = captured[r]
    BY <1>1, KeysStay DEF MemoryOf
  <2>2. \A i : KeyAt(r, i)' = KeyAt(r, i)
    BY <2>1 DEF KeyAt
  <2>3. Waits(r)' = Waits(r)
    BY DEF Waits
  <2>4. \A k, i : GeneratedAt(r, k, i)' <=> GeneratedAt(r, k, i)
    BY <2>2 DEF GeneratedAt
  <2>5. /\ Len(source'[r]) <= Len(Items(r)')
        /\ ToSet(pending'[r]) \subseteq attempts'[r]
    BY <2>1 DEF Remembers
  <2> QED  BY <2>1, <2>2, <2>3, <2>4, <2>5 DEF Remembers
<1> QED  BY <1>1 DEF MemoryOf

\* The other runs, when one moves.
LEMMA MemoryOfOthers ==
    ASSUME Base, Base', [Next]_vars, AInv, NEW r \in Runs, NEW q \in Runs \ {r},
           at'[q] = at[q], done'[q] = done[q],
           source'[q] = source[q], record'[q] = record[q], todo'[q] = todo[q],
           pending'[q] = pending[q], attempts'[q] = attempts[q]
    PROVE  MemoryOf(q)'
<1>1. MemoryOf(q)
  BY DEF AInv
<1>2. /\ Forgetful(q)' <=> Forgetful(q)
      /\ Annotating(q)' <=> Annotating(q)
      /\ Placed(q)' <=> Placed(q)
  BY DEF Forgetful, Annotating, Placed
<1>3. Annotating(q)' => Annotating(q) /\ Placed(q)'
  BY <1>1, <1>2 DEF MemoryOf
<1> QED  BY <1>1, <1>2, <1>3, MemoryStays

\* Only run r moves, and remembers.
Only(r) ==
    \A q \in Runs \ {r} :
        /\ at'[q] = at[q] /\ done'[q] = done[q] /\ source'[q] = source[q]
        /\ record'[q] = record[q] /\ todo'[q] = todo[q] /\ pending'[q] = pending[q]
        /\ attempts'[q] = attempts[q]

\* A step of a run that leaves the cache alone.
LEMMA OwnStep ==
    ASSUME Base, Base', [Next]_vars, AInv, NEW r \in Runs, cache' = cache, Only(r), MemoryTypes',
           attempts[r] \subseteq attempts'[r], at'[r] # "filling",
           Forgetful(r)' \/ at'[r] \in Answering => Forgetful(r) \/ at[r] \in Answering,
           \A k \in Keys : record'[r][k] \in Runs => cache[k] = record'[r][k],
           MemoryOf(r)'
    PROVE  AInv'
<1>1. \A q \in Runs \ {r} : MemoryOf(q)'
  BY MemoryOfOthers DEF Only
<1>2. \A k \in Keys : cache'[k] \in Runs => k \in attempts'[cache'[k]]
  <2> SUFFICES ASSUME NEW k \in Keys, cache[k] \in Runs PROVE k \in attempts'[cache[k]]
    OBVIOUS
  <2>1. k \in attempts[cache[k]]
    BY DEF AInv, CacheSound
  <2> QED  BY <2>1 DEF Only
<1>3. \A q \in Runs, k \in Keys : record'[q][k] \in Runs => cache'[k] = record'[q][k]
  BY DEF AInv, CacheSound, Only
<1>4. \A q \in Runs : Forgetful(q)' \/ at'[q] \in Answering => \A k \in Keys : cache'[k] # q
  <2> SUFFICES ASSUME NEW q \in Runs, Forgetful(q)' \/ at'[q] \in Answering
               PROVE  Forgetful(q) \/ at[q] \in Answering
    BY DEF AInv, CacheSound
  <2> QED  BY DEF Only, Forgetful
<1>5. \A q \in Runs : at'[q] = "filling" =>
           /\ pending'[q] # <<>> /\ cache'[Head(pending'[q])] = "torn"
           /\ \A p \in Runs \ {q} : at'[p] = "filling" => Head(pending'[p]) # Head(pending'[q])
  <2>1. \A q \in Runs : at'[q] = "filling" =>
            q # r /\ at[q] = "filling" /\ pending'[q] = pending[q]
    BY DEF Only
  <2> QED  BY <2>1 DEF AInv, CacheSound
<1>6. CacheSound'
  BY <1>2, <1>3, <1>4, <1>5 DEF CacheSound
<1> QED  BY <1>1, <1>6 DEF AInv

\* A step that changes nothing the annotator remembers.
LEMMA QuietStep ==
    ASSUME Base, Base', [Next]_vars, AInv, NEW r \in Runs, UNCHANGED <<cache, annotator>>,
           \A q \in Runs \ {r} : at'[q] = at[q] /\ done'[q] = done[q],
           at'[r] # "filling",
           Forgetful(r)' \/ at'[r] \in Answering => Forgetful(r) \/ at[r] \in Answering,
           MemoryOf(r)'
    PROVE  AInv'
<1>0. UNCHANGED <<source, record, todo, pending, attempts>>
  BY DEF annotator
<1>1. MemoryTypes' /\ Only(r)
  BY <1>0 DEF AInv, MemoryTypes, Only
<1>2. \A k \in Keys : record'[r][k] \in Runs => cache[k] = record'[r][k]
  BY <1>0 DEF AInv, CacheSound
<1> QED  BY <1>0, <1>1, <1>2, OwnStep

\* A run goes on, remembering what it did.
LEMMA QuietMove ==
    ASSUME Base, Base', [Next]_vars, AInv, NEW r \in Runs, UNCHANGED <<cache, annotator>>,
           \A q \in Runs \ {r} : at'[q] = at[q] /\ done'[q] = done[q],
           at'[r] # "filling",
           Forgetful(r)' \/ at'[r] \in Answering => Forgetful(r) \/ at[r] \in Answering,
           Forgetful(r)' => Forgetful(r), Annotating(r)' => Annotating(r) /\ Placed(r)'
    PROVE  AInv'
<1>1. MemoryOf(r)'
  BY MemoryStays DEF AInv, annotator
<1> QED  BY <1>1, QuietStep

LEMMA PlacedIs ==
    ASSUME AInv, NEW r \in Runs, Annotating(r) PROVE Remembers(r) /\ Placed(r)
  BY DEF AInv, MemoryOf

\* The steps before the stages, and those that end a run.
LEMMA MemoryApart ==
    ASSUME Base, Base', [Next]_vars, AInv, NEW r \in Runs,
           Start(r) \/ Finalize(r) \/ FailRun(r) \/ Crash(r)
    PROVE  AInv'
<1>0. UNCHANGED <<cache, annotator, done>> /\ at \in [Runs -> Places]
  BY DEF Start, Capture, ChooseName, MakeDirectory, Announce, Finalize, FailRun, Crash, work,
         Base, MInv, FileTypes
<1>1. PICK p \in Places :
          /\ at' = [at EXCEPT ![r] = p] /\ p \notin Asking
          /\ p \in Unstarted => at[r] \in Unstarted
  <2>1. CASE Start(r)
    <3>1. at[r] \in Unstarted /\ at[r] \in Places /\ at[r] \notin Asking
      BY <2>1 DEF Start, Capture, ChooseName, MakeDirectory, Announce, Unstarted, Places, Asking
    <3>2. \/ at' = at
          \/ \E p \in {"captured", "directories", "announce", "stages", "refused"} : Goes(r, p)
      BY <2>1 DEF Start, Capture, ChooseName, MakeDirectory, Announce
    <3>3. CASE at' = at
      <4>1. at' = [at EXCEPT ![r] = at[r]]
        BY <3>3, <1>0
      <4> QED  BY <3>1, <4>1
    <3> QED  BY <3>1, <3>2, <3>3 DEF Goes, Unstarted, Places, Asking
  <2>2. CASE Finalize(r) \/ FailRun(r) \/ Crash(r)
    <3>1. \E p \in {"complete", "failing", "failed", "crashed"} : Goes(r, p)
      BY <2>2 DEF Finalize, FailRun, Crash, Raises
    <3> QED  BY <3>1 DEF Goes, Unstarted, Places, Asking
  <2> QED  BY <2>1, <2>2
<1>2. at'[r] = p /\ \A q \in Runs \ {r} : at'[q] = at[q]
  BY <1>0, <1>1
<1>3. /\ at'[r] # "filling" /\ at'[r] \notin Answering
      /\ Forgetful(r)' => Forgetful(r)
  BY <1>0, <1>1, <1>2 DEF Asking, Answering, Forgetful
<1>4. Annotating(r)' => Annotating(r) /\ Placed(r)'
  <2> SUFFICES ASSUME Annotating(r)' PROVE Annotating(r) /\ Placed(r)'
    OBVIOUS
  <2>1. "annotate_text" \in done[r] /\ Annotating(r)
    BY <1>0, <1>1, <1>2 DEF Annotating
  <2>2. Placed(r)
    BY <2>1, PlacedIs
  <2>3. todo'[r] = <<>> /\ pending'[r] = <<>>
    BY <1>0, <2>1, <2>2 DEF Placed, annotator
  <2> QED  BY <2>1, <2>3 DEF Placed
<1> QED  BY <1>0, <1>2, <1>3, <1>4, QuietMove

\* The other stages.
LEMMA MemoryOfStages ==
    ASSUME Base, Base', [Next]_vars, AInv, NEW r \in Runs,
           IngestMarket(r) \/ IngestText(r) \/ Work(r)
    PROVE  AInv'
<1>1. PICK s \in Stages \ {"annotate_text"} :
          /\ at[r] = "stages" /\ UNCHANGED <<cache, annotator>>
          /\ StageRaises(r, s) \/ Completes(r, s)
  BY DEF IngestMarket, IngestText, Work, Ingest, Running, OwnStages, Stages
<1>2. /\ at'[r] \in {"stages", "failing"}
      /\ \A q \in Runs \ {r} : at'[q] = at[q] /\ done'[q] = done[q]
      /\ "annotate_text" \in done'[r] <=> "annotate_text" \in done[r]
  BY <1>1 DEF StageRaises, Completes, Raises, Goes, Base, MInv, FileTypes
<1>3. /\ at'[r] # "filling" /\ at'[r] \notin Answering /\ at[r] \in Unstarted
      /\ Forgetful(r)' => Forgetful(r)
  BY <1>1, <1>2 DEF Answering, Forgetful, Unstarted
<1>4. Annotating(r)' => Annotating(r) /\ Placed(r)'
  <2> SUFFICES ASSUME Annotating(r)' PROVE Annotating(r) /\ Placed(r)'
    OBVIOUS
  <2>1. "annotate_text" \in done[r] /\ Annotating(r)
    BY <1>2 DEF Annotating, Asking
  <2>2. Placed(r)
    BY <2>1, PlacedIs
  <2>3. todo'[r] = <<>> /\ pending'[r] = <<>>
    BY <1>1, <2>1, <2>2 DEF Placed, annotator
  <2> QED  BY <2>1, <2>3 DEF Placed
<1> QED  BY <1>1, <1>2, <1>3, <1>4, QuietMove

\* A run that comes to the annotator remembers nothing, and nothing in the cache is its
\* own.
LEMMA MemoryAtFirst ==
    ASSUME Base, Base', [Next]_vars, AInv, NEW r \in Runs, ConstructAnnotator(r)
    PROVE  AInv'
<1>1. /\ Running(r, "annotate_text") /\ at[r] = "stages" /\ UNCHANGED <<cache, annotator>>
      /\ \/ StageRaises(r, "annotate_text")
         \/ Goes(r, "lookup") /\ done' = done
  BY DEF ConstructAnnotator, Running
<1>2. "annotate_text" \notin done[r] /\ Forgetful(r)
  BY <1>1, RunningIs DEF Forgetful, Unstarted
<1>3. done' = done /\ at'[r] \in {"lookup", "failing"} /\ \A q \in Runs \ {r} : at'[q] = at[q]
  BY <1>1 DEF StageRaises, Raises, Goes, Base, MInv, FileTypes
<1>4. ~Forgetful(r)'
  BY <1>3 DEF Forgetful, Unstarted
<1>5. ASSUME Annotating(r)' PROVE Remembers(r)' /\ Placed(r)'
  <2>1. source'[r] = <<>> /\ todo'[r] = <<>> /\ pending'[r] = <<>>
    BY <1>1, <1>2 DEF AInv, MemoryOf, annotator
  <2>2. \A k \in Keys : record'[r][k] # r
    BY <1>1, <1>2 DEF AInv, CacheSound, annotator
  <2>3. Items(r)' \in Seq(Texts)
    <3>1. "ingest_text" \in done[r]
      <4>1. /\ 2 \in DOMAIN DEPENDENCIES["annotate_text"]
            /\ DEPENDENCIES["annotate_text"][2] = "ingest_text"
        BY Dependencies
      <4> QED  BY <1>1, <4>1, RunningIs DEF Missing
    <3>2. Items(r) \in Seq(Texts)
      BY <3>1, TextsAre
    <3>3. at'[r] = "lookup"
      BY <1>2, <1>3, <1>5 DEF Annotating, Asking
    <3>4. used'[r]["text"] = used[r]["text"]
      BY <1>1, <3>3 DEF ConstructAnnotator, StageRaises, Raises, Goes, Base, MInv, FileTypes,
                        CInv, InputTypes, Roles
    <3> QED  BY <3>2, <3>4 DEF Items
  <2>4. Len(<<>>) = 0 /\ DOMAIN <<>> = {} /\ ToSet(<<>>) = {} /\ Len(Items(r)') >= 0
    BY <2>3, EmptySet
  <2>5. Waits(r)' = {}
    BY <2>1, <2>4 DEF Waits
  <2>6. Remembers(r)'
    <3>1. Len(source'[r]) <= Len(Items(r)')
      BY <2>1, <2>3
    <3>2. DOMAIN source'[r] = {} /\ ToSet(pending'[r]) = {}
      BY <2>1, <2>4
    <3> QED  BY <2>2, <2>5, <3>1, <3>2 DEF Remembers
  <2> QED  BY <2>1, <2>6 DEF Placed
<1>6. MemoryOf(r)'
  BY <1>4, <1>5 DEF MemoryOf
<1> QED  BY <1>1, <1>2, <1>3, <1>6, QuietStep

\* The steps about the model, and those that only go on.
LEMMA MemoryOfTheModel ==
    ASSUME Base, Base', [Next]_vars, AInv, NEW r \in Runs,
           CheckModel(r) \/ LoadModel(r) \/ ConfirmModel(r) \/ AllStored(r) \/ Bind(r)
    PROVE  AInv'
<1>0. UNCHANGED <<cache, annotator>> /\ at[r] \in Asking /\ Annotating(r)
  BY DEF CheckModel, LoadModel, ConfirmModel, AllStored, Bind, Shared, Asking, Annotating
<1>1. Placed(r) /\ "annotate_text" \notin done[r] /\ UNCHANGED <<todo, pending>>
  BY <1>0, PlacedIs DEF Base, MInv, FilesSound, annotator
<1>2. \A q \in Runs \ {r} : at'[q] = at[q] /\ done'[q] = done[q]
  BY DEF CheckModel, LoadModel, ConfirmModel, AllStored, Bind, Shared, work, Goes, Raises,
         StageRaises, Completes, Base, MInv, FileTypes
<1>3. \/ at'[r] = "failing" /\ done' = done
      \/ at[r] = "load" /\ at'[r] = "loading" /\ done' = done
      \/ at[r] = "loading" /\ at'[r] = "loaded" /\ done' = done
      \/ at[r] = "loaded" /\ at'[r] = "generate" /\ done' = done
      \/ at[r] = "store" /\ pending[r] = <<>> /\ at'[r] = "bind" /\ done' = done
      \/ at[r] = "bind" /\ at'[r] = "stages" /\ "annotate_text" \in done'[r]
  BY DEF CheckModel, LoadModel, ConfirmModel, AllStored, Bind, Shared, work, Goes, Raises,
         StageRaises, Completes, Base, MInv, FileTypes
<1>4. /\ at'[r] # "filling" /\ ~Forgetful(r)'
      /\ at'[r] \in Answering => at[r] \in Answering
  BY <1>3 DEF Answering, Forgetful, Unstarted
<1>5. Annotating(r)' => Placed(r)'
  BY <1>1, <1>3 DEF Placed, Annotating, Asking
<1> QED  BY <1>0, <1>2, <1>4, <1>5, QuietMove

\* What holds of a run that answers.
LEMMA WhileAnswering ==
    ASSUME Base, AInv, NEW r \in Runs, at[r] \in Answering
    PROVE  /\ Annotating(r) /\ Remembers(r) /\ Placed(r) /\ "annotate_text" \notin done[r]
           /\ \A k \in Keys : record[r][k] # r
<1>1. Annotating(r) /\ "annotate_text" \notin done[r]
  BY DEF Annotating, Answering, Asking, Base, MInv, FilesSound
<1>2. \A k \in Keys : record[r][k] # r
  BY DEF AInv, CacheSound
<1> QED  BY <1>1, <1>2, PlacedIs

\* An item is looked up: found or not, it is accounted for.
LEMMA MemoryOfALookUp ==
    ASSUME Base, Base', [Next]_vars, AInv, NEW r \in Runs, LookUp(r)
    PROVE  AInv'
<1> DEFINE n == Len(source[r]) + 1
           k == Key(r, n)
<1>0. /\ at[r] = "lookup" /\ UNCHANGED <<cache, done, pending, attempts, captured, used>>
      /\ at[r] \in Answering /\ at \in [Runs -> Places]
  BY DEF LookUp, Shared, Answering, Base, MInv, FileTypes
<1>1. /\ Annotating(r) /\ Remembers(r) /\ Placed(r) /\ "annotate_text" \notin done[r]
      /\ \A x \in Keys : record[r][x] # r
  BY <1>0, WhileAnswering
<1>2. /\ source \in [Runs -> Seq(Answers)] /\ todo \in [Runs -> Seq(Keys)]
      /\ record \in [Runs -> [Keys -> Runs \cup {"absent"}]]
      /\ Len(source[r]) \in Nat /\ DOMAIN source[r] = 1..Len(source[r])
  BY DEF AInv, MemoryTypes
<1>3. CASE Raises(r) /\ UNCHANGED <<source, record, todo>>
  <2>1. at'[r] = "failing" /\ \A q \in Runs \ {r} : at'[q] = at[q]
    BY <1>0, <1>3 DEF Raises, Goes
  <2>2. ~Annotating(r)' /\ ~Forgetful(r)' /\ at'[r] # "filling" /\ at'[r] \notin Answering
    BY <1>0, <1>1, <2>1 DEF Annotating, Forgetful, Asking, Unstarted, Answering
  <2> QED  BY <1>0, <1>3, <2>1, <2>2, QuietMove DEF annotator
<1>4. CASE /\ Goes(r, IF todo[r] = <<>> THEN "bind" ELSE "load")
           /\ UNCHANGED <<source, record, todo>>
  <2>1. /\ at'[r] = (IF todo[r] = <<>> THEN "bind" ELSE "load")
        /\ \A q \in Runs \ {r} : at'[q] = at[q]
    BY <1>0, <1>4 DEF Goes
  <2>2. ~Forgetful(r)' /\ at'[r] # "filling"
    BY <2>1 DEF Forgetful, Unstarted
  <2>3. Placed(r)'
    BY <1>0, <1>1, <1>4, <2>1 DEF Placed
  <2> QED  BY <1>0, <1>1, <1>4, <2>1, <2>2, <2>3, QuietMove DEF annotator
<1>5. CASE /\ Len(source[r]) # Len(Items(r)) /\ at' = at
           /\ \/ /\ source' = [source EXCEPT ![r] = Append(@, "missing")] /\ record' = record
                 /\ todo' = [todo EXCEPT ![r] = IF Contains(@, k) THEN @ ELSE Append(@, k)]
              \/ /\ source' = [source EXCEPT ![r] = Append(@, "cache")] /\ todo' = todo
                 /\ cache[k] \in Runs /\ record' = [record EXCEPT ![r][k] = cache[k]]
  <2>1. k = KeyAt(r, n) /\ \A i : KeyAt(r, i)' = KeyAt(r, i)
    BY <1>0, KeyIs DEF Asking, KeyAt, Items
  <2>2. Items(r) \in Seq(Texts) /\ n <= Len(Items(r)) /\ Items(r)' = Items(r)
    <3>1. Items(r) \in Seq(Texts)
      BY <1>1, KeysAre
    <3> QED  BY <1>0, <1>1, <1>2, <1>5, <3>1 DEF Remembers, Items
  <2>3. k \in Keys
    <3>1. n \in 1..Len(Items(r))
      BY <1>2, <2>2
    <3> QED  BY <1>1, <2>1, <3>1, KeysAre
  <2> HIDE DEF k
  <2>4. PICK e \in {"missing", "cache"} : source' = [source EXCEPT ![r] = Append(@, e)] /\ at' = at
                     /\ \/ /\ e = "missing" /\ record' = record
                           /\ todo' = [todo EXCEPT ![r] = IF Contains(@, k) THEN @ ELSE Append(@, k)]
                        \/ /\ e = "cache" /\ todo' = todo
                           /\ cache[k] \in Runs /\ record' = [record EXCEPT ![r][k] = cache[k]]
    BY <1>5 DEF k
  <2>5. /\ source'[r] = Append(source[r], e) /\ source' \in [Runs -> Seq(Answers)]
        /\ \A q \in Runs \ {r} : source'[q] = source[q]
    BY <1>2, <2>4 DEF Answers
  <2>6. /\ DOMAIN source'[r] = 1..n /\ Len(source'[r]) = n /\ source'[r][n] = e
        /\ \A i \in 1..n : i # n => source'[r][i] = source[r][i] /\ i \in DOMAIN source[r]
    BY <1>2, <2>5
  <2>7. /\ todo' \in [Runs -> Seq(Keys)] /\ \A q \in Runs \ {r} : todo'[q] = todo[q]
        /\ ToSet(todo'[r]) = ToSet(todo[r]) \cup (IF e = "missing" THEN {k} ELSE {})
    <3>1. CASE e = "cache"
      BY <1>2, <2>4, <3>1
    <3>2. CASE e = "missing"
      <4>1. todo[r] \in Seq(Keys) /\ Append(todo[r], k) \in Seq(Keys)
        BY <1>2, <2>3
      <4>2. todo'[r] = IF k \in ToSet(todo[r]) THEN todo[r] ELSE Append(todo[r], k)
        BY <1>2, <2>4, <3>2, <4>1, ContainedIs
      <4>3. ToSet(Append(todo[r], k)) = ToSet(todo[r]) \cup {k}
        BY <2>3, <4>1, AppendedSet
      <4>4. ToSet(todo'[r]) = ToSet(todo[r]) \cup {k}
        BY <4>2, <4>3
      <4>5. todo' \in [Runs -> Seq(Keys)]
        BY <1>2, <2>4, <3>2, <4>1
      <4> QED  BY <1>2, <2>4, <3>2, <4>4, <4>5
    <3> QED  BY <3>1, <3>2
  <2>8. /\ record' \in [Runs -> [Keys -> Runs \cup {"absent"}]]
        /\ \A q \in Runs \ {r} : record'[q] = record[q]
        /\ \A x \in Keys : record'[r][x] = IF e = "cache" /\ x = k THEN cache[k] ELSE record[r][x]
        /\ e = "cache" => cache[k] \in Runs
    <3>1. CASE e = "missing"
      BY <1>2, <2>4, <3>1
    <3>2. CASE e = "cache"
      <4>1. cache[k] \in Runs /\ record' = [record EXCEPT ![r][k] = cache[k]]
        BY <2>4, <3>2
      <4>2. /\ record'[r] = [record[r] EXCEPT ![k] = cache[k]] /\ DOMAIN record' = Runs
            /\ \A q \in Runs \ {r} : record'[q] = record[q]
        BY <1>2, <4>1
      <4>3. record'[r] \in [Keys -> Runs \cup {"absent"}]
        BY <1>2, <4>1, <4>2
      <4>4. record' \in [Runs -> [Keys -> Runs \cup {"absent"}]]
        BY <1>2, <4>1
      <4> QED  BY <1>2, <2>3, <3>2, <4>1, <4>2, <4>4
    <3> QED  BY <3>1, <3>2
  <2>9. \A x \in Keys : /\ record'[r][x] \in Runs => cache[x] = record'[r][x]
                        /\ record[r][x] \in Runs => record'[r][x] \in Runs
                        /\ record'[r][x] # r
    <3>1. cache[k] # r
      BY <1>0, <2>3 DEF AInv, CacheSound
    <3> QED  BY <1>1, <2>8, <3>1 DEF AInv, CacheSound
  <2>10. Waits(r)' = Waits(r) \cup (IF e = "missing" THEN {k} ELSE {})
    BY <1>0, <2>7 DEF Waits
  <2>11. Remembers(r)'
    <3>1. Len(source'[r]) <= Len(Items(r)')
      BY <2>2, <2>6
    <3>2. ASSUME NEW i \in DOMAIN source'[r]
          PROVE  /\ source'[r][i] = "missing" => KeyAt(r, i)' \in Waits(r)'
                 /\ source'[r][i] # "missing" => record'[r][KeyAt(r, i)'] \in Runs
                 /\ source'[r][i] # "generated"
      <4>1. CASE i = n
        BY <2>1, <2>3, <2>6, <2>8, <2>10, <4>1
      <4>2. CASE i # n
        <5>1. source'[r][i] = source[r][i] /\ i \in DOMAIN source[r]
          BY <2>6, <4>2
        <5>2. KeyAt(r, i) \in Keys
          <6>1. i \in 1..Len(Items(r))
            BY <1>2, <2>2, <5>1
          <6> QED  BY <1>1, <6>1, KeysAre
        <5> QED  BY <1>1, <2>1, <2>9, <2>10, <5>1, <5>2 DEF Remembers
      <4> QED  BY <4>1, <4>2
    <3>3. ASSUME NEW x \in Waits(r)'
          PROVE  \E i \in DOMAIN source'[r] : KeyAt(r, i)' = x
      <4>1. n \in DOMAIN source'[r] /\ \A i \in DOMAIN source[r] : i \in DOMAIN source'[r]
        BY <1>2, <2>6
      <4> QED  BY <1>1, <2>1, <2>10, <4>1 DEF Remembers
    <3>4. ToSet(pending'[r]) \subseteq attempts'[r]
      BY <1>0, <1>1 DEF Remembers
    <3> QED  BY <2>9, <3>1, <3>2, <3>3, <3>4 DEF Remembers
  <2>12. Placed(r)' /\ ~Forgetful(r)' /\ at'[r] # "filling" /\ at'[r] \in Answering
    BY <1>0, <1>1, <2>4 DEF Placed, Forgetful, Unstarted
  <2>13. MemoryOf(r)'
    BY <2>11, <2>12 DEF MemoryOf
  <2>14. Only(r) /\ MemoryTypes'
    BY <1>0, <2>4, <2>5, <2>7, <2>8 DEF Only, AInv, MemoryTypes
  <2> QED  BY <1>0, <2>9, <2>12, <2>13, <2>14, OwnStep
<1> QED  BY <1>3, <1>4, <1>5 DEF LookUp

\* A batch that was answered is kept, and waits to be stored.
LEMMA MemoryOfABatch ==
    ASSUME Base, Base', [Next]_vars, AInv, NEW r \in Runs, Generate(r)
    PROVE  AInv'
<1> DEFINE chunk == Chunk(r)
           rest == SubSeq(todo[r], Len(chunk) + 1, Len(todo[r]))
<1>0. /\ at[r] = "generate" /\ UNCHANGED <<cache, done, source, record, captured, used>>
      /\ at[r] \in Answering /\ at \in [Runs -> Places]
  BY DEF Generate, Shared, work, Answering, Base, MInv, FileTypes
<1>1. /\ Annotating(r) /\ Remembers(r) /\ Placed(r) /\ "annotate_text" \notin done[r]
  BY <1>0, WhileAnswering
<1>2. /\ source \in [Runs -> Seq(Answers)] /\ todo \in [Runs -> Seq(Keys)]
      /\ pending \in [Runs -> Seq(Keys)] /\ attempts \in [Runs -> SUBSET Keys]
  BY DEF AInv, MemoryTypes
<1>3. /\ chunk \in Seq(Keys) /\ rest \in Seq(Keys)
      /\ ToSet(todo[r]) = ToSet(chunk) \cup ToSet(rest)
  <2> DEFINE c == IF Len(todo[r]) < BatchSize THEN Len(todo[r]) ELSE BatchSize
  <2>1. c \in 0..Len(todo[r])
    BY <1>2, RunAssumption
  <2>2. chunk = SubSeq(todo[r], 1, c)
    BY DEF Chunk
  <2> HIDE DEF c, chunk
  <2>3. Len(chunk) = c /\ chunk \in Seq(Keys)
    BY <1>2, <2>1, <2>2, CutSet
  <2> QED  BY <1>2, <2>1, <2>2, <2>3, CutSet
<1>4. /\ chunk = Chunk(r)
      /\ \/ GenerationFails(r, chunk)
         \/ /\ Answered(r, ToSet(chunk)) /\ todo' = [todo EXCEPT ![r] = rest]
            /\ pending' = [pending EXCEPT ![r] = @ \o chunk]
            /\ IF rest = <<>> THEN Goes(r, "store") ELSE at' = at
  BY DEF Generate
<1> HIDE DEF chunk, rest
<1>5. \A keys \in SUBSET ToSet(chunk) : keys \subseteq Keys
  BY <1>3 DEF ToSet
<1>6. CASE GenerationFails(r, chunk)
  <2>1. PICK keys \in SUBSET ToSet(chunk) : attempts' = [attempts EXCEPT ![r] = @ \cup keys]
    BY <1>6 DEF GenerationFails, Answered
  <2>2. /\ attempts' \in [Runs -> SUBSET Keys] /\ attempts[r] \subseteq attempts'[r]
        /\ \A q \in Runs \ {r} : attempts'[q] = attempts[q]
    BY <1>2, <1>5, <2>1
  <2>3. /\ UNCHANGED <<todo, pending>> /\ at'[r] = "failing" /\ \A q \in Runs \ {r} : at'[q] = at[q]
    BY <1>0, <1>6 DEF GenerationFails, Raises, Goes
  <2>4. /\ ~Annotating(r)' /\ ~Forgetful(r)' /\ at'[r] # "filling" /\ at'[r] \notin Answering
    BY <1>0, <1>1, <2>3 DEF Annotating, Forgetful, Asking, Unstarted, Answering
  <2>5. MemoryOf(r)'
    BY <2>4 DEF MemoryOf
  <2>6. Only(r) /\ MemoryTypes'
    BY <1>0, <2>2, <2>3 DEF Only, AInv, MemoryTypes
  <2>7. \A k \in Keys : record'[r][k] \in Runs => cache[k] = record'[r][k]
    BY <1>0 DEF AInv, CacheSound
  <2> QED  BY <1>0, <2>2, <2>4, <2>5, <2>6, <2>7, OwnStep
<1>7. CASE /\ Answered(r, ToSet(chunk)) /\ todo' = [todo EXCEPT ![r] = rest]
           /\ pending' = [pending EXCEPT ![r] = @ \o chunk]
           /\ IF rest = <<>> THEN Goes(r, "store") ELSE at' = at
  <2>1. attempts' = [attempts EXCEPT ![r] = @ \cup ToSet(chunk)]
    BY <1>7 DEF Answered
  <2>2. /\ attempts' \in [Runs -> SUBSET Keys] /\ attempts'[r] = attempts[r] \cup ToSet(chunk)
        /\ \A q \in Runs \ {r} : attempts'[q] = attempts[q]
    BY <1>2, <1>5, <2>1
  <2>3. /\ todo'[r] = rest /\ todo' \in [Runs -> Seq(Keys)]
        /\ \A q \in Runs \ {r} : todo'[q] = todo[q]
    BY <1>2, <1>3, <1>7
  <2>4. /\ pending'[r] = pending[r] \o chunk /\ pending' \in [Runs -> Seq(Keys)]
        /\ \A q \in Runs \ {r} : pending'[q] = pending[q]
    <3>1. pending[r] \o chunk \in Seq(Keys)
      BY <1>2, <1>3
    <3> QED  BY <1>2, <1>7, <3>1
  <2>5. /\ at'[r] = (IF rest = <<>> THEN "store" ELSE "generate")
        /\ \A q \in Runs \ {r} : at'[q] = at[q]
    BY <1>0, <1>7 DEF Goes
  <2>6. ToSet(pending'[r]) = ToSet(pending[r]) \cup ToSet(chunk)
    BY <1>2, <1>3, <2>4, JoinedSet
  <2>7. Waits(r)' = Waits(r)
    BY <1>3, <2>3, <2>6 DEF Waits
  <2>8. Items(r)' = Items(r) /\ \A i : KeyAt(r, i)' = KeyAt(r, i)
    BY <1>0 DEF KeyAt, Items
  <2>9. \A k, i : GeneratedAt(r, k, i)' <=> GeneratedAt(r, k, i)
    BY <1>0, <2>8 DEF GeneratedAt
  <2>10. Remembers(r)'
    <3>1. ToSet(pending'[r]) \subseteq attempts'[r]
      BY <1>1, <2>2, <2>6 DEF Remembers
    <3> QED  BY <1>0, <1>1, <2>7, <2>8, <2>9, <3>1 DEF Remembers
  <2>11. Placed(r)' /\ ~Forgetful(r)' /\ at'[r] # "filling"
    BY <1>0, <1>1, <2>3, <2>5 DEF Placed, Forgetful, Unstarted
  <2>12. MemoryOf(r)'
    BY <2>10, <2>11 DEF MemoryOf
  <2>13. Only(r) /\ MemoryTypes'
    BY <1>0, <2>2, <2>3, <2>4, <2>5 DEF Only, AInv, MemoryTypes
  <2>14. \A k \in Keys : record'[r][k] \in Runs => cache[k] = record'[r][k]
    BY <1>0 DEF AInv, CacheSound
  <2> QED  BY <1>0, <2>2, <2>11, <2>12, <2>13, <2>14, OwnStep
<1> QED  BY <1>4, <1>6, <1>7

\* What holds of a run that stores what was generated.
LEMMA WhileStoring ==
    ASSUME Base, AInv, NEW r \in Runs, at[r] \in {"store", "filling"}
    PROVE  /\ Annotating(r) /\ Remembers(r) /\ Placed(r) /\ "annotate_text" \notin done[r]
<1>1. Annotating(r) /\ "annotate_text" \notin done[r]
  BY DEF Annotating, Asking, Base, MInv, FilesSound
<1> QED  BY <1>1, PlacedIs

\* A record is made only where there is none, so that no other run fills it.
LEMMA MemoryOfOpen ==
    ASSUME Base, Base', [Next]_vars, AInv, NEW r \in Runs, OpenRecord(r)
    PROVE  AInv'
<1> DEFINE k == Head(pending[r])
<1>0. /\ at[r] = "store" /\ pending[r] # <<>> /\ UNCHANGED annotator /\ done' = done
      /\ UNCHANGED <<source, record, todo, pending, attempts>>
      /\ at \in [Runs -> Places]
      /\ IF cache[k] = "absent"
         THEN cache' = [cache EXCEPT ![k] = "torn"] /\ Goes(r, "filling")
         ELSE Raises(r) /\ cache' = cache
  BY DEF OpenRecord, annotator, work, Base, MInv, FileTypes
<1>1. Annotating(r) /\ Remembers(r) /\ Placed(r) /\ "annotate_text" \notin done[r]
  BY <1>0, WhileStoring
<1>2. pending[r] \in Seq(Keys) /\ k \in Keys
  <2>1. pending[r] \in Seq(Keys)
    BY DEF AInv, MemoryTypes
  <2> QED  BY <1>0, <2>1, HeadAndTail
<1> HIDE DEF k
<1>3. CASE Raises(r) /\ cache' = cache
  <2>1. at'[r] = "failing" /\ \A q \in Runs \ {r} : at'[q] = at[q]
    BY <1>0, <1>3 DEF Raises, Goes
  <2>2. ~Annotating(r)' /\ ~Forgetful(r)' /\ at'[r] # "filling" /\ at'[r] \notin Answering
    BY <1>0, <1>1, <2>1 DEF Annotating, Forgetful, Asking, Unstarted, Answering
  <2> QED  BY <1>0, <1>3, <2>1, <2>2, QuietMove
<1>4. CASE cache[k] = "absent" /\ cache' = [cache EXCEPT ![k] = "torn"] /\ Goes(r, "filling")
  <2>1. /\ at'[r] = "filling" /\ \A q \in Runs \ {r} : at'[q] = at[q]
    BY <1>0, <1>4 DEF Goes
  <2>2. /\ cache' \in [Keys -> Runs \cup {"absent", "torn"}]
        /\ \A x \in Keys : cache'[x] = IF x = k THEN "torn" ELSE cache[x]
        /\ "torn" \notin Runs /\ "absent" \notin Runs
    BY <1>2, <1>4, RunAssumption DEF AInv, MemoryTypes
  <2>3. MemoryTypes'
    BY <1>0, <2>2 DEF AInv, MemoryTypes
  <2>4. \A q \in Runs : MemoryOf(q)'
    <3>1. ~Forgetful(r)' /\ Placed(r)'
      BY <1>0, <1>1, <2>1 DEF Forgetful, Unstarted, Placed
    <3>2. MemoryOf(r)'
      BY <1>0, <1>1, <3>1, MemoryStays DEF AInv
    <3>3. \A q \in Runs \ {r} : MemoryOf(q)'
      BY <1>0, <2>1, MemoryOfOthers
    <3> QED  BY <3>2, <3>3
  <2>5. \A x \in Keys : cache'[x] \in Runs => x \in attempts'[cache'[x]]
    BY <1>0, <2>2 DEF AInv, CacheSound
  <2>6. \A q \in Runs, x \in Keys : record'[q][x] \in Runs => cache'[x] = record'[q][x]
    BY <1>0, <1>4, <2>2 DEF AInv, CacheSound
  <2>7. \A q \in Runs : Forgetful(q)' \/ at'[q] \in Answering => \A x \in Keys : cache'[x] # q
    <3> SUFFICES ASSUME NEW q \in Runs, Forgetful(q)' \/ at'[q] \in Answering, NEW x \in Keys
                 PROVE  cache'[x] # q
      OBVIOUS
    <3>1. q # r
      BY <2>1 DEF Forgetful, Unstarted, Answering
    <3>2. Forgetful(q) \/ at[q] \in Answering
      BY <1>0, <2>1, <3>1 DEF Forgetful
    <3> QED  BY <2>2, <3>2 DEF AInv, CacheSound
  <2>8. ASSUME NEW q \in Runs, at'[q] = "filling"
        PROVE  /\ pending'[q] # <<>> /\ cache'[Head(pending'[q])] = "torn"
               /\ \A p \in Runs \ {q} : at'[p] = "filling" => Head(pending'[p]) # Head(pending'[q])
    <3>1. ASSUME NEW p \in Runs \ {r}, at'[p] = "filling"
          PROVE  /\ pending[p] # <<>> /\ Head(pending[p]) # k
                 /\ Head(pending[p]) \in Keys /\ cache[Head(pending[p])] = "torn"
      <4>1. at[p] = "filling"
        BY <2>1, <3>1
      <4>2. pending[p] # <<>> /\ cache[Head(pending[p])] = "torn" /\ pending[p] \in Seq(Keys)
        BY <4>1 DEF AInv, CacheSound, MemoryTypes
      <4> QED  BY <1>4, <4>2, HeadAndTail
    <3>2. CASE q = r
      BY <1>0, <1>2, <2>2, <3>1, <3>2 DEF k
    <3>3. CASE q # r
      <4>1. at[q] = "filling" /\ \A p \in Runs \ {q, r} : at'[p] = at[p]
        BY <2>1, <2>8, <3>3
      <4>2. \A p \in Runs \ {q} : at'[p] = "filling" => Head(pending[p]) # Head(pending[q])
        <5> SUFFICES ASSUME NEW p \in Runs \ {q}, at'[p] = "filling"
                     PROVE  Head(pending[p]) # Head(pending[q])
          OBVIOUS
        <5>1. CASE p = r
          BY <2>8, <3>1, <3>3, <5>1 DEF k
        <5>2. CASE p # r
          BY <4>1, <5>2 DEF AInv, CacheSound
        <5> QED  BY <5>1, <5>2
      <4>3. pending[q] # <<>> /\ cache'[Head(pending[q])] = "torn"
        BY <2>2, <2>8, <3>1, <3>3
      <4> QED  BY <1>0, <4>2, <4>3
    <3> QED  BY <3>2, <3>3
  <2>9. CacheSound'
    BY <2>5, <2>6, <2>7, <2>8 DEF CacheSound
  <2> QED  BY <2>3, <2>4, <2>9 DEF AInv
<1> QED  BY <1>0, <1>3, <1>4

\* The items with a key that is not in memory all wait for it, and one is the first.
LEMMA ToldIs ==
    ASSUME Base, AInv, NEW r \in Runs, at[r] = "filling", NEW k, k = Head(pending[r])
    PROVE  \E m \in DOMAIN source[r] :
              /\ KeyAt(r, m) = k
              /\ Told(r, k) \in Seq(Answers) /\ DOMAIN Told(r, k) = DOMAIN source[r]
              /\ Len(Told(r, k)) = Len(source[r])
              /\ \A i \in DOMAIN source[r] :
                     Told(r, k)[i] = IF KeyAt(r, i) # k THEN source[r][i]
                                     ELSE IF i = m THEN "generated" ELSE "deduplicated"
<1> DEFINE waiting == {i \in DOMAIN source[r] : source[r][i] = "missing" /\ Key(r, i) = k}
<1>1. Annotating(r) /\ Remembers(r)
  BY WhileStoring
<1>2. /\ pending[r] \in Seq(Keys) /\ pending[r] # <<>> /\ cache[k] = "torn"
      /\ source[r] \in Seq(Answers) /\ "torn" \notin Runs
  BY RunAssumption DEF AInv, MemoryTypes, CacheSound
<1>3. k \in Keys /\ k \in Waits(r)
  BY <1>2, HeadAndTail DEF Waits
<1>4. record[r][k] \notin Runs
  BY <1>2, <1>3 DEF AInv, CacheSound
<1>5. waiting = {i \in DOMAIN source[r] : KeyAt(r, i) = k}
  <2>1. \A i : Key(r, i) = KeyAt(r, i)
    BY KeyIs DEF Asking
  <2>2. \A i \in DOMAIN source[r] : KeyAt(r, i) = k => source[r][i] = "missing"
    BY <1>1, <1>4 DEF Remembers
  <2> QED  BY <2>1, <2>2
<1>6. waiting # {} /\ waiting \in SUBSET Nat /\ DOMAIN source[r] = 1..Len(source[r])
      /\ Len(source[r]) \in Nat
  <2>1. DOMAIN source[r] = 1..Len(source[r]) /\ Len(source[r]) \in Nat
    BY <1>2
  <2>2. \E i \in DOMAIN source[r] : KeyAt(r, i) = k
    BY <1>1, <1>3 DEF Remembers
  <2> QED  BY <1>5, <2>1, <2>2
<1>7. Told(r, k) = [i \in DOMAIN source[r] |->
            IF i \notin waiting THEN source[r][i]
            ELSE IF \A j \in waiting : i <= j THEN "generated" ELSE "deduplicated"]
  BY DEF Told
<1> HIDE DEF waiting
<1>8. PICK m \in waiting : \A j \in waiting : m <= j
  BY <1>6, FirstSuffix
<1>9. \A i \in waiting : (\A j \in waiting : i <= j) <=> i = m
  BY <1>6, <1>8
<1>10. \A i \in DOMAIN source[r] :
          Told(r, k)[i] = IF KeyAt(r, i) # k THEN source[r][i]
                          ELSE IF i = m THEN "generated" ELSE "deduplicated"
  BY <1>5, <1>7, <1>9
<1>11. \A i \in DOMAIN source[r] : Told(r, k)[i] \in Answers
  <2>1. \A i \in DOMAIN source[r] : source[r][i] \in Answers
    BY <1>2, <1>6
  <2> QED  BY <1>10, <2>1 DEF Answers
<1>12. /\ Told(r, k) \in Seq(Answers) /\ Len(Told(r, k)) = Len(source[r])
       /\ DOMAIN Told(r, k) = DOMAIN source[r]
  <2>1. Told(r, k) = [i \in 1..Len(source[r]) |-> Told(r, k)[i]]
    BY <1>6, <1>7
  <2>2. Told(r, k) \in [1..Len(source[r]) -> Answers]
    BY <1>6, <1>11, <2>1
  <2> QED  BY <1>6, <2>2, LenProperties
<1>13. m \in DOMAIN source[r] /\ KeyAt(r, m) = k
  BY <1>5, <1>8
<1> QED  BY <1>10, <1>12, <1>13

\* The run that filled the record counts it once, with the first item that waited.
LEMMA MemoryOfFill ==
    ASSUME Base, Base', [Next]_vars, AInv, NEW r \in Runs, FillRecord(r)
    PROVE  AInv'
<1> DEFINE k == Head(pending[r])
<1>0. /\ at[r] = "filling" /\ UNCHANGED <<done, todo, attempts, captured, used>>
      /\ at \in [Runs -> Places]
      /\ \/ /\ cache' = [cache EXCEPT ![k] = r] /\ Goes(r, "store")
            /\ record' = [record EXCEPT ![r][k] = r]
            /\ source' = [source EXCEPT ![r] = Told(r, k)]
            /\ pending' = [pending EXCEPT ![r] = Tail(@)]
         \/ Raises(r) /\ UNCHANGED <<cache, record, source, pending>>
  BY DEF FillRecord, Shared, work, Base, MInv, FileTypes
<1>1. Annotating(r) /\ Remembers(r) /\ Placed(r) /\ "annotate_text" \notin done[r]
  BY <1>0, WhileStoring
<1>2. /\ pending[r] \in Seq(Keys) /\ k \in Keys /\ pending[r] # <<>> /\ cache[k] = "torn"
      /\ Tail(pending[r]) \in Seq(Keys)
      /\ ToSet(pending[r]) = {k} \cup ToSet(Tail(pending[r]))
      /\ "torn" \notin Runs
  <2>1. pending[r] \in Seq(Keys) /\ pending[r] # <<>> /\ cache[k] = "torn" /\ "torn" \notin Runs
    BY <1>0, RunAssumption DEF AInv, MemoryTypes, CacheSound
  <2> QED  BY <2>1, HeadAndTail
<1>3. PICK m \in DOMAIN source[r] :
              /\ KeyAt(r, m) = k
              /\ Told(r, k) \in Seq(Answers) /\ DOMAIN Told(r, k) = DOMAIN source[r]
              /\ Len(Told(r, k)) = Len(source[r])
              /\ \A i \in DOMAIN source[r] :
                     Told(r, k)[i] = IF KeyAt(r, i) # k THEN source[r][i]
                                     ELSE IF i = m THEN "generated" ELSE "deduplicated"
  BY <1>0, ToldIs
<1>4. /\ source \in [Runs -> Seq(Answers)] /\ pending \in [Runs -> Seq(Keys)]
      /\ record \in [Runs -> [Keys -> Runs \cup {"absent"}]]
      /\ cache \in [Keys -> Runs \cup {"absent", "torn"}]
  BY DEF AInv, MemoryTypes
<1> HIDE DEF k
<1>5. CASE Raises(r) /\ UNCHANGED <<cache, record, source, pending>>
  <2>1. at'[r] = "failing" /\ \A q \in Runs \ {r} : at'[q] = at[q]
    BY <1>0, <1>5 DEF Raises, Goes
  <2>2. ~Annotating(r)' /\ ~Forgetful(r)' /\ at'[r] # "filling" /\ at'[r] \notin Answering
    BY <1>0, <1>1, <2>1 DEF Annotating, Forgetful, Asking, Unstarted, Answering
  <2> QED  BY <1>0, <1>5, <2>1, <2>2, QuietMove DEF annotator
<1>6. CASE /\ cache' = [cache EXCEPT ![k] = r] /\ Goes(r, "store")
           /\ record' = [record EXCEPT ![r][k] = r]
           /\ source' = [source EXCEPT ![r] = Told(r, k)]
           /\ pending' = [pending EXCEPT ![r] = Tail(@)]
  <2>1. at'[r] = "store" /\ \A q \in Runs \ {r} : at'[q] = at[q]
    BY <1>0, <1>6 DEF Goes
  <2>2. /\ cache' \in [Keys -> Runs \cup {"absent", "torn"}]
        /\ \A x \in Keys : cache'[x] = IF x = k THEN r ELSE cache[x]
    BY <1>2, <1>4, <1>6
  <2>3. /\ record' \in [Runs -> [Keys -> Runs \cup {"absent"}]]
        /\ \A x \in Keys : record'[r][x] = IF x = k THEN r ELSE record[r][x]
        /\ \A q \in Runs \ {r} : record'[q] = record[q]
    <3>1. [record[r] EXCEPT ![k] = r] \in [Keys -> Runs \cup {"absent"}]
      BY <1>2, <1>4
    <3>2. record'[r] = [record[r] EXCEPT ![k] = r] /\ \A q \in Runs \ {r} : record'[q] = record[q]
      BY <1>4, <1>6
    <3>3. record' \in [Runs -> [Keys -> Runs \cup {"absent"}]]
      BY <1>2, <1>4, <1>6
    <3> QED  BY <1>2, <1>4, <3>2, <3>3
  <2>4. /\ source' \in [Runs -> Seq(Answers)] /\ source'[r] = Told(r, k)
        /\ \A q \in Runs \ {r} : source'[q] = source[q]
    BY <1>3, <1>4, <1>6
  <2>5. /\ pending' \in [Runs -> Seq(Keys)] /\ pending'[r] = Tail(pending[r])
        /\ \A q \in Runs \ {r} : pending'[q] = pending[q]
    BY <1>2, <1>4, <1>6
  <2>6. MemoryTypes'
    BY <1>0, <2>2, <2>3, <2>4, <2>5 DEF AInv, MemoryTypes
  <2>7. Items(r)' = Items(r) /\ \A i : KeyAt(r, i)' = KeyAt(r, i)
    BY <1>0 DEF KeyAt, Items
  <2>8. Waits(r) = {k} \cup Waits(r)'
    BY <1>0, <1>2, <2>5 DEF Waits
  <2>9. /\ DOMAIN source'[r] = DOMAIN source[r] /\ Len(source'[r]) = Len(source[r])
        /\ \A i \in DOMAIN source[r] :
               source'[r][i] = IF KeyAt(r, i) # k THEN source[r][i]
                               ELSE IF i = m THEN "generated" ELSE "deduplicated"
    BY <1>3, <2>4
  <2>10. Remembers(r)'
    <3>1. Len(source'[r]) <= Len(Items(r)')
      BY <1>1, <2>7, <2>9 DEF Remembers
    <3>2. ASSUME NEW i \in DOMAIN source'[r]
          PROVE  /\ source'[r][i] = "missing" => KeyAt(r, i)' \in Waits(r)'
                 /\ source'[r][i] # "missing" => record'[r][KeyAt(r, i)'] \in Runs
                 /\ source'[r][i] = "generated" => record'[r][KeyAt(r, i)'] = r
      <4>1. CASE KeyAt(r, i) = k
        BY <1>2, <2>3, <2>7, <2>9, <4>1
      <4>2. CASE KeyAt(r, i) # k
        <5>1. KeyAt(r, i) \in Keys
          <6>1. /\ Items(r) \in Seq(Texts) /\ source[r] \in Seq(Answers)
                /\ Len(source[r]) <= Len(Items(r))
            BY <1>1, <1>4, KeysAre DEF Remembers
          <6>2. i \in 1..Len(Items(r))
            BY <2>9, <6>1
          <6> QED  BY <1>1, <6>2, KeysAre
        <5>2. source'[r][i] = source[r][i] /\ i \in DOMAIN source[r]
          BY <2>9, <4>2
        <5> QED  BY <1>1, <2>3, <2>7, <2>8, <4>2, <5>1, <5>2 DEF Remembers
      <4> QED  BY <4>1, <4>2
    <3>3. ASSUME NEW x \in Waits(r)'
          PROVE  \E i \in DOMAIN source'[r] : KeyAt(r, i)' = x
      BY <1>1, <2>7, <2>8, <2>9 DEF Remembers
    <3>4. ASSUME NEW x \in Keys, record'[r][x] = r
          PROVE  \E i \in DOMAIN source'[r] :
                     /\ GeneratedAt(r, x, i)'
                     /\ \A j \in DOMAIN source'[r] : GeneratedAt(r, x, j)' => j = i
      <4>1. CASE x = k
        <5>1. GeneratedAt(r, x, m)'
          BY <1>3, <2>7, <2>9, <4>1 DEF GeneratedAt
        <5>2. \A j \in DOMAIN source'[r] : GeneratedAt(r, x, j)' => j = m
          BY <2>7, <2>9, <4>1 DEF GeneratedAt
        <5> QED  BY <1>3, <2>9, <5>1, <5>2
      <4>2. CASE x # k
        <5>1. \A i : GeneratedAt(r, x, i)' <=> GeneratedAt(r, x, i)
          BY <2>7, <2>9, <4>2 DEF GeneratedAt
        <5>2. record[r][x] = r
          BY <2>3, <3>4, <4>2
        <5> QED  BY <1>1, <2>9, <5>1, <5>2 DEF Remembers
      <4> QED  BY <4>1, <4>2
    <3>5. ToSet(pending'[r]) \subseteq attempts'[r]
      BY <1>0, <1>1, <1>2, <2>5 DEF Remembers
    <3> QED  BY <3>1, <3>2, <3>3, <3>4, <3>5 DEF Remembers
  <2>11. Placed(r)' /\ ~Forgetful(r)'
    BY <1>0, <1>1, <2>1 DEF Placed, Forgetful, Unstarted
  <2>12. \A q \in Runs : MemoryOf(q)'
    <3>1. MemoryOf(r)'
      BY <2>10, <2>11 DEF MemoryOf
    <3>2. \A q \in Runs \ {r} : MemoryOf(q)'
      BY <1>0, <2>1, <2>3, <2>4, <2>5, MemoryOfOthers
    <3> QED  BY <3>1, <3>2
  <2>13. \A x \in Keys : cache'[x] \in Runs => x \in attempts'[cache'[x]]
    <3>1. k \in attempts[r]
      BY <1>1, <1>2 DEF Remembers
    <3> QED  BY <1>0, <2>2, <3>1 DEF AInv, CacheSound
  <2>14. \A q \in Runs, x \in Keys : record'[q][x] \in Runs => cache'[x] = record'[q][x]
    BY <1>2, <2>2, <2>3 DEF AInv, CacheSound
  <2>15. \A q \in Runs : Forgetful(q)' \/ at'[q] \in Answering => \A x \in Keys : cache'[x] # q
    <3> SUFFICES ASSUME NEW q \in Runs, Forgetful(q)' \/ at'[q] \in Answering, NEW x \in Keys
                 PROVE  cache'[x] # q
      OBVIOUS
    <3>1. q # r
      BY <2>1, <2>11 DEF Answering
    <3>2. Forgetful(q) \/ at[q] \in Answering
      BY <1>0, <2>1, <3>1 DEF Forgetful
    <3> QED  BY <2>2, <3>1, <3>2 DEF AInv, CacheSound
  <2>16. ASSUME NEW q \in Runs, at'[q] = "filling"
        PROVE  /\ pending'[q] # <<>> /\ cache'[Head(pending'[q])] = "torn"
               /\ \A p \in Runs \ {q} : at'[p] = "filling" => Head(pending'[p]) # Head(pending'[q])
    <3>1. \A p \in Runs : at'[p] = "filling" =>
              p # r /\ at[p] = "filling" /\ pending'[p] = pending[p]
      BY <2>1, <2>5
    <3>2. q # r /\ at[q] = "filling" /\ pending'[q] = pending[q]
      BY <2>16, <3>1
    <3>3. /\ pending[q] # <<>> /\ cache[Head(pending[q])] = "torn"
          /\ Head(pending[q]) # k /\ pending[q] \in Seq(Keys)
      BY <1>0, <3>2 DEF AInv, CacheSound, MemoryTypes, k
    <3>4. Head(pending[q]) \in Keys
      BY <3>3, HeadAndTail
    <3>5. \A p \in Runs \ {q} : at[p] = "filling" => Head(pending[p]) # Head(pending[q])
      BY <3>2 DEF AInv, CacheSound
    <3> QED  BY <2>2, <3>1, <3>2, <3>3, <3>4, <3>5
  <2>17. CacheSound'
    BY <2>13, <2>14, <2>15, <2>16 DEF CacheSound
  <2> QED  BY <2>6, <2>12, <2>17 DEF AInv
<1> QED  BY <1>0, <1>5, <1>6 DEF k

LEMMA MemoryNext ==
    ASSUME Base, Base', [Next]_vars, AInv PROVE AInv'
<1>1. CASE Edit \/ UNCHANGED vars
  <2>1. UNCHANGED <<cache, at, done, source, record, todo, pending, attempts>>
    BY <1>1 DEF Edit, vars, run, work, annotator
  <2>2. \A r \in Runs : (Forgetful(r)' <=> Forgetful(r)) /\ (Annotating(r)' <=> Annotating(r))
                        /\ (Placed(r)' <=> Placed(r))
    BY <2>1 DEF Forgetful, Annotating, Placed
  <2>3. ASSUME NEW r \in Runs PROVE MemoryOf(r)'
    <3>1. MemoryOf(r)
      BY DEF AInv
    <3>2. Annotating(r)' => Annotating(r) /\ Placed(r)'
      BY <2>2, <3>1 DEF MemoryOf
    <3> QED  BY <2>1, <2>2, <3>1, <3>2, MemoryStays
  <2>4. CacheSound' /\ MemoryTypes'
    BY <2>1, <2>2 DEF AInv, CacheSound, MemoryTypes
  <2> QED  BY <2>3, <2>4 DEF AInv
<1> QED  BY <1>1, MemoryApart, MemoryOfStages, MemoryAtFirst, MemoryOfTheModel, MemoryOfALookUp,
            MemoryOfABatch, MemoryOfOpen, MemoryOfFill DEF Next, Annotate

LEMMA BaseAtFirst == Init => Base
<1> SUFFICES ASSUME Init PROVE Base
  OBVIOUS
<1>1. CInv
  BY InputsAtFirst
<1>2. ReadSound
  BY RunAssumption DEF Init, ReadSound, ReadOf, Versions, Asking
<1> QED  BY <1>1, <1>2, FilesAtFirst DEF Base

LEMMA MemoryInit == Init => AInv
<1> SUFFICES ASSUME Init PROVE AInv
  OBVIOUS
<1>1. MemoryTypes
  <2>1. <<>> \in Seq(Answers) /\ <<>> \in Seq(Keys)
    OBVIOUS
  <2> QED  BY <2>1 DEF Init, MemoryTypes
<1>2. \A r \in Runs : "absent" # r
  BY RunAssumption
<1>3. CacheSound
  BY <1>2 DEF Init, CacheSound
<1>4. \A r \in Runs : MemoryOf(r)
  BY DEF Init, MemoryOf, Forgetful, Annotating, Asking
<1> QED  BY <1>1, <1>3, <1>4 DEF AInv

LEMMA BaseNext == Base /\ [Next]_vars => Base'
  BY InputsNext, FilesNext, ReadNext DEF Base

LEMMA AgreementFollows == ASSUME Base, AInv PROVE CompleteRunsAgree /\ GenerationsAreKept
<1>1. ASSUME NEW r \in Runs, "annotate_text" \in done[r]
      PROVE  /\ Remembers(r) /\ Waits(r) = {} /\ \A i : Key(r, i) = KeyAt(r, i)
             /\ \A i \in DOMAIN source[r] :
                    KeyAt(r, i) \in Keys /\ record[r][KeyAt(r, i)] \in Runs
  <2>1. Annotating(r) /\ Remembers(r) /\ Placed(r)
    BY <1>1, PlacedIs DEF Annotating
  <2>2. Waits(r) = {}
    BY <1>1, <2>1, EmptySet DEF Placed, Waits
  <2>3. \A i : Key(r, i) = KeyAt(r, i)
    BY <1>1, KeyIs
  <2>4. \A i \in DOMAIN source[r] : KeyAt(r, i) \in Keys
    <3>1. Items(r) \in Seq(Texts) /\ source[r] \in Seq(Answers) /\ Len(source[r]) <= Len(Items(r))
      BY <2>1, KeysAre DEF Remembers, AInv, MemoryTypes
    <3>2. \A i \in DOMAIN source[r] : i \in 1..Len(Items(r))
      BY <3>1
    <3> QED  BY <2>1, <3>2, KeysAre
  <2>5. \A i \in DOMAIN source[r] : record[r][KeyAt(r, i)] \in Runs
    BY <2>1, <2>2 DEF Remembers
  <2> QED  BY <2>1, <2>2, <2>3, <2>4, <2>5
<1>2. CompleteRunsAgree
  <2> SUFFICES ASSUME NEW r \in Runs, "annotate_text" \in done[r], NEW i \in DOMAIN source[r]
               PROVE  cache[Key(r, i)] \in Runs /\ record[r][Key(r, i)] = cache[Key(r, i)]
    BY DEF CompleteRunsAgree
  <2> QED  BY <1>1 DEF AInv, CacheSound
<1>3. ASSUME NEW r \in Runs, "annotate_text" \in done[r],
             NEW k \in {Key(r, i) : i \in DOMAIN source[r]}
      PROVE  Cardinality(GeneratedRounds(r, k)) = IF record[r][k] = r THEN 1 ELSE 0
  <2>1. k \in Keys /\ GeneratedRounds(r, k) = {i \in DOMAIN source[r] : GeneratedAt(r, k, i)}
    BY <1>1, <1>3 DEF GeneratedRounds, GeneratedAt
  <2>2. CASE record[r][k] = r
    <3>1. PICK i \in DOMAIN source[r] :
              GeneratedAt(r, k, i) /\ \A j \in DOMAIN source[r] : GeneratedAt(r, k, j) => j = i
      BY <1>1, <1>3, <2>1, <2>2 DEF Remembers
    <3>2. GeneratedRounds(r, k) = {i}
      BY <2>1, <3>1
    <3> QED  BY <2>2, <3>2, FS_Singleton
  <2>3. CASE record[r][k] # r
    <3>1. GeneratedRounds(r, k) = {}
      BY <1>1, <1>3, <2>1, <2>3 DEF GeneratedAt, Remembers
    <3> QED  BY <2>3, <3>1, FS_EmptySet
  <2> QED  BY <2>2, <2>3
<1>4. GenerationsAreKept
  BY <1>3 DEF GenerationsAreKept, AInv, CacheSound
<1> QED  BY <1>2, <1>4

\* What every run remembers of the cache is so (annotate, _write_cache).
LEMMA MemoryHolds == Spec => [](Base /\ AInv)
  BY BaseAtFirst, MemoryInit, BaseNext, MemoryNext, PTL DEF Spec

\* Completed runs that had one text annotated by one model have the one answer that is
\* in the cache, however their look-ups and writes interleaved (annotate, _write_cache).
THEOREM AnswersAgree == Spec => []CompleteRunsAgree
  BY MemoryHolds, AgreementFollows, PTL

\* A record of the cache is of an attempt its run kept, and a completed run counts each
\* generation of its own once (_write_generation_attempt, inference_source_for).
THEOREM GenerationsCountOnce == Spec => []GenerationsAreKept
  BY MemoryHolds, AgreementFollows, PTL
=============================================================================
