-------------------------- MODULE MCStudyExecution --------------------------
(* Values of the constants of StudyExecution for TLC. *)
EXTENDS StudyExecution, TLC

CONSTANTS p1, p2, s1, s2, h1, h2, h3, c1, c2

Everything == AllCommands
Evaluations == {"create", "reserve", "propose", "approve", "run", "freeze", "reveal"}
Proposals == {"create", "reserve", "propose", "approve", "close"}
AnyFault == AllFaults
NoFault == {}

\* h1 and h2 share assets and outcomes, h3 shares them with neither.
SomeOverlap == {<<h, h>> : h \in Holdouts} \cup {<<h, i>> \in Holdouts \X Holdouts :
                                                 {h, i} \subseteq {h1, h2}}

Symmetry == Permutations(Procs) \cup Permutations(Studies) \cup Permutations(Sessions)
=============================================================================
