--------------------------- MODULE MCResearchRuns ---------------------------
(* Values of the constants of ResearchRuns for TLC. *)
EXTENDS ResearchRuns

CONSTANTS r1, r2, t1, t2, n1

SameName == [r \in Runs |-> n1]
BothEnds == [r \in Runs |-> IF r = r1 THEN "report" ELSE "annotate_text"]
\* Two items have one text; the edited file has another mix.
Mixed == [v \in 0..MaxEdits |-> IF v = 0 THEN <<t1, t2, t1>> ELSE <<t2, t2>>]
EveryFault == {"crash", "write"}
=============================================================================
