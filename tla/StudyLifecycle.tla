--------------------------- MODULE StudyLifecycle ---------------------------
(***************************************************************************)
(* What the registry promises of a study: it goes forward through its      *)
(* phases and may be closed from any of them, its holdout is used up       *)
(* before it is opened and opened once, and what is used up once, by a     *)
(* study or outside, is never used again, nor what overlaps it.            *)
(***************************************************************************)
EXTENDS Naturals

CONSTANTS Studies, Holdouts, Overlap, NoName

VARIABLES
    phase,      \* phase[s]: where study s is
    used,       \* uses of holdouts, by a study or (NoName) outside
    opened      \* studies whose reserved data was opened

vars == <<phase, used, opened>>

Init == phase = [s \in Studies |-> "unregistered"] /\ used = {} /\ opened = {}

Forward ==
    {<<"unregistered", "development_open">>, <<"development_open", "development_locked">>,
     <<"development_locked", "candidate_frozen">>}

Advance(s) ==
    /\ \E step \in Forward : phase[s] = step[1] /\ phase' = [phase EXCEPT ![s] = step[2]]
    /\ UNCHANGED <<used, opened>>

Close(s) ==
    /\ phase[s] \notin {"unregistered", "closed"}
    /\ phase' = [phase EXCEPT ![s] = "closed"]
    /\ UNCHANGED <<used, opened>>

\* Of a frozen study, or, by nobody in particular, outside.
Use(h, s) ==
    /\ s # NoName => phase[s] = "candidate_frozen" /\ ~\E u \in used : u.study = s
    /\ ~\E u \in used : <<u.holdout, h>> \in Overlap
    /\ used' = used \cup {[holdout |-> h, study |-> s]}
    /\ UNCHANGED <<phase, opened>>

Open(s) ==
    /\ phase[s] = "candidate_frozen" /\ s \notin opened /\ \E u \in used : u.study = s
    /\ opened' = opened \cup {s}
    /\ UNCHANGED <<phase, used>>

RevealResult(s) ==
    /\ phase[s] = "candidate_frozen" /\ s \in opened
    /\ phase' = [phase EXCEPT ![s] = "holdout_revealed"]
    /\ UNCHANGED <<used, opened>>

Next ==
    \/ \E s \in Studies : Advance(s) \/ Close(s) \/ Open(s) \/ RevealResult(s)
    \/ \E h \in Holdouts, s \in Studies \cup {NoName} : Use(h, s)

Spec == Init /\ [][Next]_vars
=============================================================================
