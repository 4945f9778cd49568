--------------------------- MODULE OrderLifecycle ---------------------------
(***************************************************************************)
(* What the order adapter promises about its mutations, without locks,     *)
(* events, files or a broker: a mutation is opened once, sent at most once *)
(* while it is open, and decided once; an order is opened only when        *)
(* nothing is open; orders are neither opened nor sent while trading is    *)
(* halted; and a halt is lifted only when nothing is open.                 *)
(***************************************************************************)
CONSTANTS OrderIds, CancelIds

ClientIds == OrderIds \cup CancelIds

VARIABLES
    phase,  \* phase[c] is "new", "open" or the verdict on c
    sent,   \* the mutations handed to the broker
    halted  \* trading is halted

lifecycleVars == <<phase, sent, halted>>

Init ==
    /\ phase = [c \in ClientIds |-> "new"]
    /\ sent = {}
    /\ halted = FALSE

NothingOpen == \A c \in ClientIds : phase[c] # "open"

Open(c) ==
    /\ phase[c] = "new"
    /\ c \in OrderIds => NothingOpen /\ ~halted
    /\ phase' = [phase EXCEPT ![c] = "open"]
    /\ UNCHANGED <<sent, halted>>

Send(c) ==
    /\ phase[c] = "open" /\ c \notin sent
    /\ c \in OrderIds => ~halted
    /\ sent' = sent \cup {c}
    /\ UNCHANGED <<phase, halted>>

Decide(c, verdict) ==
    /\ phase[c] = "open"
    /\ phase' = [phase EXCEPT ![c] = verdict]
    /\ UNCHANGED <<sent, halted>>

Halt == ~halted /\ halted' = TRUE /\ UNCHANGED <<phase, sent>>

Resume ==
    /\ halted /\ NothingOpen
    /\ halted' = FALSE
    /\ UNCHANGED <<phase, sent>>

Next ==
    \/ \E c \in ClientIds : \/ Open(c) \/ Send(c)
                            \/ \E verdict \in {"accepted", "rejected"} : Decide(c, verdict)
    \/ Halt \/ Resume

Spec == Init /\ [][Next]_lifecycleVars
=============================================================================
