\* Three steps, two tool calls, one piece of evidence, every fault.
\* A session ends, and then nothing happens.
CONSTANTS
    e1 = e1
    Evidence = {e1}
    MaxSteps = 3
    MaxToolCalls = 2
    MaxPages = 2
    MaxReads = 1
    MaxStepBytes = 2
    MaxRunBytes = 3
    Faults <- AnyFault
SPECIFICATION FairSpec
INVARIANTS
    TraceIsComplete
    FinalRunReplays
    LimitsHold
    VerifiedIsGrounded
PROPERTIES
    OutcomeStands
    SessionEnds
CHECK_DEADLOCK FALSE
