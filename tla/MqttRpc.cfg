\* Every fault; the callers' threads and wait_for are fair, nothing else is.
SPECIFICATION FairSpec
CONSTANTS
    Callers <- MCCallers
    MaxCalls <- MCMaxCalls
    Faults = {"net", "refuse", "mute"}
INVARIANTS TypeOK AnswerNotMissed NothingLeaks
PROPERTIES ImplementsContract CallsReturn
\* The calls are bounded and the link may stay down.
CHECK_DEADLOCK FALSE
