----------------------------- MODULE StateBridge -----------------------------
(* The node hcr_state_bridge of hcr5_bridge: joint states from the receive    *)
(* thread to the topic, and two services that command the arm. The executor   *)
(* has one thread: while a service waits for its answer no timer fires.       *)
EXTENDS ManualArm

CONSTANTS
    AllowMotion,     \* the parameter allow_motion
    StaleAfter,      \* how old a position may be to be published, 1 s
    RequestTimeout   \* how long request() waits

ASSUME BridgeAssumption ==
    AllowMotion \in BOOLEAN /\ {StaleAfter, RequestTimeout} \subseteq Nat \ {0}

VARIABLES
    age,       \* of the last position; StaleAfter + 1 when older, or none has come
    known,     \* servo_on_, as the last status/operation had it
    timer,     \* of this period: "due", "skipped", "published"
    request,   \* the executor waits for an answer
    waited     \* for how long

bridgeVars == <<age, known, timer, request, waited>>

BridgeInit ==
    /\ age = StaleAfter + 1 /\ known = FALSE
    /\ timer = "due" /\ request = FALSE /\ waited = 0

\* The two callbacks of the receive thread.
OnJointPosition == age' = 0 /\ UNCHANGED <<known, timer, request, waited, armVars>>
OnOperation == known' = servo /\ UNCHANGED <<age, timer, request, waited, armVars>>

\* Nothing is published of a position that is too old.
PublishJointState ==
    /\ timer = "due" /\ ~request
    /\ timer' = IF age <= StaleAfter THEN "published" ELSE "skipped"
    /\ UNCHANGED <<age, known, request, waited, armVars>>

\* The executor takes a timer that is ready before a service; a refused call
\* changes nothing.
Request ==
    /\ timer # "due" /\ ~request /\ AllowMotion
    /\ request' = TRUE /\ waited' = 0 /\ timer' = "skipped"
    /\ UNCHANGED <<age, known>>

OnSetServo(on) ==
    /\ Request /\ SetPower(on)
    /\ UNCHANGED <<heard, inbox>>

\* The flag is read without a lock: either value of a status that is just coming in.
OnGoHome ==
    /\ Request /\ known
    /\ Begin("home", Home)
    /\ UNCHANGED <<servo, heard, inbox>>

\* Mutant of RequestOver: request() waits for its answer, however long.
RequestOverAnswered(answered) == answered

RequestOver(answered) == answered \/ waited >= RequestTimeout

\* The answer, or the timeout: the timer is overdue by then.
RequestEnds(answered) ==
    /\ request /\ RequestOver(answered)
    /\ request' = FALSE /\ waited' = 0 /\ timer' = "due"
    /\ UNCHANGED <<age, known, armVars>>

BridgeDue == IF request THEN waited >= RequestTimeout ELSE timer = "due"

BridgeTick ==
    /\ age' = IF age > StaleAfter THEN age ELSE age + 1
    /\ timer' = IF request THEN timer ELSE "due"
    /\ waited' = IF request THEN waited + 1 ELSE waited
    /\ UNCHANGED <<known, request>>

BridgeNext ==
    \/ OnJointPosition \/ OnOperation \/ PublishJointState \/ OnGoHome
    \/ \E on \in BOOLEAN : OnSetServo(on)
    \/ \E answered \in BOOLEAN : RequestEnds(answered)
=============================================================================
