---------------------------- MODULE RpcContract ----------------------------
(* What a pubWithAck call promises its caller: a value means that the robot  *)
(* carried out this very request. No value means nothing: the robot may have *)
(* carried it out, or may still do so after the caller has gone on.          *)
CONSTANT Calls

VARIABLES
    call,       \* what each call has come to
    executed    \* the requests the robot carried out

Init == call = [u \in Calls |-> "new"] /\ executed = {}

Ask(u) ==
    /\ call[u] = "new" /\ call' = [call EXCEPT ![u] = "asked"]
    /\ UNCHANGED executed

Execute(u) ==
    /\ call[u] # "new" /\ executed' = executed \cup {u}
    /\ UNCHANGED call

Return(u) ==
    /\ \/ call[u] = "asked" /\ u \in executed /\ call' = [call EXCEPT ![u] = "value"]
       \/ call[u] \in {"new", "asked"} /\ call' = [call EXCEPT ![u] = "none"]
    /\ UNCHANGED executed

Next == \E u \in Calls : Ask(u) \/ Execute(u) \/ Return(u)

Spec == Init /\ [][Next]_<<call, executed>>
=============================================================================
