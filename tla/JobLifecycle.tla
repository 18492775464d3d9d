---------------------------- MODULE JobLifecycle ----------------------------
(* The life of one job as the operator sees it: forward along Edges, held by *)
(* a pause that gives back the phase it interrupted, ended for good once, and *)
(* at most one review per job.                                               *)
VARIABLES phase, saved, reviewed

lifeVars == <<phase, saved, reviewed>>

Ended == {"Rejected", "Completed", "Aborted", "Failed"}

Edges == {<<"Received", "Ready">>, <<"Received", "Rejected">>, <<"Ready", "Planning">>,
          <<"Planning", "Drawing">>, <<"Planning", "Failed">>,
          <<"Drawing", "AwaitingReview">>, <<"AwaitingReview", "Drawing">>,
          <<"Drawing", "Capturing">>, <<"Drawing", "Completed">>,
          <<"Capturing", "Completed">>}

Init == phase = "Received" /\ saved = "Received" /\ reviewed = FALSE

Advance ==
    /\ <<phase, phase'>> \in Edges
    /\ saved' = phase'
    /\ IF phase' = "AwaitingReview" THEN ~reviewed /\ reviewed' ELSE reviewed' = reviewed

Hold ==
    /\ phase \in {"Planning", "Drawing", "AwaitingReview", "Capturing"}
    /\ phase' = "Paused" /\ UNCHANGED <<saved, reviewed>>

GiveBack == phase = "Paused" /\ phase' = saved /\ UNCHANGED <<saved, reviewed>>

Abort ==
    /\ phase \notin Ended
    /\ phase' = "Aborted" /\ saved' = "Aborted" /\ UNCHANGED reviewed

Next == Advance \/ Hold \/ GiveBack \/ Abort

Spec == Init /\ [][Next]_lifeVars
=============================================================================
