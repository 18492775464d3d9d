---------------------------- MODULE MCProgramRun ----------------------------
(* Two runs, with a command line for every way through the gates.            *)
EXTENDS ProgramRun

O(tool, mode, target, force) ==
    [tool |-> tool, mode |-> mode, target |-> target, force |-> force]

MCOptions == {O("movej", "run", "fine", FALSE), O("movel", "run", "outside", FALSE),
              O("movej", "plan", "over", TRUE), O("movej", "dry", "fine", FALSE),
              O("movej", "run", "over", FALSE)}
OnlyRun == {O("movej", "run", "fine", FALSE)}
MCFaults == FaultKinds
OnlyLost == {"lost"}
NoFaults == {}
=============================================================================
