------------------------- MODULE ProgramRun_proofs --------------------------
(* ProgramRun for any number of runs, any command lines and any faults: the  *)
(* arm moves only for a run that was to move it and passed the gates. A play *)
(* may be carried out long after its run gave up, so the argument is about   *)
(* what is on the wire: nothing can be ahead of a play, and until the play   *)
(* is carried out the controller holds the program of the run that sent it.  *)
EXTENDS ProgramRun, TLAPS

\* The run's target passed every gate, and the run is to move the arm.
Gated(r) == opt[r].target # "outside" /\ PassesGates(opt[r])
Playable(r) == Gated(r) /\ opt[r].mode = "run"

\* How far main() is says what the gates have let through.
Progress ==
    /\ at # "none" => run \in Runs
    /\ at = "solve" => PassesGates(Opt)
    /\ at \in {"servo", "play"} => Playable(run)
    /\ at \in {"watch", "clear", "plan"} => Gated(run) /\ Opt.mode # "dry"
    /\ call # "no" => at \in Exchanges

\* Commands are carried out in order: once one of this run is acknowledged,
\* nothing is left on the wire, not even of an earlier run.
Ordered ==
    /\ at \in {"connect", "position", "gates", "solve", "servo", "watch"} =>
           \A i \in 1..Len(wire) : wire[i].run # run
    /\ at = "clear" =>
           \A i \in 1..Len(wire) : wire[i].run = run => i = Len(wire) /\ call # "no"
    /\ at = "clear" /\ call = "ok" => Len(wire) = 0
    /\ at = "plan" => Len(wire) <= 1
    /\ at = "plan" /\ call # "asked" /\ call # "bad" => Len(wire) = 0
    /\ at = "plan" /\ call = "ok" => buffer = run
    /\ at = "play" /\ call = "no" => Len(wire) = 0 /\ buffer = run
    /\ \A i \in 1..Len(wire) : wire[i].run \in Runs /\ wire[i].run <= run

\* A play waits at the head of the wire, with its own program in the buffer.
PlayIsNext ==
    \A i \in 1..Len(wire) : wire[i].topic = "play" =>
        i = 1 /\ buffer = wire[i].run /\ Playable(wire[i].run)

IInv == TypeOK /\ Progress /\ Ordered /\ PlayIsNext /\ MovesOnlyAsGated

-----------------------------------------------------------------------------
\* Nothing has been sent and nobody has started.
LEMMA InitIInv == Init => IInv
<1> SUFFICES ASSUME Init PROVE IInv
    OBVIOUS
<1>1. /\ servo \in BOOLEAN /\ opt \in [Runs -> Options] /\ watch \in BOOLEAN
      /\ done \in BOOLEAN /\ fault \in BOOLEAN /\ dropped \in BOOLEAN /\ steady \in BOOLEAN
    BY Zenon DEF Init
<1>2. TypeOK
    BY <1>1, RunAssumption DEF Init, TypeOK, Places, Exchanges, Codes
<1>3. Progress /\ Ordered /\ PlayIsNext /\ MovesOnlyAsGated
    BY DEF Init, Progress, Ordered, PlayIsNext, MovesOnlyAsGated, Exchanges
<1> QED
    BY <1>2, <1>3 DEF IInv

LEMMA BeforeIInv == IInv /\ (Launch \/ Connect \/ Position \/ Gates \/ Solve \/ ServoGate \/ Watch) => IInv'
<1> SUFFICES ASSUME TypeOK, Progress, Ordered, PlayIsNext, MovesOnlyAsGated, Launch \/ Connect \/ Position \/ Gates \/ Solve \/ ServoGate \/ Watch
    PROVE IInv'
    BY DEF IInv
<1> USE RunAssumption DEF mainVars, watchVars, robotVars, history
<1>1. CASE Launch
  <2>0. done' \in BOOLEAN /\ fault' \in BOOLEAN /\ steady' \in BOOLEAN
    BY <1>1, Zenon DEF TypeOK, Launch
  <2>1. TypeOK'
    BY <2>0, <1>1 DEF Launch, TypeOK, Places, Exchanges, Codes, Runs
  <2>2. Progress'
    BY <1>1 DEF Launch, TypeOK, Progress, Gated, Playable, PassesGates, Opt, Exchanges, Runs
  <2>3. Ordered'
    BY <1>1 DEF Launch, Progress, TypeOK, Ordered, Opt, Exchanges, Runs
  <2>4. PlayIsNext' /\ MovesOnlyAsGated'
    BY <1>1 DEF Launch, TypeOK, PlayIsNext, MovesOnlyAsGated, Gated, Playable, PassesGates
  <2> QED
    BY <2>1, <2>2, <2>3, <2>4 DEF IInv
<1>2. CASE Connect
  <2>1. TypeOK'
    BY <1>2 DEF Connect, Goes, Returns, TypeOK, Places, Exchanges, Codes, Runs
  <2>2. Progress'
    BY <1>2 DEF Connect, Goes, Returns, TypeOK, Progress, Gated, Playable, PassesGates, Opt, Exchanges, Runs
  <2>3. Ordered'
    BY <1>2 DEF Connect, Goes, Returns, Progress, TypeOK, Ordered, Opt, Exchanges, Runs
  <2>4. PlayIsNext' /\ MovesOnlyAsGated'
    BY <1>2 DEF Connect, Goes, Returns, TypeOK, PlayIsNext, MovesOnlyAsGated, Gated, Playable, PassesGates
  <2> QED
    BY <2>1, <2>2, <2>3, <2>4 DEF IInv
<1>3. CASE Position
  <2>1. TypeOK'
    BY <1>3 DEF Position, Goes, Returns, TypeOK, Places, Exchanges, Codes, Runs
  <2>2. Progress'
    BY <1>3 DEF Position, Goes, Returns, TypeOK, Progress, Gated, Playable, PassesGates, Opt, Exchanges, Runs
  <2>3. Ordered'
    BY <1>3 DEF Position, Goes, Returns, Progress, TypeOK, Ordered, Opt, Exchanges, Runs
  <2>4. PlayIsNext' /\ MovesOnlyAsGated'
    BY <1>3 DEF Position, Goes, Returns, TypeOK, PlayIsNext, MovesOnlyAsGated, Gated, Playable, PassesGates
  <2> QED
    BY <2>1, <2>2, <2>3, <2>4 DEF IInv
<1>4. CASE Gates
  <2>1. TypeOK'
    BY <1>4 DEF Gates, Goes, Returns, Opt, PassesGates, TypeOK, Places, Exchanges, Codes, Runs
  <2>2. Progress'
    BY <1>4 DEF Gates, Goes, Returns, Opt, PassesGates, TypeOK, Progress, Gated, Playable, PassesGates, Opt, Exchanges, Runs
  <2>3. Ordered'
    BY <1>4 DEF Gates, Goes, Returns, Opt, PassesGates, Progress, TypeOK, Ordered, Opt, Exchanges, Runs
  <2>4. PlayIsNext' /\ MovesOnlyAsGated'
    BY <1>4 DEF Gates, Goes, Returns, Opt, PassesGates, TypeOK, PlayIsNext, MovesOnlyAsGated, Gated, Playable, PassesGates
  <2> QED
    BY <2>1, <2>2, <2>3, <2>4 DEF IInv
<1>5. CASE Solve
  <2>1. TypeOK'
    BY <1>5 DEF Solve, SolveEnds, Goes, Returns, Opt, TypeOK, Places, Exchanges, Codes, Runs
  <2>m. run \in Runs /\ opt[run].mode \in {"dry", "plan", "run"}
    BY <1>5 DEF Solve, SolveEnds, Goes, Returns, Opt, TypeOK, Progress, AllOptions, Exchanges
  <2>2. Progress'
    BY <2>m, <1>5 DEF Solve, SolveEnds, Goes, Returns, Opt, TypeOK, Progress, Gated, Playable, PassesGates, Opt, Exchanges, Runs
  <2>3. Ordered'
    BY <1>5 DEF Solve, SolveEnds, Goes, Returns, Opt, Progress, TypeOK, Ordered, Opt, Exchanges, Runs
  <2>4. PlayIsNext' /\ MovesOnlyAsGated'
    BY <1>5 DEF Solve, SolveEnds, Goes, Returns, Opt, TypeOK, PlayIsNext, MovesOnlyAsGated, Gated, Playable, PassesGates
  <2> QED
    BY <2>1, <2>2, <2>3, <2>4 DEF IInv
<1>6. CASE ServoGate
  <2>1. TypeOK'
    BY <1>6 DEF ServoGate, Goes, Returns, Then, TypeOK, Places, Exchanges, Codes, Runs
  <2>2. Progress'
    BY <1>6 DEF ServoGate, Goes, Returns, Then, TypeOK, Progress, Gated, Playable, PassesGates, Opt, Exchanges, Runs
  <2>3. Ordered'
    BY <1>6 DEF ServoGate, Goes, Returns, Then, Progress, TypeOK, Ordered, Opt, Exchanges, Runs
  <2>4. PlayIsNext' /\ MovesOnlyAsGated'
    BY <1>6 DEF ServoGate, Goes, Returns, Then, TypeOK, PlayIsNext, MovesOnlyAsGated, Gated, Playable, PassesGates
  <2> QED
    BY <2>1, <2>2, <2>3, <2>4 DEF IInv
<1>7. CASE Watch
  <2>0. watch' \in BOOLEAN
    BY <1>7, Zenon DEF TypeOK, Watch
  <2>1. TypeOK'
    BY <2>0, <1>7 DEF Watch, Goes, Then, TypeOK, Places, Exchanges, Codes, Runs
  <2>2. Progress'
    BY <1>7 DEF Watch, Goes, Then, TypeOK, Progress, Gated, Playable, PassesGates, Opt, Exchanges, Runs
  <2>3. Ordered'
    BY <1>7 DEF Watch, Goes, Then, Progress, TypeOK, Ordered, Opt, Exchanges, Runs
  <2>4. PlayIsNext' /\ MovesOnlyAsGated'
    BY <1>7 DEF Watch, Goes, Then, TypeOK, PlayIsNext, MovesOnlyAsGated, Gated, Playable, PassesGates
  <2> QED
    BY <2>1, <2>2, <2>3, <2>4 DEF IInv
<1> QED
    BY <1>1, <1>2, <1>3, <1>4, <1>5, <1>6, <1>7

\* What a command on the wire does to the wire.
LEMMA PublishedWire ==
    ASSUME TypeOK, run \in Runs, NEW t \in Exchanges \cup {"stop", "halt"}, Publish(t)
    PROVE  /\ wire' \in Seq(Commands)
           /\ dropped' \in BOOLEAN
           /\ \/ wire' = wire
              \/ /\ Len(wire') = Len(wire) + 1
                 /\ wire'[Len(wire) + 1] = Command(t)
                 /\ \A i \in 1..Len(wire) : wire'[i] = wire[i]
<1>1. dropped' \in BOOLEAN
    BY Zenon DEF TypeOK, Publish
<1>2. Command(t) \in Commands
    BY DEF Command, Commands
<1>3. CASE wire' = wire
    BY <1>1, <1>3 DEF TypeOK
<1>4. CASE wire' = Append(wire, Command(t))
    BY <1>1, <1>2, <1>4 DEF TypeOK
<1> QED
    BY <1>3, <1>4 DEF Publish

LEMMA ExchangeIInv == IInv /\ (\E t \in Exchanges : Ask(t) \/ Acked(t) \/ NotAcked(t)) => IInv'
<1> SUFFICES ASSUME TypeOK, Progress, Ordered, PlayIsNext, MovesOnlyAsGated,
                    NEW t \in Exchanges, Ask(t) \/ Acked(t) \/ NotAcked(t)
    PROVE IInv'
    BY DEF IInv
<1> USE RunAssumption DEF mainVars, watchVars, robotVars, history
<1>1. CASE Ask(t)
  <2>0. /\ wire' \in Seq(Commands) /\ dropped' \in BOOLEAN
        /\ \/ wire' = wire
           \/ /\ Len(wire') = Len(wire) + 1
              /\ wire'[Len(wire) + 1] = [topic |-> t, run |-> run]
              /\ \A i \in 1..Len(wire) : wire'[i] = wire[i]
    BY <1>1, PublishedWire DEF Ask, Progress, Exchanges, Command
  <2>1. TypeOK'
    BY <2>0, <1>1 DEF Ask, TypeOK, Places, Exchanges, Codes
  <2>2. Progress'
    BY <1>1 DEF Ask, TypeOK, Progress, Gated, Playable, PassesGates, Opt, Exchanges
  <2>3. Len(wire) \in Nat
    BY DEF TypeOK
  <2>4. Ordered'
    <3>1. at = t /\ call = "no" /\ call' = "asked" /\ UNCHANGED <<run, at, buffer>> /\ run \in Runs
      BY <1>1 DEF Ask, Progress, Exchanges
    <3>2. \A i \in 1..Len(wire') : wire'[i].run \in Runs /\ wire'[i].run <= run
      BY <2>0, <2>3, <3>1 DEF Ordered, Runs
    <3>3. CASE t = "clear"
      <4>1. \A i \in 1..Len(wire) : wire[i].run # run
        BY <3>1, <3>3 DEF Ordered
      <4>2. \A i \in 1..Len(wire') : wire'[i].run = run => i = Len(wire')
        BY <4>1, <2>0, <2>3
      <4> QED
        BY <4>2, <3>1, <3>2, <3>3 DEF Ordered
    <3>4. CASE t = "plan"
      <4>0. Len(wire) = 0
        BY <3>1, <3>4 DEF Ordered
      <4>1. Len(wire') = Len(wire) \/ Len(wire') = Len(wire) + 1
        BY <2>0
      <4>2. CASE Len(wire') = Len(wire)
        BY <4>0, <4>2, <3>1, <3>2, <3>4 DEF Ordered
      <4>3. CASE Len(wire') = Len(wire) + 1
        <5>1. Len(wire') = 1
          BY <4>0, <4>3
        <5> QED
          BY <5>1, <3>1, <3>2, <3>4 DEF Ordered
      <4> QED
        BY <4>1, <4>2, <4>3
    <3>5. CASE t = "play"
      BY <3>1, <3>2, <3>5 DEF Ordered
    <3> QED
      BY <3>3, <3>4, <3>5 DEF Exchanges
  <2>5. PlayIsNext' /\ MovesOnlyAsGated'
    BY <2>0, <2>3, <1>1 DEF Ask, TypeOK, Progress, Ordered, PlayIsNext, MovesOnlyAsGated, Gated, Playable,
       PassesGates, Exchanges
  <2> QED
    BY <2>1, <2>2, <2>4, <2>5 DEF IInv
<1>2. CASE Acked(t)
  <2>1. TypeOK'
    BY <1>2 DEF Acked, Opt, Then, TypeOK, Places, Exchanges, Codes, Runs
  <2>m. run \in Runs /\ opt[run].mode \in {"dry", "plan", "run"}
    BY <1>2 DEF Acked, Opt, Then, TypeOK, Progress, AllOptions, Exchanges
  <2>2. Progress'
    BY <2>m, <1>2 DEF Acked, Opt, Then, TypeOK, Progress, Gated, Playable, PassesGates, Opt, Exchanges, Runs
  <2>3. Ordered'
    BY <1>2 DEF Acked, Opt, Then, Progress, TypeOK, Ordered, Opt, Exchanges, Runs
  <2>4. PlayIsNext' /\ MovesOnlyAsGated'
    BY <1>2 DEF Acked, Opt, Then, TypeOK, PlayIsNext, MovesOnlyAsGated, Gated, Playable, PassesGates
  <2> QED
    BY <2>1, <2>2, <2>3, <2>4 DEF IInv
<1>3. CASE NotAcked(t)
  <2>1. TypeOK'
    BY <1>3 DEF NotAcked, Returns, TypeOK, Places, Exchanges, Codes, Runs
  <2>2. Progress'
    BY <1>3 DEF NotAcked, Returns, TypeOK, Progress, Gated, Playable, PassesGates, Opt, Exchanges, Runs
  <2>3. Ordered'
    BY <1>3 DEF NotAcked, Returns, Progress, TypeOK, Ordered, Opt, Exchanges, Runs
  <2>4. PlayIsNext' /\ MovesOnlyAsGated'
    BY <1>3 DEF NotAcked, Returns, TypeOK, PlayIsNext, MovesOnlyAsGated, Gated, Playable, PassesGates
  <2> QED
    BY <2>1, <2>2, <2>3, <2>4 DEF IInv
<1> QED
    BY <1>1, <1>2, <1>3

LEMMA AfterIInv == IInv /\ (Wait \/ Stop \/ Halt \/ Readback \/ Leave \/ Join) => IInv'
<1> SUFFICES ASSUME TypeOK, Progress, Ordered, PlayIsNext, MovesOnlyAsGated, Wait \/ Stop \/ Halt \/ Readback \/ Leave \/ Join
    PROVE IInv'
    BY DEF IInv
<1> USE RunAssumption DEF mainVars, watchVars, robotVars, history
<1>1. CASE Wait
  <2>1. TypeOK'
    BY <1>1 DEF Wait, Goes, TypeOK, Places, Exchanges, Codes, Runs
  <2>2. Progress'
    BY <1>1 DEF Wait, Goes, TypeOK, Progress, Gated, Playable, PassesGates, Opt, Exchanges, Runs
  <2>3. Ordered'
    BY <1>1 DEF Wait, Goes, Progress, TypeOK, Ordered, Opt, Exchanges, Runs
  <2>4. PlayIsNext' /\ MovesOnlyAsGated'
    BY <1>1 DEF Wait, Goes, TypeOK, PlayIsNext, MovesOnlyAsGated, Gated, Playable, PassesGates
  <2> QED
    BY <2>1, <2>2, <2>3, <2>4 DEF IInv
<1>2. CASE Stop
  <2>0. /\ wire' \in Seq(Commands) /\ dropped' \in BOOLEAN
        /\ \/ wire' = wire
           \/ /\ Len(wire') = Len(wire) + 1
              /\ wire'[Len(wire) + 1] = [topic |-> "stop", run |-> run]
              /\ \A i \in 1..Len(wire) : wire'[i] = wire[i]
    BY <1>2, PublishedWire DEF Stop, Goes, Progress, Exchanges, Command
  <2>1. TypeOK'
    BY <2>0, <1>2 DEF Stop, Goes, TypeOK, Places, Exchanges, Codes
  <2>2. Progress'
    BY <1>2 DEF Stop, Goes, TypeOK, Progress, Gated, Playable, PassesGates, Opt, Exchanges
  <2>3. Len(wire) \in Nat
    BY DEF TypeOK
  <2>4. Ordered'
    BY <2>0, <2>3, <1>2 DEF Stop, Goes, TypeOK, Progress, Ordered, Exchanges, Runs
  <2>5. PlayIsNext' /\ MovesOnlyAsGated'
    BY <2>0, <2>3, <1>2 DEF Stop, Goes, TypeOK, Progress, Ordered, PlayIsNext, MovesOnlyAsGated, Gated, Playable,
       PassesGates, Exchanges
  <2> QED
    BY <2>1, <2>2, <2>4, <2>5 DEF IInv
<1>3. CASE Halt
  <2>0. /\ wire' \in Seq(Commands) /\ dropped' \in BOOLEAN
        /\ \/ wire' = wire
           \/ /\ Len(wire') = Len(wire) + 1
              /\ wire'[Len(wire) + 1] = [topic |-> "halt", run |-> run]
              /\ \A i \in 1..Len(wire) : wire'[i] = wire[i]
    BY <1>3, PublishedWire DEF Halt, Returns, Progress, Exchanges, Command
  <2>1. TypeOK'
    BY <2>0, <1>3 DEF Halt, Returns, TypeOK, Places, Exchanges, Codes
  <2>2. Progress'
    BY <1>3 DEF Halt, Returns, TypeOK, Progress, Gated, Playable, PassesGates, Opt, Exchanges
  <2>3. Len(wire) \in Nat
    BY DEF TypeOK
  <2>4. Ordered'
    BY <2>0, <2>3, <1>3 DEF Halt, Returns, TypeOK, Progress, Ordered, Exchanges, Runs
  <2>5. PlayIsNext' /\ MovesOnlyAsGated'
    BY <2>0, <2>3, <1>3 DEF Halt, Returns, TypeOK, Progress, Ordered, PlayIsNext, MovesOnlyAsGated, Gated, Playable,
       PassesGates, Exchanges
  <2> QED
    BY <2>1, <2>2, <2>4, <2>5 DEF IInv
<1>4. CASE Readback
  <2>1. TypeOK'
    BY <1>4 DEF Readback, Returns, TypeOK, Places, Exchanges, Codes, Runs
  <2>2. Progress'
    BY <1>4 DEF Readback, Returns, TypeOK, Progress, Gated, Playable, PassesGates, Opt, Exchanges, Runs
  <2>3. Ordered'
    BY <1>4 DEF Readback, Returns, Progress, TypeOK, Ordered, Opt, Exchanges, Runs
  <2>4. PlayIsNext' /\ MovesOnlyAsGated'
    BY <1>4 DEF Readback, Returns, TypeOK, PlayIsNext, MovesOnlyAsGated, Gated, Playable, PassesGates
  <2> QED
    BY <2>1, <2>2, <2>3, <2>4 DEF IInv
<1>5. CASE Leave
  <2>0. watch' \in BOOLEAN
    BY <1>5, Zenon DEF TypeOK, Leave, Goes
  <2>1. TypeOK'
    BY <2>0, <1>5 DEF Leave, Goes, TypeOK, Places, Exchanges, Codes, Runs
  <2>2. Progress'
    BY <1>5 DEF Leave, Goes, TypeOK, Progress, Gated, Playable, PassesGates, Opt, Exchanges, Runs
  <2>3. Ordered'
    BY <1>5 DEF Leave, Goes, Progress, TypeOK, Ordered, Opt, Exchanges, Runs
  <2>4. PlayIsNext' /\ MovesOnlyAsGated'
    BY <1>5 DEF Leave, Goes, TypeOK, PlayIsNext, MovesOnlyAsGated, Gated, Playable, PassesGates
  <2> QED
    BY <2>1, <2>2, <2>3, <2>4 DEF IInv
<1>6. CASE Join
  <2>1. TypeOK'
    BY <1>6 DEF Join, Goes, TypeOK, Places, Exchanges, Codes, Runs
  <2>2. Progress'
    BY <1>6 DEF Join, Goes, TypeOK, Progress, Gated, Playable, PassesGates, Opt, Exchanges, Runs
  <2>3. Ordered'
    BY <1>6 DEF Join, Goes, Progress, TypeOK, Ordered, Opt, Exchanges, Runs
  <2>4. PlayIsNext' /\ MovesOnlyAsGated'
    BY <1>6 DEF Join, Goes, TypeOK, PlayIsNext, MovesOnlyAsGated, Gated, Playable, PassesGates
  <2> QED
    BY <2>1, <2>2, <2>3, <2>4 DEF IInv
<1> QED
    BY <1>1, <1>2, <1>3, <1>4, <1>5, <1>6

LEMMA ReceiveIInv == IInv /\ ((\E e \in events : Deliver(e)) \/ Callback) => IInv'
<1> SUFFICES ASSUME TypeOK, Progress, Ordered, PlayIsNext, MovesOnlyAsGated,
                    (\E e \in events : Deliver(e)) \/ Callback
    PROVE IInv'
    BY DEF IInv
<1> USE RunAssumption DEF mainVars, watchVars, robotVars, history
<1>1. ASSUME NEW e \in events, Deliver(e) PROVE IInv'
  <2>1. TypeOK'
    BY <1>1 DEF Deliver, TypeOK, Places, Exchanges, Codes, Runs
  <2>2. Progress'
    BY <1>1 DEF Deliver, TypeOK, Progress, Gated, Playable, PassesGates, Opt, Exchanges, Runs
  <2>3. Ordered'
    BY <1>1 DEF Deliver, Progress, TypeOK, Ordered, Opt, Exchanges, Runs
  <2>4. PlayIsNext' /\ MovesOnlyAsGated'
    BY <1>1 DEF Deliver, TypeOK, PlayIsNext, MovesOnlyAsGated, Gated, Playable, PassesGates
  <2> QED
    BY <2>1, <2>2, <2>3, <2>4 DEF IInv
<1>2. CASE Callback
  <2>0. done' \in BOOLEAN /\ fault' \in BOOLEAN /\ watch' \in BOOLEAN
    BY <1>2, Zenon DEF TypeOK, Callback
  <2>1. TypeOK'
    <3>1. CASE at \in {"leave", "join"}
      BY <2>0, <1>2, <3>1 DEF Callback, TypeOK, Places, Codes
    <3>2. CASE at \notin {"leave", "join"}
      BY <2>0, <1>2, <3>2 DEF Callback, TypeOK
    <3> QED
      BY <3>1, <3>2
  <2>2. Progress'
    BY <1>2 DEF Callback, TypeOK, Progress, Gated, Playable, PassesGates, Opt, Exchanges
  <2>3. Ordered'
    BY <1>2 DEF Callback, TypeOK, Ordered
  <2>4. PlayIsNext' /\ MovesOnlyAsGated'
    BY <1>2 DEF Callback, PlayIsNext, MovesOnlyAsGated, Gated, Playable, PassesGates
  <2> QED
    BY <2>1, <2>2, <2>3, <2>4 DEF IInv
<1> QED
    BY <1>1, <1>2

\* A publication leaves the two kinds of events; lost, it is remembered.
LEMMA EmitFacts ==
    ASSUME TypeOK, NEW e \in {"end", "fault"}, Emits(e)
    PROVE  /\ events' \subseteq {"end", "fault"} /\ steady' \in BOOLEAN
           /\ steady' => steady /\ events \subseteq events' /\ (watch => e \in events')
<1>1. steady' \in BOOLEAN BY Zenon DEF TypeOK, Emits
<1>2. CASE events' = (IF watch THEN events \cup {e} ELSE events) /\ UNCHANGED steady
  BY <1>1, <1>2 DEF TypeOK
<1>3. CASE watch /\ steady' = FALSE /\ UNCHANGED events
  <2>1. ~steady' BY <1>3, Zenon
  <2> QED BY <1>1, <1>3, <2>1 DEF TypeOK
<1> QED BY <1>2, <1>3 DEF Emits

LEMMA RobotIInv == IInv /\ (MotionEnds \/ FaultReported \/ ServoSwitched \/ LinkDrops) => IInv'
<1> SUFFICES ASSUME TypeOK, Progress, Ordered, PlayIsNext, MovesOnlyAsGated,
                    MotionEnds \/ FaultReported \/ ServoSwitched \/ LinkDrops
    PROVE IInv'
    BY DEF IInv
<1> USE RunAssumption DEF mainVars, watchVars, robotVars, history
<1>1. CASE MotionEnds
  <2>0. events' \subseteq {"end", "fault"} /\ steady' \in BOOLEAN
    BY <1>1, EmitFacts DEF MotionEnds
  <2>1. TypeOK'
    BY <2>0, <1>1 DEF MotionEnds, TypeOK, Places, Exchanges, Codes, Runs
  <2>2. Progress'
    BY <1>1 DEF MotionEnds, TypeOK, Progress, Gated, Playable, PassesGates, Opt, Exchanges, Runs
  <2>3. Ordered'
    BY <1>1 DEF MotionEnds, Progress, TypeOK, Ordered, Opt, Exchanges, Runs
  <2>4. PlayIsNext' /\ MovesOnlyAsGated'
    BY <1>1 DEF MotionEnds, TypeOK, PlayIsNext, MovesOnlyAsGated, Gated, Playable, PassesGates
  <2> QED
    BY <2>1, <2>2, <2>3, <2>4 DEF IInv
<1>2. CASE FaultReported
  <2>0. events' \subseteq {"end", "fault"} /\ steady' \in BOOLEAN
    BY <1>2, EmitFacts DEF FaultReported
  <2>1. TypeOK'
    BY <2>0, <1>2 DEF FaultReported, TypeOK, Places, Exchanges, Codes, Runs
  <2>2. Progress'
    BY <1>2 DEF FaultReported, TypeOK, Progress, Gated, Playable, PassesGates, Opt, Exchanges, Runs
  <2>3. Ordered'
    BY <1>2 DEF FaultReported, Progress, TypeOK, Ordered, Opt, Exchanges, Runs
  <2>4. PlayIsNext' /\ MovesOnlyAsGated'
    BY <1>2 DEF FaultReported, TypeOK, PlayIsNext, MovesOnlyAsGated, Gated, Playable, PassesGates
  <2> QED
    BY <2>1, <2>2, <2>3, <2>4 DEF IInv
<1>3. CASE ServoSwitched
  <2>0. servo' \in BOOLEAN
    BY <1>3, Zenon DEF TypeOK, ServoSwitched
  <2>1. TypeOK'
    BY <2>0, <1>3 DEF ServoSwitched, TypeOK, Places, Exchanges, Codes, Runs
  <2>2. Progress'
    BY <1>3 DEF ServoSwitched, TypeOK, Progress, Gated, Playable, PassesGates, Opt, Exchanges, Runs
  <2>3. Ordered'
    BY <1>3 DEF ServoSwitched, Progress, TypeOK, Ordered, Opt, Exchanges, Runs
  <2>4. PlayIsNext' /\ MovesOnlyAsGated'
    BY <1>3 DEF ServoSwitched, TypeOK, PlayIsNext, MovesOnlyAsGated, Gated, Playable, PassesGates
  <2> QED
    BY <2>1, <2>2, <2>3, <2>4 DEF IInv
<1>4. CASE LinkDrops
  <2>0. watch' \in BOOLEAN /\ steady' \in BOOLEAN
    BY <1>4, Zenon DEF LinkDrops
  <2>1. TypeOK'
    BY <2>0, <1>4 DEF LinkDrops, TypeOK
  <2>2. Progress'
    BY <1>4 DEF LinkDrops, Progress, Gated, Playable, PassesGates, Opt
  <2>3. Ordered'
    BY <1>4 DEF LinkDrops, Ordered
  <2>4. PlayIsNext' /\ MovesOnlyAsGated'
    BY <1>4 DEF LinkDrops, PlayIsNext, MovesOnlyAsGated, Gated, Playable, PassesGates
  <2> QED
    BY <2>1, <2>2, <2>3, <2>4 DEF IInv
<1> QED
    BY <1>1, <1>2, <1>3, <1>4

\* The controller carries out, or refuses, the command at the head of the wire.
LEMMA ControllerIInv == IInv /\ Controller => IInv'
<1> SUFFICES ASSUME TypeOK, Progress, Ordered, PlayIsNext, MovesOnlyAsGated, Controller
    PROVE IInv'
    BY DEF IInv
<1> USE RunAssumption DEF mainVars, watchVars, robotVars, history
<1> DEFINE c == Head(wire)
<1>1. /\ Len(wire) \in Nat /\ Len(wire) >= 1 /\ c = wire[1] /\ c \in Commands
      /\ wire' \in Seq(Commands) /\ Len(wire') = Len(wire) - 1
      /\ \A i \in 1..Len(wire') : i + 1 \in 1..Len(wire) /\ wire'[i] = wire[i + 1]
    BY DEF TypeOK, Controller
<1>2. wire[1].run \in Runs
    BY <1>1 DEF Ordered
<1>3. /\ buffer' = IF c.topic = "clear" THEN 0 ELSE IF c.topic = "plan" THEN c.run ELSE buffer
      /\ motion' \in {0, motion} \/ (c.topic = "play" /\ motion' = buffer)
      \/ UNCHANGED <<buffer, motion>>
    BY DEF Controller, Effect
<1>4. \/ call' = call
      \/ call = "asked" /\ c = [topic |-> at, run |-> run] /\ call' = "bad"
      \/ /\ call = "asked" /\ c = [topic |-> at, run |-> run] /\ call' = "ok"
         /\ buffer' = IF c.topic = "clear" THEN 0 ELSE IF c.topic = "plan" THEN c.run ELSE buffer
    BY DEF Controller, Answers, Command, Effect
<1>5. UNCHANGED <<run, opt, at, code, watch, done, fault, rx, events, servo, arrived, dropped, steady>>
    BY DEF Controller
<1>6. buffer' \in 0..MaxRuns /\ motion' \in 0..MaxRuns
    BY <1>1, <1>3 DEF TypeOK, Commands, Runs
<1>7. TypeOK'
    BY <1>1, <1>4, <1>5, <1>6 DEF TypeOK
<1>8. Progress'
    BY <1>4, <1>5 DEF Progress, Gated, Playable, PassesGates, Opt
<1>9. Ordered'
  <2>1. \A i \in 1..Len(wire') : wire'[i].run \in Runs /\ wire'[i].run <= run'
    BY <1>1, <1>5 DEF Ordered
  <2>2. at \in {"connect", "position", "gates", "solve", "servo", "watch"} =>
            \A i \in 1..Len(wire') : wire'[i].run # run
    BY <1>1 DEF Ordered
  <2>3. ASSUME at = "clear" PROVE
            /\ call' = "ok" => Len(wire') = 0
            /\ \A i \in 1..Len(wire') : wire'[i].run = run => i = Len(wire') /\ call' # "no"
    <3>1. call = "ok" => Len(wire) = 0
      BY <2>3 DEF Ordered
    <3>2. \A i \in 1..Len(wire) : wire[i].run = run => i = Len(wire) /\ call # "no"
      BY <2>3 DEF Ordered
    <3>3. call' = "ok" => Len(wire') = 0
      BY <3>1, <3>2, <1>1, <1>4
    <3>4. ASSUME NEW i \in 1..Len(wire'), wire'[i].run = run
          PROVE i = Len(wire') /\ call' # "no"
      BY <3>2, <3>4, <1>1, <1>4
    <3> QED
      BY <3>3, <3>4
  <2>4. ASSUME at = "plan" PROVE
            /\ Len(wire') <= 1
            /\ call' # "asked" /\ call' # "bad" => Len(wire') = 0
            /\ call' = "ok" => buffer' = run
    BY <2>4, <1>1, <1>4 DEF Ordered
  <2>5. ~(at = "play" /\ call' = "no")
    BY <1>1, <1>4 DEF Ordered
  <2> QED
    BY <2>1, <2>2, <2>3, <2>4, <2>5, <1>5 DEF Ordered
<1>10. PlayIsNext'
  <2>1. \A i \in 1..Len(wire') : wire'[i].topic # "play"
    BY <1>1 DEF PlayIsNext
  <2> QED
    BY <2>1 DEF PlayIsNext
<1>11. MovesOnlyAsGated'
    BY <1>1, <1>3, <1>5 DEF MovesOnlyAsGated, PlayIsNext, Playable, Gated, PassesGates
<1> QED
    BY <1>7, <1>8, <1>9, <1>10, <1>11 DEF IInv

LEMMA StutterIInv == IInv /\ UNCHANGED vars => IInv'
    BY DEF IInv, TypeOK, Progress, Ordered, PlayIsNext, MovesOnlyAsGated, Gated, Playable,
       PassesGates, Opt, vars, mainVars, watchVars, robotVars, history

\* The inductive invariant of ProgramRun.
THEOREM Invariance == Spec => []IInv
<1>1. IInv /\ [Next]_vars => IInv'
  <2> SUFFICES ASSUME IInv, Next PROVE IInv'
      BY StutterIInv
  <2> QED
      BY BeforeIInv, ExchangeIInv, AfterIInv, ReceiveIInv, RobotIInv, ControllerIInv
      DEF Next, Main
<1> QED
    BY InitIInv, <1>1, PTL DEF Spec

\* Every variable keeps its type, the wire and the run numbers included.
THEOREM TypeCorrect == Spec => []TypeOK
    BY Invariance, PTL DEF IInv

\* However many runs follow one another and whatever is lost or late, the arm moves
\* only for a run that was to move it and whose target passed the gates.
THEOREM OnlyGatedMotion == Spec => []MovesOnlyAsGated
    BY Invariance, PTL DEF IInv

-----------------------------------------------------------------------------
(* Arrival and stop. Before its first command a run has moved nothing; from   *)
(* then on the client is subscribed, so as long as the link holds the end of  *)
(* its motion is somewhere between the controller and done. A run that stops  *)
(* has its stop on the wire behind its play, as long as either can still be   *)
(* carried out.                                                               *)

Early == {"connect", "position", "gates", "solve", "servo", "watch"}
Moving == {"clear", "plan", "play", "wait"}

Arrivals ==
    /\ motion <= run /\ \A r \in arrived : r <= run
    /\ at \in Early => motion # run /\ run \notin arrived
    /\ at \in Moving /\ steady => watch
    /\ at \in Moving /\ steady /\ run \in arrived => done \/ rx = "end" \/ "end" \in events

StopWaits == \E i \in 1..Len(wire) : wire[i].run = run /\ wire[i].topic \in {"stop", "halt"}
PlayWaits == \E i \in 1..Len(wire) : wire[i].run = run /\ wire[i].topic = "play"

Stopping ==
    /\ code # "none" => at \in {"leave", "join", "over"}
    /\ (at = "halt" \/ code = "stopped") /\ ~dropped => (motion = run \/ PlayWaits => StopWaits)

Aftermath == Arrivals /\ Stopping

LEMMA InitAftermath == Init => Aftermath
BY DEF Init, Aftermath, Arrivals, Stopping, Early, Moving

\* main() up to the subscriptions sends nothing and has moved nothing.
LEMMA BeforeAftermath ==
    ASSUME IInv, Aftermath, Launch \/ Connect \/ Position \/ Gates \/ Solve \/ ServoGate \/ Watch
    PROVE  Aftermath'
<1> USE DEF IInv, TypeOK, Aftermath, watchVars, robotVars, history, Exchanges
<1>1. CASE Launch
  <2>1. Arrivals' BY <1>1, RunAssumption DEF Launch, Arrivals, Early, Moving, Runs
  <2>2. Stopping' BY <1>1 DEF Launch, Stopping
  <2> QED BY <2>1, <2>2
<1>2. CASE Connect \/ Position \/ Gates \/ Solve \/ ServoGate
  <2>1. at \in Early /\ at' \in Early \cup {"leave"} /\ code' \in {code, "unheard", "gated", "success"}
        /\ (code' # code => at' = "leave")
    BY <1>2 DEF Connect, Position, Gates, Solve, SolveEnds, ServoGate, Then, Goes, Returns, Early
  <2>2. UNCHANGED <<run, watch, done, rx, events, wire, motion, arrived, dropped, steady>>
    BY <1>2 DEF Connect, Position, Gates, Solve, SolveEnds, ServoGate, Goes, Returns
  <2>3. Arrivals' BY <2>1, <2>2 DEF Arrivals, Early, Moving
  <2>4. Stopping' BY <2>1, <2>2 DEF Stopping, Early
  <2> QED BY <2>3, <2>4
<1>3. CASE Watch
  <2>1. steady' => watch' BY <1>3, Zenon DEF Watch, history
  <2>2. Arrivals' BY <1>3, <2>1 DEF Watch, Goes, Then, Arrivals, Early, Moving
  <2>3. Stopping' BY <1>3 DEF Watch, Goes, Then, Stopping
  <2> QED BY <2>2, <2>3
<1> QED BY <1>1, <1>2, <1>3

\* The commands, and what main() does after them.
LEMMA MainAftermath ==
    ASSUME IInv, Aftermath,
           \/ \E t \in Exchanges : Ask(t) \/ Acked(t) \/ NotAcked(t)
           \/ Wait \/ Readback \/ Leave \/ Join
    PROVE  Aftermath'
<1> USE DEF IInv, TypeOK, Aftermath, watchVars, robotVars, history, Exchanges
<1>1. ASSUME NEW t \in Exchanges, Ask(t) PROVE Aftermath'
  <2>1. at \in Moving /\ at' = at /\ code' = code
        /\ UNCHANGED <<run, watch, done, rx, events, motion, arrived, steady>>
    BY <1>1 DEF Ask, Moving
  <2>2. Arrivals' BY <2>1 DEF Arrivals, Early, Moving
  <2>3. Stopping' BY <2>1 DEF Stopping, Moving
  <2> QED BY <2>2, <2>3
<1>2. ASSUME NEW t \in Exchanges, Acked(t) \/ NotAcked(t) PROVE Aftermath'
  <2>1. at \in Moving /\ at' \in Moving \cup {"leave"} /\ code' \in {code, "unacked", "success"}
        /\ (code' # code => at' = "leave")
        /\ UNCHANGED <<run, watch, done, rx, events, wire, motion, arrived, dropped, steady>>
    BY <1>2 DEF Acked, NotAcked, Returns, Then, Moving
  <2>2. Arrivals' BY <2>1 DEF Arrivals, Early, Moving
  <2>3. Stopping' BY <2>1 DEF Stopping, Moving
  <2> QED BY <2>2, <2>3
<1>3. CASE Wait \/ Readback \/ Leave \/ Join
  <2>1. Arrivals' BY <1>3 DEF Wait, Readback, Leave, Join, Goes, Returns, Arrivals, Early, Moving
  <2>2. Stopping' BY <1>3 DEF Wait, Readback, Leave, Join, Goes, Returns, Stopping, StopWaits, PlayWaits
  <2> QED BY <2>1, <2>2
<1> QED BY <1>1, <1>2, <1>3

\* program/stop and move/stop go out behind whatever the run has sent.
LEMMA StopAftermath ==
    ASSUME IInv, Aftermath, Stop \/ Halt
    PROVE  Aftermath'
<1> USE DEF IInv, TypeOK, Aftermath
<1>1. UNCHANGED <<run, watch, done, rx, events, motion, arrived, steady>> /\ at' \in {"halt", "leave"}
      /\ at \in {"stop", "halt"} /\ (code' # "none" => at' = "leave")
  BY DEF Stop, Halt, Goes, Returns, watchVars, Stopping
<1>2. PICK t \in {"stop", "halt"} : Publish(t) BY DEF Stop, Halt
<1>3. Arrivals' BY <1>1 DEF Arrivals, Early, Moving
<1>4. CASE wire' = Append(wire, Command(t)) /\ UNCHANGED dropped
  <2>1. /\ Len(wire') = Len(wire) + 1 /\ Len(wire) \in Nat
        /\ wire'[Len(wire) + 1] = [topic |-> t, run |-> run]
    BY <1>4 DEF Command
  <2>2. StopWaits' BY <1>1, <2>1 DEF StopWaits
  <2> QED BY <1>1, <1>3, <2>2 DEF Stopping
<1>5. CASE dropped' = (dropped \/ t \in {"stop", "halt"})
  <2>1. dropped' BY <1>5, Zenon
  <2> QED BY <1>1, <1>3, <2>1 DEF Stopping
<1> QED BY <1>2, <1>4, <1>5 DEF Publish

\* The receive thread carries the end of a motion to done.
LEMMA ReceiveAftermath ==
    ASSUME IInv, Aftermath, (\E e \in events : Deliver(e)) \/ Callback
    PROVE  Aftermath'
<1> USE DEF IInv, TypeOK, Aftermath, robotVars, history
<1>1. ASSUME NEW e \in events, Deliver(e) PROVE Aftermath'
  <2>1. Arrivals' BY <1>1 DEF Deliver, mainVars, Arrivals
  <2>2. Stopping' BY <1>1 DEF Deliver, mainVars, Stopping, StopWaits, PlayWaits
  <2> QED BY <2>1, <2>2
<1>2. CASE Callback /\ at \in {"leave", "join"}
  <2>1. Arrivals' BY <1>2 DEF Callback, Arrivals, Early, Moving
  <2>2. Stopping' BY <1>2 DEF Callback, Stopping, StopWaits, PlayWaits
  <2> QED BY <2>1, <2>2
<1>3. CASE Callback /\ at \notin {"leave", "join"}
  <2>1. done \/ rx = "end" => done' BY <1>3, Zenon DEF Callback
  <2>2. Arrivals' BY <1>3, <2>1 DEF Callback, mainVars, Arrivals, Early, Moving
  <2>3. Stopping' BY <1>3 DEF Callback, mainVars, Stopping, StopWaits, PlayWaits
  <2> QED BY <2>2, <2>3
<1> QED BY <1>1, <1>2, <1>3

\* The arm arrives, fails or loses its power, and what tells of it may be lost.
LEMMA RobotAftermath ==
    ASSUME IInv, Aftermath, MotionEnds \/ FaultReported \/ ServoSwitched \/ LinkDrops
    PROVE  Aftermath'
<1> USE DEF IInv, TypeOK, Aftermath, mainVars, watchVars, robotVars, history
<1>1. UNCHANGED <<run, at, code, done, rx, wire, dropped>> /\ motion' \in {0, motion}
  BY DEF MotionEnds, FaultReported, ServoSwitched, LinkDrops
<1>2. Stopping'
  <2>1. SUFFICES ASSUME (at = "halt" \/ code = "stopped"), ~dropped, motion' = run PROVE StopWaits'
    BY <1>1 DEF Stopping, StopWaits, PlayWaits
  <2>2. run \in Runs BY <2>1 DEF Progress, Stopping
  <2>3. motion = run BY <1>1, <2>1, <2>2, RunAssumption DEF Runs
  <2> QED BY <1>1, <2>1, <2>3 DEF Stopping, StopWaits, PlayWaits
<1>3. CASE MotionEnds
  <2>1. Emits("end") /\ UNCHANGED watch /\ arrived' = arrived \cup {motion} /\ motion' = 0
    BY <1>3 DEF MotionEnds
  <2>2. steady' => steady /\ events \subseteq events' /\ (watch => "end" \in events')
    BY <2>1, EmitFacts
  <2>3. Arrivals' BY <1>1, <2>1, <2>2 DEF Arrivals, Early, Moving, Runs
  <2> QED BY <1>2, <2>3
<1>4. CASE FaultReported
  <2>1. Emits("fault") /\ UNCHANGED <<watch, arrived>> BY <1>4 DEF FaultReported
  <2>2. steady' => steady /\ events \subseteq events' BY <2>1, EmitFacts
  <2>3. Arrivals' BY <1>1, <2>1, <2>2 DEF Arrivals, Early, Moving, Runs
  <2> QED BY <1>2, <2>3
<1>5. CASE ServoSwitched
  <2>1. Arrivals' BY <1>5 DEF ServoSwitched, Arrivals, Early, Moving, Runs
  <2> QED BY <1>2, <2>1
<1>6. CASE LinkDrops
  <2>1. ~steady' BY <1>6, Zenon DEF LinkDrops
  <2>2. Arrivals' BY <1>6, <2>1 DEF LinkDrops, Arrivals, Early, Moving
  <2> QED BY <1>2, <2>2
<1> QED BY <1>3, <1>4, <1>5, <1>6

\* The controller takes the head of the wire: a play moves the arm for its own
\* run, and a stop that waited is carried out before the run can move again.
LEMMA ControllerAftermath ==
    ASSUME IInv, Aftermath, Controller
    PROVE  Aftermath'
<1> USE DEF IInv, Aftermath
<1> DEFINE c == Head(wire)
<1>1. /\ Len(wire) \in Nat /\ Len(wire) >= 1 /\ c = wire[1] /\ c \in Commands
      /\ Len(wire') = Len(wire) - 1 /\ Len(wire') \in Nat
      /\ \A i \in 1..Len(wire') : i + 1 \in 1..Len(wire) /\ wire'[i] = wire[i + 1]
  BY DEF TypeOK, Controller
<1>2. UNCHANGED <<run, at, code, watch, done, rx, events, arrived, dropped, steady>>
  BY DEF Controller, watchVars, history
<1>3. \/ motion' = motion /\ c.topic \in Exchanges
      \/ motion' = 0 /\ c.topic \in {"stop", "halt"}
      \/ c.topic = "play" /\ motion' = wire[1].run
  <2>1. c.topic = "play" => buffer = wire[1].run BY <1>1 DEF PlayIsNext
  <2>2. c.topic \in Exchanges \cup {"stop", "halt"} BY <1>1 DEF Commands
  <2>3. motion' = motion \/ (c.topic \in {"stop", "halt"} /\ motion' = 0)
        \/ (c.topic = "play" /\ motion' = buffer)
    BY DEF Controller, Effect
  <2>4. c.topic \in {"stop", "halt"} => motion' = 0
    BY DEF Controller, Effect, Exchanges
  <2> QED BY <2>1, <2>2, <2>3, <2>4
<1>4. wire[1].run \in Runs /\ wire[1].run <= run BY <1>1 DEF Ordered
<1>5. Arrivals'
  <2>1. motion' <= run' BY <1>2, <1>3, <1>4, RunAssumption DEF Arrivals, TypeOK, Runs
  <2>2. at \in Early => motion' # run
    <3>1. at \in Early => wire[1].run # run /\ run \in Runs BY <1>1 DEF Early, Ordered, Progress
    <3> QED BY <1>3, <3>1, RunAssumption DEF Arrivals, Runs
  <2> QED BY <1>2, <2>1, <2>2 DEF Arrivals
<1>6. Stopping'
  <2>1. ~PlayWaits' BY <1>1, <1>2 DEF PlayWaits, PlayIsNext
  <2>2. SUFFICES ASSUME at = "halt" \/ code = "stopped", ~dropped, motion' = run PROVE StopWaits'
    BY <1>2, <2>1 DEF Stopping
  <2>3. run \in Runs BY <2>2 DEF Progress, Stopping
  <2>4. c.topic \notin {"stop", "halt"} BY <1>2, <1>3, <2>2, <2>3, RunAssumption DEF Runs, Exchanges
  <2>5. motion = run \/ PlayWaits BY <1>1, <1>3, <2>2, <2>4 DEF PlayWaits
  <2>6. PICK i \in 1..Len(wire) : wire[i].run = run /\ wire[i].topic \in {"stop", "halt"}
    BY <2>2, <2>5 DEF Stopping, StopWaits
  <2>7. i # 1 /\ i - 1 \in 1..Len(wire') /\ wire'[i - 1] = wire[i] BY <1>1, <2>4, <2>6
  <2> QED BY <1>2, <2>6, <2>7 DEF StopWaits
<1> QED BY <1>5, <1>6

\* Both hold of every behaviour.
LEMMA AftermathInvariant == Spec => []Aftermath
<1>1. IInv /\ Aftermath /\ [Next]_vars => Aftermath'
  <2> SUFFICES ASSUME IInv, Aftermath, [Next]_vars PROVE Aftermath' OBVIOUS
  <2>1. CASE UNCHANGED vars
    BY <2>1 DEF vars, mainVars, watchVars, robotVars, history, Aftermath, Arrivals, Stopping, StopWaits, PlayWaits
  <2> QED BY <2>1, BeforeAftermath, MainAftermath, StopAftermath, ReceiveAftermath, RobotAftermath,
             ControllerAftermath DEF Next, Main
<1> QED BY <1>1, InitAftermath, Invariance, PTL DEF Spec

\* The subscriptions come before the commands: no run that waits has missed the
\* end of its own motion, however short that was, unless the link has dropped since
\* the run began or a publication was lost (ArrivalNotMissed).
THEOREM ArrivalKept == Spec => []ArrivalNotMissed
<1>1. Aftermath => ArrivalNotMissed BY DEF Aftermath, Arrivals, Moving, ArrivalNotMissed
<1> QED BY <1>1, AftermathInvariant, PTL

\* A run that returned "stopped" moves the arm no more once its commands are
\* carried out, for any number of runs and any faults but a lost stop
\* (FaultStopsProgram).
THEOREM StoppedStands == Spec => []FaultStopsProgram
<1>1. IInv /\ Aftermath => FaultStopsProgram
  <2>1. SUFFICES ASSUME IInv, Aftermath, code = "stopped", ~dropped,
                        \A i \in DOMAIN wire : wire[i].run # run
                 PROVE  motion # run
    BY DEF FaultStopsProgram
  <2>2. DOMAIN wire = 1..Len(wire) BY <2>1 DEF IInv, TypeOK
  <2> QED BY <2>1, <2>2 DEF Aftermath, Stopping, StopWaits
<1> QED BY <1>1, AftermathInvariant, Invariance, PTL
=============================================================================
