# Verification of the HCR-5 drawing robot software

This directory holds TLA+ models of the software in this repository (a robot
arm that draws: vision, planning, operator, drivers), the TLC configurations
that check them on small instances, and TLAPS proofs of their main properties
for every instance. Paths below are relative to the repository root.

## 1. The system

| component | state it keeps | operations | interacts with |
|---|---|---|---|
| **ros2_control plugin** `src/drivers/hcr5_bridge/src/hcr_system_interface.cpp` | lifecycle state, three locks (`publish_locked_`, `publish_permanently_locked_`, `collision_latched_`), field-bus and sample state, a one-target slot, deadband memory, a worker thread | `on_configure/activate/deactivate/cleanup/error`, `read`, `write`, `workerLoop`, four MQTT callbacks | controller_manager calls it; it calls the controller through `MqttClient` |
| **MqttClient** `…/src/mqtt_client.cpp` | `connected_`, callbacks by topic, `pending_` answers by uuid | `start`, `stop`, `subscribe`, `publish`, `request`, `dispatch` | broker (external); used by every executable of hcr5_bridge |
| **movej / movel** `…/src/movej.cpp`, `movel.cpp`, `servo_gate.hpp` | one run: position, target, `done`, `fault` | gates, FK/IK, clear → plan → play, wait for arrival, stop | controller's program interpreter (external) |
| **servo, bringup** | none; `auto_servo` turns the servo on after activation | one request | controller |
| **state_bridge node** `…/src/state_bridge_node.cpp` | last joint sample and its age, `servo_on_` | a timer republishes joint states; two services switch the servo and drive home | MQTT receive thread → one-threaded executor → ROS; its services command the arm |
| **job_core** `src/operator/ws_operator/src/job_core` | job state, `resume_to_`, review flags, stroke counters, interventions | human commands, pipeline events, `Tick` | job_manager node, operator UI (README only) |
| **job timeline, JSON, CLI; job_manager node** | scenario scripts on a virtual clock | nine scenarios, a self-check, reports | job_core |
| **mqtt_cmd.py** `src/drivers/hcr5_comm/tools` | a raw MQTT socket for each process | jog with a stop in its `finally`, move with arrival wait, servo, stops, raw send | controller |
| **mqtt_logger.py** | file segments, queue, jump detector | record the bus | broker |
| **vision_core**, `stroke_map_cli` | a stroke map | image or dummy → strokes on the paper → `map.svg`, `map.csv` | files |
| **sim_core**, `trace_cli` | a plan and a contact trace | plan and trace → pieces, lengths, a comparison | reads `map.csv` |
| moveit2 demo, URDF, launch, containers, measuring scripts | – | – | – |

`hcr5_bridge/README.md` §1.2 names three paths that move the arm and exclude
one another: the plugin (streamed `move/joint/here`), the program path (movej,
movel) and the command tool. Nothing in the code enforces it, and the services of
state_bridge and the teaching pendant move the arm as well.

**What is hard in this system.** Three threads share the plugin's flags
without a common lock: the controller_manager, the MQTT receive thread and the
worker. A remote call is two one-way messages with QoS 0 and a clean session:
each may be lost, late, or answer a caller that has gone on, and after a
reconnection nothing is subscribed. Acknowledged is not arrived, and a
play is acknowledged with the servo off. The job machine takes calls from
people, the pipeline and a clock in any order. mqtt_cmd.py reads acks and events
from one socket without telling whose they are, and its processes are
interrupted, killed and cut off while the arm turns. Two programs share a file
that may be cut off or stale. `PROJECT.json` lists each hazard
at its line, with the properties that look for it.

What makes each component correct:

- plugin: no target reaches the robot except through all gates; a closed gate
  stays closed (for good after `on_error`); nothing of one activation is sent in
  the next; every callback returns; a silent loss of samples is noticed;
- MqttClient: a value is the robot's answer to this very call; no answer is
  missed while the link is up; timed-out calls leave nothing behind;
- program path: motion only for runs that passed the gates; "stopped" means
  stopped; success means arrival;
- job machine: forward lifecycle with one review at most, pause gives back what
  it interrupted, every abort is explained, the log is evidence for AC1;
- scenarios: every script ends, ends as the operator's README says (with one
  exception, §3), and the nine together walk the state diagram;
- mqtt_cmd.py: a jog is bounded whatever happens to its ack, and is stopped unless its
  process is killed, cut off or interrupted in its `finally`; a movej keeps to
  `--max-delta`; an arrival in time is heard unless there is a reason;
- state_bridge: joint states keep flowing while positions come in;
- vision and simulation: strokes stay between the margins, a plan is read back
  as it was written, the comparison blames the pen only for what it did.

## 2. Modules

| module | models | role |
|---|---|---|
| `HcrSystem` | the plugin, its three threads, the link and the robot | core model, 45 actions and helpers |
| `HcrHistory` | `HcrSystem` with history variables | where a queued target comes from, lost answers |
| `MotionGate` | what the plugin promises about motion | abstract specification, implemented by `HcrSystem` |
| `HcrSystem_proofs`, `HcrHistory_proofs` | | theorems |
| `MqttRpc` | `request()`, `dispatch()`, `stop()`, the broker | detailed specification of a call |
| `RpcContract` | what a call promises | abstract specification, implemented by `MqttRpc` |
| `MqttRpc_proofs` | | theorems |
| `ProgramRun` | movej and movel as one control flow, runs in a row | uses calls as `RpcContract` has them |
| `ProgramRun_proofs` | | theorems |
| `JobMachine` | `atlier::job::Machine` | core model of the operator side |
| `JobHistory` | `JobMachine` with history variables | who really touched the job, how long it really waited |
| `JobLifecycle` | the life of a job | abstract specification, implemented by `JobMachine` |
| `JobMachine_proofs` | | theorems |
| `JobScenarios` | job_cli and the self-check of job_manager | `JobMachine` driven by scripts |
| `JobScenarios_proofs` | | theorems |
| `ManualArm` | the arm and the controller, as the next two use them | shared, external |
| `CmdTool` | mqtt_cmd.py, one process after the other | |
| `StateBridge` | hcr_state_bridge | |
| `ManualControl` | both over one arm and one clock, beside the pendant | composition |
| `ManualControl_proofs` | | theorems |
| `StrokeMap` | vision_core | algorithms as operators |
| `ContactTrace` | sim_core | algorithms as operators |
| `DrawingTools` | stroke_map_cli and trace_cli, joined by `map.csv` | composition |
| `DrawingTools_proofs` | | theorems |
| `MC*` | one for each specification that is checked | instances for TLC |

### How the models correspond to the code

**`HcrSystem`.** A thread is a program counter: `cm` for the controller_manager
(callbacks, `read`, `write`; the resource manager holds one mutex around each),
`worker` for `workerLoop`, `rx` for the receive thread. A step runs from one
point where another thread can interfere to the next: a mutex taken or
released, an atomic flag read or written, a wait, a call to the robot. So `write` is two
steps (flags without a lock, then the slot under `cmd_mutex_`), the clear of a
collision is two (`exchange(false)`, then the slot), and the worker takes,
tests, waits, tests again, sends, and hears or does not. One joint stands for
six because every test in `write` is a maximum over the joints; targets are
integers with a real distance, so the deadband is a real comparison. What the
controller_manager does when `read` returns DEACTIVATE is not in this
repository; both behaviours that its documents report (deactivation, or
`on_error`) are allowed.

**`MqttRpc`.** One step per access to the shared map or the socket. Packets
travel in order; the link may drop and takes packets and subscriptions with
it. `stop()` is called only when no thread is inside `request()`: the plugin
joins its worker first, the executables have one calling thread. That a `stop()` wakes
a call in progress is therefore not exercised.

**`ProgramRun`.** `main()` is a program counter over the sections of the source,
in the order of the source; movej and movel differ in where the joint limits
are tested. The controller is external: commands are carried out in order, a
`play` with the servo off is acknowledged and moves nothing, the end of a
motion is published once. A publication has QoS 0: under the fault "lost" it may fail to
arrive (`Emits`), and the link may drop (`LinkDrops`), after which the library connects
again with a clean session and `MqttClient::start` (`mqtt_client.cpp:52-67`) is not called a
second time, so that nothing is subscribed and the run hears neither its arrival nor a
fault. What was on its way may be lost as well. The same goes for subscriptions that
go out while the link is down (`Watch`). The history variable `steady` tells whether any of
it happened since the run began. The process is gone after `Join`, but the wire, the
controller's buffer and its motion are not: the next `Launch` meets them.
Callbacks that write locals of `main()` after it returned are undefined
behaviour: the step has the outcomes of doing nothing and of a crash.

**`JobMachine`.** One action per accepted call; a rejected call only logs and is
a stutter. `sinceReview` is `now_s - review_entered_at_s_` cut off at the
timeout, which is all that `Tick` reads of it.

**`JobScenarios`.** A script is a sequence of steps, each a wait and a call; `Draw`
is the loop of job_cli that repeats its call while the job is drawing. The call
goes to the actions of `JobMachine`; what no action admits is `Reject`, logged
as in the code (`Tick` is not). `Report` draws the path of a job from its record
as `RenderMermaid` does. The description a scenario is compared with (`Described`) is
written from the table of the operator's README, not from the scripts; the one place where
they part is the exception of `AsDescribed`. The diagram that all nine walk
together is the one of that README. `job_cli.cpp:5` promises every edge of the machine;
a `Tick` that aborts and a pause outside drawing are in the machine and in no scenario. A file that cannot be written
whole is left out (`SaveText`, `job_json.cpp:184-192`, tests the stream before it is
flushed, like `SaveCsv` below).

**`ManualControl`.** The arm has one axis; where it is during a motion is anywhere
between the two ends, and anywhere at all in a jog. A process of mqtt_cmd.py is
a program counter over `main()` and its `finally` clauses; `inbox` is what waits on its
socket, in order. `wait_any` drops what is not the ack it waits for (`DropEvent`); a
`moveHere` of anybody is taken for the arrival (`Hear`); `subscribe()` reads the five
bytes of its SUBACK wherever the stream stands, so an event before it leaves
the socket garbled (`Publish`). Ctrl-C, or a `print` that fails, runs the `finally` of the place
it is in. In a `finally` itself, before the stop is sent (`jogStop`, `moveStop`), it ends the
process without a stop. A kill runs no `finally`, and a lost connection leaves nothing to
send. The history variable `orphan` keeps why nobody will stop the present jog. The executor of the bridge
has one thread: a service that waits for its answer holds the timer. One tick
passes for all, when nobody has something due.

**`DrawingTools`.** Coordinates are integers: in a map, whole units chosen so that
the scale of an image is exact; in `map.csv`, thousandths of a millimetre, to
which a coordinate is rounded. Distance is taxicab, which serves every property
here as any metric does. A sample carries the stroke it belongs to; the program
does not know it and the properties do. A save is refused, fails, succeeds, or
succeeds by its exit status while the flush loses the tail; a run that stops
there leaves the file of the run before. One run of trace_cli is enough, since it
keeps nothing. F2.1 to F2.3 of vision are stubs in this commit (`ToPolylines`), so polylines
come from a caller of the library. The step of `MakeDummyMap` has the floor of the code
(`image_to_map.cpp:174`); without it a step of 0 would divide by 0 there.

## 3. Runs

| run | what it shows | bounds |
|---|---|---|
| `hcr_lifecycle` | the whole lifecycle with collisions, lost link, lost and refused answers, stale samples: the gate (refinement of `MotionGate`), final `on_error`, joined workers, no target from an earlier activation, deadband measured from the robot's own target | two targets further apart than the deadband |
| `hcr_liveness` | with every fault: callbacks return, lost subscriptions end the activation, the slot drains, illegal targets stay out | one legal and one illegal target |
| `hcr_clear` | **violated**: the clear resumes the target of before the collision | same |
| `hcr_settle` | **violated**: the last value of a settled target is not sent | three targets, two within the deadband, no faults |
| `job_life` | lifecycle, one review, explained aborts, complete evidence; who may miss the review and how long its person is given; a started job ends | all eight policies, plans of 0, 1, 4 and 5 strokes, 6 strokes, 3 interventions |
| `job_sessions` | every scenario ends, as described but for the second failure of `stroke-fail` below eight strokes; all nine walk the diagram | 2 to 14 strokes, every policy of the self-check (4,880 states) |
| `mqtt_rpc` | a call keeps its contract, misses no answer, leaks nothing, returns | worker with two calls, lifecycle thread with one |
| `program_run` | gated motion, no arrival missed while no publication is lost and the link holds, stopped means stopped, every run ends | two runs, five command lines, every fault (115,000 states) |
| `drawing` | margins, reading back, breaks and lengths | three sheets, a wide and a tall image, lines that close, nearly close and do not; writes cut off at five rows; two runs of stroke_map_cli (41,000 states) |
| `manual_control` | bounded jog, explained misses, `--max-delta`, joint states flow | positions 0..2 with a delta of 1, jogs shorter and longer than the least wait, timeouts of 2 ticks, one event of another motion on the socket (813,000 states) |
| `program_arrival` | **violated**: success reported for another run's motion | two runs, lost messages only |
| `program_scope` | **violated**: a callback runs after its locals are gone | one run, no faults |

**Why the bounds are enough.** The plugin has one slot and one worker, so two
targets already give "queued while another is in flight"; a third matters only
for the deadband (`hcr_settle`). None of its counters is bounded: the runs cover
any number of activations. Two calls of one caller let a late answer to the
first meet the second, and one more caller interleaves. Two runs let one leave
something behind for the next (three were checked for the invariant of the
proofs). Plans of 4 and 5 strokes have a share that is exact and one that
rounds up, 0 and 1 are the edges, and 6 strokes go past the plan. 2 to 14 strokes
cover the refused numbers, the ones where the scenarios' fixed strokes (2, 7, a
third, a quarter, the half) fall together or beyond the end, and the twelve of
the README. Three positions give a move within and one beyond `--max-delta`; one
foreign event before the ack is enough to drop, to mistake and to garble. The
rows at which a write is cut off fall before, in and after the first stroke of
each map. Jogs longer than `MaxJog` are not told apart, and the virtual clock of a
scenario stops at `MaxNow`, which no script reaches. The safety properties of the
state machines are moreover proved without these bounds, see §5.

**A violated run** states what a comment or document of the repository says;
TLC's trace shows the code doing otherwise. `PROJECT.json` quotes each line
under `findings`. Seven disagreements are stated by passing runs, as what the code does
guarantee instead:

- The second test of the worker leaves out the collision latch
  (`hcr_system_interface.cpp:603`, against the gate of line 487): one target may be sent
  after a collision. `MotionGate` allows exactly this one.
- A pause runs on the reviewer's clock (`job_machine.cpp:280`; `job_machine.hpp:64` gives
  the whole timeout): `ReviewerGetsFullTime` holds of reviews that were not paused.
- The stroke at which the review falls due fails, and no review follows
  (`job_machine.cpp:240`; the diagram at `src/src/operator/README.md:57`):
  `ReviewSkippedOnlyByFailure` says that nothing else skips it.
- A jog of less than 50 ms waits 50 ms for its ack and turns meanwhile, against the
  claim it prints (`mqtt_cmd.py:225-227`): `JogIsBounded` bounds it by the longer one.
- The `finally` of jog is to guarantee the stop in any case (`mqtt_cmd.py:239`). A second
  Ctrl-C in it, or a failing `print` of line 127, before `sendall` ends the process with the
  arm turning: `JogIsBounded` excepts a process interrupted there, beside one that is
  killed or cut off, which no `finally` can help.
- Scenario `stroke-fail` records two failures (`src/src/operator/README.md:281`, and 334 for
  the strokes 2 and 7). `job_cli` takes `--strokes` from 4 on (`job_cli.cpp:271`), and with 4 to 7
  the second of the fixed indices (line 184) is never drawn, so that one failure is
  recorded: `ScenarioEndsAsDescribed` excepts exactly that number.
- The end of a motion is to be told by its events (`movej.cpp:619`). After a reconnection
  nothing is subscribed, and QoS 0 may lose a publication: `ArrivalNotMissed` holds of
  a run since whose start neither has happened. A run that misses its arrival ends by its
  timeout and stops the program (`RunsEnd`, `FaultStopsProgram`).

## 4. Fairness

- Threads run: weak fairness on the steps of a callback, the control cycle, the
  worker, a receive callback that has begun (`HcrSystem`), a caller inside
  `request()` (`MqttRpc`), `main()` and a callback (`ProgramRun`). Every wait in
  these has a timeout in the code, so its step is always enabled.
- Time passes: without a link or a subscription the last sample grows old
  (`SamplesStop`), the review's clock advances (`TimePasses`), `Tick` is called
  periodically.
- The clock of `ManualControl`: strong fairness on `Tick`, since time goes on however
  much happens within one tick; weak fairness on the steps of a process that
  runs, on the timer of the bridge and on the end of its request by timeout. An
  answer is never assumed.
- A scenario's script is played by one program (`Play`, weak fairness).
- The pipeline reports a plan or its failure and reports the end of the
  drawing and of the capture while the job is in those states
  (`JobMachine`), since the machine itself has no timeout there.
- Nothing is assumed of the operator, the network, the broker or the robot.

`CHECK_DEADLOCK FALSE` is set where the system may stop: a finished job accepts
nothing more, calls, runs and scenarios are bounded or end. `ManualControl` has always
a step to take, if only a position that comes in, so the test would show
nothing there. The plugin's runs check deadlock.

## 5. Proofs

All theorems hold for every value of the constants that satisfies the named
assumptions (`HcrAssumption`: a negative deadband is refused by `on_init`;
`JobAssumption`: `Policy::Validate` refuses shares outside (0, 1);
`RpcAssumption`, `RunAssumption`: finite bounds and known faults; `ToolAssumption`,
`PoseAssumption`, `BridgeAssumption`: positive times, positions among the integers;
`ScenarioAssumption`: no stroke takes a negative time, which job_cli does not test;
`DrawingAssumption`: a pixel lies inside its image, the points F2.3 is to resample at
even distances do not repeat, the sheet's measures are integers, and the step of the
trace and its samples in the air are positive: the pen-up samples are 10 in the code,
and a step of 0 is undefined in trace_cli).

- `HcrSystem_proofs`. None of the properties is inductive alone. `IInv` adds to
  the types: *Phases* (which places of the three threads go together with
  which lifecycle state), *Ownership* (a worker exists only between activation and
  the join; `running` tells the rest), *Locks* (permanently locked implies
  locked and, between callbacks, no worker) and *Legality* (slot, hand and
  robot). From it follow type correctness, `LegalTargetsOnly`,
  `DeadInstanceStaysSilent`, `NoWorkerLeftBehind`, the action property
  `ServoOffAfterJoin`, and the refinement of `MotionGate`: each step opens,
  closes, settles, moves or stops the gate, or stutters. The gate lets one target pass
  after it closed, also when `on_error` closed it; a dead instance never opens it again.
- `HcrHistory_proofs`. *Hands* adds what the worker holds, where it is from, and what the
  robot drives to while an answer is awaited and afterwards. It gives
  `NothingFromEarlierActivation` and `DeadbandReferenceIsRobotGoal`: an activation starts with an
  empty slot and, by *Ownership*, without a worker that holds anything.
- `JobMachine_proofs`. The same for the machine: types, explained aborts, due
  reviews, the refinement of `JobLifecycle`; and for `JobHistory` that the log
  is complete evidence, that an unpaused reviewer gets the whole time for any
  timeout, and that only a failed stroke gets past drawing unreviewed.
- `MqttRpc_proofs`. `IInv` says who is inside which call (*Asking*), that requests
  under way were asked (*Requested*), that every `ok`, on its way, in a slot or in a
  caller's hand, is of a request that was carried out (*Truthful*), and that a
  slot or subscription has an owner or an unsubscription behind its last
  subscription (*Owned*). It gives `NothingLeaks` and the refinement of
  `RpcContract`. *Listening* follows one call over an unbroken link: nothing of a new
  one is anywhere (*Fresh*), and of one in progress the subscription is ahead of the
  request and stays until the call ends (*Hearing*). It gives `AnswerNotMissed`.
- `ProgramRun_proofs`. `IInv` follows one run's commands: which were sent at each
  place (*Progress*, *Ordered*), and that the program in the buffer when a `play` of a
  run is next is that run's or nothing (*PlayIsNext*). It gives
  `MovesOnlyAsGated` for any number of runs and any loss. *Aftermath* adds what is left
  when a run gives up: over a steady link nothing of its own arrival is lost while it waits
  (*Arrivals*), and behind its last `play` there is a stop (*Stopping*). It gives
  `ArrivalNotMissed` and `FaultStopsProgram`.
- `ManualControl_proofs`. `IInv`: a wait starts its clock at 0 (*Clocked*), what a jog has lasted
  and has left is no more than it may last, as long as its process will still stop it
  (*JogCounts*), and a position read at
  rest stays true until another client moves the arm (*StillClose*). It gives
  `JogIsBounded` and `MoveWithinDelta`. *Explained* follows the socket of a movej: what waits on it
  before its own motion ends is somebody else's (*Subscribed*), and its own arrival
  in time waits there until it is read, dropped or cut off (*Heeded*). It gives
  `MissedArrivalExplained`.
- `JobScenarios_proofs`. That a script ends as described says nothing of its middle and
  is not inductive. `SessionsInvariant` says for each script and each of its steps
  where the job stands between two calls: phase, stroke, clock, paused or
  reviewed, the reason of an end, what the log and the report have. A step of a script
  takes one such stage to the next; `Draw` stays at its stage with a stroke more. It
  gives `ScenarioEndsAsDescribed`, with its exception, and with the edges still due `AllWalksTheDiagram`,
  for every number of strokes, times, time-out and share past a third.
- `DrawingTools_proofs`. The arithmetic of F2.4 for every image and every sheet: a pixel, and
  every point of the stroke made of a line, lies between the margins. `MapsGood` says it of
  every map of a state and gives `PointsInsideMargins`. For `PlanReadBack`, `FileOk` says that
  `map.csv` holds the rows of the map last written, or what a write left of them. The rows of
  stroke *s* come after the first `off[s - 1]` (`LaidOut`); after *n* of them the reader
  holds the strokes before the one that row is of, and that one up to its
  point (`Stands`), so a damaged last row can change the end of the last
  stroke and nothing else. The folds (`Total`, `FlattenSeq`, `Load`) and the recursion
  of `ScaleToPaper` are reached through lemmas on functions over an interval of numbers
  (`NatInd`, `Recursion`, `FoldRecursion`), proved from the well-ordering of the numbers: the
  induction theorem of the library takes an operator, which no prover here instantiates.

  The summary of a trace (`BreaksReal`, `DrawnWithin`): a trace is one block of samples per
  stroke, laid end to end (`TracedBy`, `Placed`). The samples of a segment, rounded one by
  one, never go back (`SamplesAdvance`), so the way along a stroke is at most the
  stroke's length (`Paced`); between two strokes the pen is in the air, so what counts as
  drawn adds up to at most the plan (`DrawnUpTo`). The strokes of the samples with the pen
  down never decrease (`InOrder`), so the pieces can be counted stroke by stroke:
  pieces - strokes is at most what the strokes have beyond one piece each, strokes - pieces at
  most the strokes never touched, and with the pen down throughout a stroke has at most one
  piece (`OncePerStroke`, `CountBreaks`). A drift moves points and no marks
  (`DriftedMarks`). `TraceHonest`, the two properties together, is inductive given
  `FilesGood`, which bounds what a plan read from `map.csv` can be.

Only model-checked: all liveness (`CallbacksReturn`, `LostSubscriptionsDeactivate`,
`PendingDrains`, `JobEnds`, `CallsReturn`, `RunsEnd`, `ScriptsEnd`,
`StateKeepsFlowing`), which the proof system does not reach. Every safety invariant and
every action property that a passing run checks is stated by a theorem.

## 6. Not modelled

- **Everywhere**: wording, logging and formatting; floating-point arithmetic of
  conventions and gates beyond what it decides; the parsing of hardware
  parameters.
- **Plugin**: the field bus is tested when a target is queued (`hcr_system_interface.cpp:490`)
  and not again when it is sent; its loss is a fault of `hcr_liveness`, without a
  property of its own. `on_configure` resets `have_state_` before it replaces the client
  (line 234), so a callback of the old one may set it again in between.
- **Plugin's worker**: the condition variable and its wake-ups. A worker that has something
  to do goes on (fairness), so `PendingDrains` tests the flags and not a missed wake-up.
- **MqttClient**: `stop()` while a call is in progress; an answer that is not an object, or whose code is not a number,
  throws in the caller's thread (`mqtt_client.cpp:167`); the reference count of the
  library.
- **state_bridge**: the broker's reconnection, after which nothing is subscribed
  (`mqtt_client.cpp:63-67`) and the node falls silent for good; the unlocked write and
  read of `servo_on_`, beyond either value (line 170); the order of destruction
  at shutdown, where members that callbacks use go before `mqtt_` (lines 186-200).
- **`move_common.hpp`, `pose_convention.hpp`**: the first is used by nothing that is built; the
  second is rotation arithmetic.
- **Operator**: the text of reports and JSON; backend and frontend have no code in
  this commit.
- **mqtt_logger.py** and the measuring scripts: they record and command nothing.
- **Vision**: F2.1 to F2.3 are stubs; the text of the SVG and the previews.
- **Simulation**: the statistics of force, the replay SVG, reading back a trace
  file; `--step-mm 0`, where an infinite quotient is converted to an integer
  (`trace_cli.cpp:114`), which is undefined.
- **moveit2, URDF, launch files, containers**: no logic of this project.

What a continuation would take up first: the sessions, segments and queue of
mqtt_logger.py; the reconnection in `StateBridge`; and the plugin and the program path
over the arm of `ManualControl`, for the exclusion that `hcr5_bridge/README.md` §1.2 asks of the
people who use them.
