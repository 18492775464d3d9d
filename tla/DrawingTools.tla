---------------------------- MODULE DrawingTools ----------------------------
(* stroke_map_cli of vision and trace_cli of the simulation, joined by       *)
(* map.csv alone: the first writes map.svg and map.csv, the second compares  *)
(* a trace with the plan it reads back. A write may fail, at the opening, in *)
(* the middle, or unnoticed when the buffer is flushed after the test of the *)
(* stream; a run that stops there leaves the files of the earlier one.       *)
EXTENDS ContactTrace

CONSTANTS
    ParamSets,    \* the Params stroke_map_cli may be given
    Sizes,        \* sizes of images
    Lines,        \* sequences of polylines a caller of ScaleToPaper may have
    Sheet,        \* paper and margin of trace_cli's own plan, A4 and 15 mm
    StepMm,       \* --step-mm of trace_cli, in thousandths
    PenUp,        \* samples in the air after each stroke, 10 in the code
    Block,        \* samples per block of the weak-force case, 40 in the code
    LiftedSets,   \* bound: the samples at which the simulator's pen is up
    CutAt,        \* bound: the rows at which a write may be cut off
    MaxRuns       \* bound: runs of stroke_map_cli

\* A polyline lies inside the image it was found in, and two points of it that
\* follow each other are apart: F2.3 is to resample it at even distances. A step
\* of 0 is undefined in trace_cli.
ASSUME DrawingAssumption ==
    /\ Sheet \in [paperW : Int, paperH : Int, margin : Int]
    /\ StepMm \in Nat \ {0} /\ PenUp \in Nat \ {0}
    /\ ParamSets \subseteq [paperW : Int, paperH : Int, margin : Int, step : Int]
    /\ Sizes \subseteq [w : Nat \ {0}, h : Nat \ {0}]
    /\ \A lines \in Lines :
        /\ lines \in Seq(Seq([x : Nat, y : Nat]))
        /\ \A n \in DOMAIN lines : \A k \in DOMAIN lines[n] :
            /\ \A size \in Sizes : lines[n][k].x <= size.w /\ lines[n][k].y <= size.h
            /\ k > 1 => lines[n][k] # lines[n][k - 1]

VARIABLES
    params,       \* Params of the last map
    map,          \* the last StrokeMap
    svg,          \* map.svg: the run that wrote it, 0 none
    csv,          \* the rows of map.csv
    csvRun,       \* the run that wrote map.csv, 0 none
    csvMap,       \* and its map
    run,          \* runs of stroke_map_cli so far
    exitVision,   \* exit status of the last one, -1 none
    plan,         \* the plan of trace_cli, and the run it was read from
    trace,        \* the samples it compares, and the plan they follow
    report,       \* its summary
    exitTrace     \* its exit status, -1 none

visionVars == <<params, map, svg, csv, csvRun, csvMap, run, exitVision>>
traceVars == <<plan, trace, report, exitTrace>>
toolVars == <<visionVars, traceVars>>

NoMap == [unit |-> 1, strokes |-> <<>>]
NoPlan == [given |-> FALSE, strokes |-> <<>>, from |-> <<>>, whole |-> FALSE]
NoTrace == [samples |-> <<>>, follows |-> <<>>, case |-> "none"]
NoReport == [breaks |-> 0, missing |-> 0, drawn |-> 0, planned |-> 0]

Init ==
    /\ params \in ParamSets /\ map = NoMap
    /\ svg = 0 /\ csv = <<>> /\ csvRun = 0 /\ csvMap = NoMap
    /\ run = 0 /\ exitVision = -1
    /\ plan = NoPlan /\ trace = NoTrace /\ report = NoReport /\ exitTrace = -1

-----------------------------------------------------------------------------
(* stroke_map_cli.                                                           *)

\* A coordinate as map.csv shows it: three digits after the point.
Fixed(v, unit) == (v * 1000 + unit \div 2) \div unit
FixedPoint(q, unit) == Point(Fixed(q.x, unit), Fixed(q.y, unit))

\* The strokes of a map at the precision of map.csv.
Printed(m) ==
    [s \in DOMAIN m.strokes |->
        [points |-> [k \in DOMAIN m.strokes[s].points |->
                        FixedPoint(m.strokes[s].points[k], m.unit)],
         closed |-> m.strokes[s].closed]]

\* The rows of SaveCsv, stroke by stroke, all of five fields.
Rows(m) ==
    FlattenSeq([s \in DOMAIN m.strokes |->
        [k \in DOMAIN m.strokes[s].points |->
            [stroke |-> s - 1, at |-> FixedPoint(m.strokes[s].points[k], m.unit),
             closed |-> m.strokes[s].closed, fields |-> 5]]])

\* A row cut off: in the coordinates, where y may have lost its fraction, or
\* before them.
CutRow(row, fields) ==
    [row EXCEPT !.fields = fields, !.at.y = (@ \div 1000) * 1000]

\* What may be left of the rows: the first ones, and some fields of the next.
Cut(rows) ==
    {SubSeq(rows, 1, n) : n \in (0..Len(rows) - 1) \cap CutAt}
        \cup {Append(SubSeq(rows, 1, n - 1), CutRow(rows[n], f)) :
                n \in DOMAIN rows \cap CutAt, f \in {1, 4}}

\* What main() gets from a save: refused at the opening, failed on the way,
\* saved, or reported as saved although the flush lost what the buffer held.
Outcomes == {"refused", "failed", "saved", "lost"}
Good(outcome) == outcome \in {"saved", "lost"}

SvgAfter(outcome) == svg' = IF outcome = "refused" THEN svg ELSE run'

CsvAfter(m, outcome) ==
    IF outcome = "refused" THEN UNCHANGED <<csv, csvRun, csvMap>>
    ELSE /\ csvRun' = run' /\ csvMap' = m
         /\ csv' \in IF outcome = "saved" THEN {Rows(m)} ELSE Cut(Rows(m))

\* The files of one run: map.csv is not tried when map.svg was not written.
SaveFiles(m, svgOutcome, csvOutcome) ==
    /\ SvgAfter(svgOutcome)
    /\ IF Good(svgOutcome) THEN CsvAfter(m, csvOutcome)
                           ELSE UNCHANGED <<csv, csvRun, csvMap>>
    /\ exitVision' = IF Good(svgOutcome) /\ Good(csvOutcome) THEN 0 ELSE 1

\* No output directory, no image, or a margin larger than the paper.
Fails == exitVision' = 1 /\ UNCHANGED <<params, map, svg, csv, csvRun, csvMap>>

StrokeMapCli(p) ==
    /\ run < MaxRuns /\ run' = run + 1
    /\ \/ Fails
       \/ /\ Fits(p) /\ params' = p
          /\ map' \in {MakeDummyMap(p)} \cup {BuildStrokeMap(size, p) : size \in Sizes}
          /\ \E svgOutcome, csvOutcome \in Outcomes : SaveFiles(map', svgOutcome, csvOutcome)
    /\ UNCHANGED traceVars

\* The library alone, as vision_node and whoever links vision_core call it: the
\* files of stroke_map_cli are not touched.
LibraryCall(p, size, polylines) ==
    /\ run = 0 /\ Fits(p)
    /\ map' = ScaleToPaper(polylines, size, p) /\ params' = p
    /\ UNCHANGED <<svg, csv, csvRun, csvMap, run, exitVision, traceVars>>

-----------------------------------------------------------------------------
(* trace_cli.                                                                *)

\* LoadPlannedMapCsv throws on a row of fewer than four fields.
Readable(rows) == csvRun > 0 /\ \A i \in DOMAIN rows : rows[i].fields >= 4

\* A row read into the strokes: a new stroke where the index changes.
AddRow(sofar, row, closed) ==
    LET open == IF sofar = <<>> \/ row.stroke # Last(sofar).index
                THEN Append(sofar, [index |-> row.stroke, points |-> <<>>, closed |-> FALSE])
                ELSE sofar
    IN  [open EXCEPT ![Len(open)].points = Append(@, row.at), ![Len(open)].closed = closed]

Strokes(read) ==
    [s \in DOMAIN read |-> [points |-> read[s].points, closed |-> read[s].closed]]

\* Mutant of Load: the field of closed is looked for one place too far.
LoadOpen(rows) ==
    Strokes(FoldLeft(LAMBDA sofar, row : AddRow(sofar, row, row.closed /\ row.fields > 5),
                     <<>>, rows))

\* LoadPlannedMapCsv: the closed of a stroke is that of its last row, and FALSE
\* in a row of four fields.
Load(rows) ==
    Strokes(FoldLeft(LAMBDA sofar, row : AddRow(sofar, row, row.closed /\ row.fields >= 5),
                     <<>>, rows))

\* The plan made without a file, in thousandths of a millimetre: the border by
\* its corners, one diagonal and a circle.
MakeDummyPlan(p) ==
    LET near == p.margin * 1000
        right == (p.paperW - p.margin) * 1000
        bottom == (p.paperH - p.margin) * 1000
        centre == Point(p.paperW * 500, p.paperH * 500)
    IN  <<[points |-> <<Point(near, near), Point(right, near),
                        Point(right, bottom), Point(near, bottom)>>, closed |-> TRUE],
          [points |-> <<Point(near, near), Point(right, bottom)>>, closed |-> FALSE],
          [points |-> Circle(centre, 500), closed |-> TRUE]>>

\* The plan of a run: of map.csv, or made up for a dummy trace, or none.
PlanOf(fromFile, dummy) ==
    IF fromFile
    THEN [given |-> TRUE, strokes |-> Load(csv), from |-> Printed(csvMap),
          whole |-> csv = Rows(csvMap)]
    ELSE [NoPlan EXCEPT !.given = dummy,
                        !.strokes = IF dummy THEN MakeDummyPlan(Sheet) ELSE <<>>]

\* The trace of a run: made up along its plan, or the simulator's, who drew the
\* map of the file or the plan of the dummy.
Traces(dummy, strokes) ==
    IF dummy
    THEN {[samples |-> MakeDummyTrace(case, strokes, StepMm, PenUp, Block),
           follows |-> strokes, case |-> case] : case \in Cases}
    ELSE {[samples |-> Traced(drawn, StepMm, PenUp, lifted), follows |-> drawn,
           case |-> "simulated"] :
            drawn \in {Printed(csvMap), MakeDummyPlan(Sheet)}, lifted \in LiftedSets}

\* The summary and, unless only the standard output was asked for, three files
\* of which nothing is read again here; or one of the inputs does not load. One
\* run of trace_cli is enough (bound): it remembers nothing of an earlier one.
TraceCli(fromFile, dummy) ==
    /\ exitTrace = -1
    /\ \/ /\ exitTrace' = 1
          /\ UNCHANGED <<plan, trace, report>>
       \/ /\ fromFile => Readable(csv)
          /\ plan' = PlanOf(fromFile, dummy)
          /\ trace' \in Traces(dummy, plan'.strokes)
          /\ report' = IF plan'.given THEN Summary(trace'.samples, plan'.strokes)
                                      ELSE [NoReport EXCEPT !.drawn = DrawnLength(trace'.samples)]
          /\ exitTrace' \in {0, 1}
    /\ UNCHANGED visionVars

-----------------------------------------------------------------------------
Next ==
    \/ \E p \in ParamSets : StrokeMapCli(p)
    \/ \E p \in ParamSets, size \in Sizes, polylines \in Lines : LibraryCall(p, size, polylines)
    \/ \E fromFile, dummy \in BOOLEAN : TraceCli(fromFile, dummy)

Spec == Init /\ [][Next]_toolVars

-----------------------------------------------------------------------------
(* Properties.                                                               *)

\* Whatever the image's shape, the map lies between the margins, and a closed
\* stroke does not repeat its first point, which both tools add themselves
\* (ScaleToPaper, MakeDummyMap).
PointsInsideMargins ==
    /\ InsideMargins(map, params)
    /\ \A s \in DOMAIN map.strokes :
        LET stroke == map.strokes[s]
        IN  stroke.closed => Last(stroke.points) # stroke.points[1]

\* The plan trace_cli reads is the map that was written, to the length both
\* compute of it; of a file cut off it is a beginning of that map, of which only the
\* end of the last stroke may be damaged (SaveCsv, LoadPlannedMapCsv).
PlanReadBack ==
    plan.from # <<>> =>
        /\ plan.whole => /\ plan.strokes = plan.from
                         /\ report.planned = Total([s \in DOMAIN plan.from |->
                                                    StrokeLength(plan.from[s])])
        /\ Len(plan.strokes) <= Len(plan.from)
        /\ \A s \in DOMAIN plan.strokes :
            /\ Len(plan.strokes[s].points) <= Len(plan.from[s].points)
            /\ s < Len(plan.strokes) => plan.strokes[s] = plan.from[s]

\* The breaks the summary reports of a drawing of its own plan are there: the
\* strokes were drawn in at least that many extra pieces, and the strokes it
\* misses were never touched. With the pen down throughout there are neither
\* (SegmentCount, RenderSummary).
BreaksAreReal ==
    plan.given /\ plan.strokes = trace.follows =>
        /\ report.breaks <= Total([s \in DOMAIN plan.strokes |->
                                Larger(0, Pieces(trace.samples, s) - 1)])
        /\ report.missing <= Cardinality({s \in DOMAIN plan.strokes :
                                Pieces(trace.samples, s) = 0})
        /\ trace.case \in {"ideal", "drift"} => report.breaks = 0

\* A pen that keeps to the plan never draws more than the plan is long: what is
\* travelled in the air does not count (DrawnLengthMm, PlannedLengthMm).
DrawnWithinPlan ==
    plan.given /\ plan.strokes = trace.follows /\ trace.case # "drift" =>
        report.drawn <= report.planned
=============================================================================
