---------------------------- MODULE ContactTrace ----------------------------
(* sim_core: the planned map as trace_cli reads it, the trace of what was    *)
(* really drawn, and the summary of the two. Coordinates are thousandths of  *)
(* a millimetre, the precision of map.csv. A sample carries the stroke it    *)
(* belongs to for the properties; the program does not know it.              *)
EXTENDS StrokeMap, FiniteSets

\* PlannedLengthMm: as vision's, with its own code.
PlannedLength(plan) ==
    Total([i \in DOMAIN plan |->
        LET pts == plan[i].points
        IN  PathLength(pts) + (IF plan[i].closed /\ Len(pts) >= 2
                               THEN Distance(pts[1], Last(pts)) ELSE 0)])

-----------------------------------------------------------------------------
(* Traces.                                                                   *)

Sample(point, contact, stroke) == [at |-> point, contact |-> contact, stroke |-> stroke]

\* A closed stroke goes back to its first point.
Outline(stroke) ==
    IF stroke.closed /\ Len(stroke.points) >= 2
    THEN Append(stroke.points, stroke.points[1]) ELSE stroke.points

\* The points sampled along a stroke: every segment without its end.
Along(stroke, step) ==
    LET pts == Outline(stroke)
        part(i) ==
            LET a == pts[i]
                b == pts[i + 1]
                n == Larger(1, Distance(a, b) \div step)
            IN  [k \in 1..n |-> Point(a.x + ((b.x - a.x) * (k - 1)) \div n,
                                      a.y + ((b.y - a.y) * (k - 1)) \div n)]
    IN  FlattenSeq([i \in 1..Len(pts) - 1 |-> part(i)])

\* The trace of a plan: the samples of each stroke, the pen up at the sample
\* numbers in lifted, then penUp samples in the air.
Traced(plan, step, penUp, lifted) ==
    LET add(sofar, s) ==
            LET pts == Along(plan[s], step)
                drawn == [k \in DOMAIN pts |->
                            Sample(pts[k], (sofar.index + k - 1) \notin lifted, s)]
                last == IF plan[s].points = <<>> THEN Point(0, 0) ELSE Last(Outline(plan[s]))
                air == [k \in 1..penUp |-> Sample(last, FALSE, s)]
            IN  [samples |-> sofar.samples \o drawn \o air, index |-> sofar.index + Len(pts)]
    IN  FoldLeft(add, [samples |-> <<>>, index |-> 0], [s \in DOMAIN plan |-> s]).samples

SampleCount(plan, step) == Total([s \in DOMAIN plan |-> Len(Along(plan[s], step))])

Cases == {"ideal", "weak-force", "drift"}

\* Where the pen loses the paper: the fourth of every five blocks of samples.
Lifted(plan, step, block) ==
    {i \in 0..SampleCount(plan, step) - 1 : (i \div block) % 5 = 3}

\* The error of position grows by 0.0015 mm with every sample on the paper.
Drifted(samples) ==
    LET add(sofar, sample) ==
            LET d == sofar.drift + (IF sample.contact THEN 3 ELSE 0)
                moved == IF sample.contact
                         THEN [sample EXCEPT !.at = Point(@.x + d \div 2, @.y + d \div 4)]
                         ELSE sample
            IN  [drift |-> d, samples |-> Append(sofar.samples, moved)]
    IN  FoldLeft(add, [drift |-> 0, samples |-> <<>>], samples).samples

MakeDummyTrace(case, plan, step, penUp, block) ==
    CASE case = "ideal" -> Traced(plan, step, penUp, {})
      [] case = "weak-force" -> Traced(plan, step, penUp, Lifted(plan, step, block))
      [] case = "drift" -> Drifted(Traced(plan, step, penUp, {}))

-----------------------------------------------------------------------------
(* What the summary says.                                                    *)

\* Mutant of Starts: every sample with contact starts a piece.
StartsAlways(trace, i) == trace[i].contact

\* The pen touches down at this sample.
Starts(trace, i) == trace[i].contact /\ (i = 1 \/ ~trace[i - 1].contact)

SegmentCount(trace) == Cardinality({i \in DOMAIN trace : Starts(trace, i)})

\* Mutant of DrawnLength: one end on the paper is enough.
DrawnLengthEither(trace) ==
    Total([i \in 1..Len(trace) - 1 |->
        IF trace[i].contact \/ trace[i + 1].contact
        THEN Distance(trace[i].at, trace[i + 1].at) ELSE 0])

DrawnLength(trace) ==
    Total([i \in 1..Len(trace) - 1 |->
        IF trace[i].contact /\ trace[i + 1].contact
        THEN Distance(trace[i].at, trace[i + 1].at) ELSE 0])

\* The comparison of RenderSummary: pieces beyond the planned strokes are
\* breaks, missing ones are strokes not drawn.
Summary(trace, plan) ==
    [breaks |-> Larger(0, SegmentCount(trace) - Len(plan)),
     missing |-> Larger(0, Len(plan) - SegmentCount(trace)),
     drawn |-> DrawnLength(trace), planned |-> PlannedLength(plan)]

\* The pieces a stroke was really drawn in.
Pieces(trace, s) == Cardinality({i \in DOMAIN trace : trace[i].stroke = s /\ trace[i].contact
                                    /\ (i = 1 \/ ~trace[i - 1].contact \/ trace[i - 1].stroke # s)})
=============================================================================
