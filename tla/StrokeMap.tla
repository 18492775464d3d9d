------------------------------ MODULE StrokeMap ------------------------------
(* vision_core: from the polylines of an image to strokes on the paper. A    *)
(* map is a sequence of strokes; its coordinates are whole numbers of        *)
(* map.unit to the millimetre, so that the scale of an image is exact. The   *)
(* distance is taxicab instead of Euclidean: what is computed of it here     *)
(* holds for any metric.                                                     *)
EXTENDS Integers, SequencesExt

Point(x, y) == [x |-> x, y |-> y]
Absolute(n) == IF n < 0 THEN -n ELSE n
Larger(a, b) == IF a < b THEN b ELSE a
Smaller(a, b) == IF a < b THEN a ELSE b
Distance(a, b) == Absolute(a.x - b.x) + Absolute(a.y - b.y)

Total(s) == FoldLeft(LAMBDA a, b : a + b, 0, s)

\* Params: the paper, its margin and the resampling step, in millimetres.
DrawableWidth(p) == p.paperW - 2 * p.margin
DrawableHeight(p) == p.paperH - 2 * p.margin
Fits(p) == DrawableWidth(p) > 0 /\ DrawableHeight(p) > 0

-----------------------------------------------------------------------------
(* F2.4: the image is scaled to the drawable area, centred, not distorted.   *)

UnitOf(size) == 2 * size.w * size.h
\* The scale, times the area of the image.
Scale(size, p) == Smaller(DrawableWidth(p) * size.h, DrawableHeight(p) * size.w)

\* Mutant of OnPaper: the margin is left out of the offset.
OnPaperNoMargin(pixel, size, p) ==
    Point(DrawableWidth(p) * size.w * size.h - size.w * Scale(size, p)
              + 2 * pixel.x * Scale(size, p),
          DrawableHeight(p) * size.w * size.h - size.h * Scale(size, p)
              + 2 * pixel.y * Scale(size, p))

OnPaper(pixel, size, p) ==
    Point(p.margin * UnitOf(size) + DrawableWidth(p) * size.w * size.h
              - size.w * Scale(size, p) + 2 * pixel.x * Scale(size, p),
          p.margin * UnitOf(size) + DrawableHeight(p) * size.w * size.h
              - size.h * Scale(size, p) + 2 * pixel.y * Scale(size, p))

\* A stroke whose ends are a resampling step apart is closed; the end that
\* repeats the first point is taken off.
Stroke(points, reach) ==
    LET gap == Distance(points[1], Last(points))
        closed == Len(points) >= 3 /\ gap <= reach
    IN  [points |-> IF closed /\ gap = 0 THEN Front(points) ELSE points, closed |-> closed]

\* Polylines of fewer than two pixels are passed over.
ScaleToPaper(polylines, size, p) ==
    LET placed(line) == [i \in DOMAIN line |-> OnPaper(line[i], size, p)]
        strokes[n \in 0..Len(polylines)] ==
            IF n = 0 THEN <<>>
            ELSE IF Len(polylines[n]) < 2 THEN strokes[n - 1]
            ELSE Append(strokes[n - 1], Stroke(placed(polylines[n]), p.step * UnitOf(size)))
    IN  [unit |-> UnitOf(size), strokes |-> strokes[Len(polylines)]]

\* F2.1 to F2.3 are stubs in this commit: no image gives a polyline.
ToPolylines == <<>>
BuildStrokeMap(size, p) == ScaleToPaper(ToPolylines, size, p)

-----------------------------------------------------------------------------
(* The map made without an image, in quarters of a millimetre; the code does *)
(* not sample it finer than 0.01 mm, which is one of these units here.       *)

Segment(a, b, step, includeEnd) ==
    LET steps == Larger(1, (Distance(a, b) + step - 1) \div step)
        at(i) == Point(a.x + ((b.x - a.x) * i) \div steps, a.y + ((b.y - a.y) * i) \div steps)
    IN  [i \in 1..steps |-> at(i - 1)] \o (IF includeEnd THEN <<b>> ELSE <<>>)

\* The eight points of a circle, with 7/10 for the sine of an eighth turn.
Circle(centre, radius) ==
    LET s == (radius * 7) \div 10
        by == <<Point(radius, 0), Point(s, s), Point(0, radius), Point(-s, s),
                Point(-radius, 0), Point(-s, -s), Point(0, -radius), Point(s, -s)>>
    IN  [i \in 1..8 |-> Point(centre.x + by[i].x, centre.y + by[i].y)]

\* A border, two diagonals and a circle.
MakeDummyMap(p) ==
    LET unit == 4
        step == Larger(p.step * unit, 1)
        x0 == p.margin * unit
        x1 == x0 + DrawableWidth(p) * unit
        y1 == x0 + DrawableHeight(p) * unit
        side(a, b) == Segment(a, b, step, FALSE)
        corner == <<Point(x0, x0), Point(x1, x0), Point(x1, y1), Point(x0, y1)>>
        border == side(corner[1], corner[2]) \o side(corner[2], corner[3])
                    \o side(corner[3], corner[4]) \o side(corner[4], corner[1])
        radius == (Smaller(DrawableWidth(p), DrawableHeight(p)) * unit) \div 4
        centre == Point((x0 + x1) \div 2, (x0 + y1) \div 2)
    IN  [unit |-> unit,
         strokes |-> <<[points |-> border, closed |-> TRUE],
                       [points |-> Segment(corner[1], corner[3], step, TRUE), closed |-> FALSE],
                       [points |-> Segment(corner[2], corner[4], step, TRUE), closed |-> FALSE],
                       [points |-> Circle(centre, radius), closed |-> TRUE]>>]

-----------------------------------------------------------------------------
(* What stroke_map.cpp computes of a map.                                    *)

PathLength(points) == Total([i \in 1..Len(points) - 1 |-> Distance(points[i], points[i + 1])])

StrokeLength(stroke) ==
    IF Len(stroke.points) < 2 THEN 0
    ELSE PathLength(stroke.points)
           + (IF stroke.closed THEN Distance(Last(stroke.points), stroke.points[1]) ELSE 0)

TotalPointCount(map) == Total([i \in DOMAIN map.strokes |-> Len(map.strokes[i].points)])
TotalDrawLength(map) == Total([i \in DOMAIN map.strokes |-> StrokeLength(map.strokes[i])])

AllPoints(map) == UNION {ToSet(map.strokes[i].points) : i \in DOMAIN map.strokes}

\* stroke_map_cli's check of the bounding box against the margins.
InsideMargins(map, p) ==
    \A q \in AllPoints(map) :
        /\ p.margin * map.unit <= q.x /\ q.x <= (p.paperW - p.margin) * map.unit
        /\ p.margin * map.unit <= q.y /\ q.y <= (p.paperH - p.margin) * map.unit
=============================================================================
