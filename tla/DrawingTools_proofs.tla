------------------------- MODULE DrawingTools_proofs -------------------------
(* vision_core and the two command line tools for every paper, every image,   *)
(* every plan and every place at which a file may be cut off. The arithmetic  *)
(* is that of whole units (StrokeMap), without the rounding of doubles.       *)
EXTENDS DrawingTools, SequenceTheorems, FiniteSetTheorems, TLAPS

Sheets == {p \in [paperW : Int, paperH : Int, margin : Int, step : Int] : Fits(p)}
ImageSizes == [w : Nat \ {0}, h : Nat \ {0}]
PixelsOf(size) == [x : 0..size.w, y : 0..size.h]

BetweenMargins(q, size, p) ==
    /\ p.margin * UnitOf(size) <= q.x /\ q.x <= (p.paperW - p.margin) * UnitOf(size)
    /\ p.margin * UnitOf(size) <= q.y /\ q.y <= (p.paperH - p.margin) * UnitOf(size)

-----------------------------------------------------------------------------
\* Products keep an order.
LEMMA Product ==
    ASSUME NEW a \in Int, NEW b \in Int, NEW c \in Nat, a <= b
    PROVE  a * c <= b * c
OBVIOUS

\* One axis: d is the drawable length, n the pixels along it and k those across;
\* whatever scale s does not exceed d * k, a centred coordinate stays on the
\* drawable length.
LEMMA Centred ==
    ASSUME NEW d \in Nat, NEW n \in Nat, NEW k \in Nat, NEW s \in Nat, NEW v \in 0..n,
           s <= d * k
    PROVE  /\ d * n * k - n * s + 2 * v * s \in Int
           /\ 0 <= d * n * k - n * s + 2 * v * s
           /\ d * n * k - n * s + 2 * v * s <= 2 * (d * n * k)
<1> DEFINE full == d * n * k
           whole == n * s
           part == v * s
<1>1. full \in Nat /\ whole \in Nat /\ part \in Nat OBVIOUS
<1>2. whole <= full
  <2>1. s * n <= (d * k) * n BY Product
  <2> QED BY <2>1
<1>3. part <= whole BY Product
<1>4. 2 * v * s = 2 * part OBVIOUS
<1> HIDE DEF full, whole, part
<1>5. 0 <= full - whole + 2 * part /\ full - whole + 2 * part <= 2 * full
      /\ full - whole + 2 * part \in Int
  BY <1>1, <1>2, <1>3
<1> QED BY <1>4, <1>5 DEF full, whole, part

\* The scale is the smaller of the two that fit.
LEMMA ScaleFits ==
    ASSUME NEW p \in Sheets, NEW size \in ImageSizes
    PROVE  /\ DrawableWidth(p) \in Nat /\ DrawableHeight(p) \in Nat /\ Scale(size, p) \in Nat
           /\ Scale(size, p) <= DrawableWidth(p) * size.h
           /\ Scale(size, p) <= DrawableHeight(p) * size.w
<1>1. DrawableWidth(p) \in Nat /\ DrawableHeight(p) \in Nat
  BY DEF Sheets, Fits, DrawableWidth, DrawableHeight
<1>2. DrawableWidth(p) * size.h \in Nat /\ DrawableHeight(p) * size.w \in Nat
  BY <1>1 DEF ImageSizes
<1> HIDE DEF DrawableWidth, DrawableHeight
<1> QED BY <1>1, <1>2 DEF Scale, Smaller

\* Whatever the shape of the image and of the paper, a pixel of the image is put
\* between the margins (ScaleToPaper, F2.4), which PointsInsideMargins checks on
\* a few sheets.
THEOREM PixelOnPaper ==
    ASSUME NEW p \in Sheets, NEW size \in ImageSizes, NEW pixel \in PixelsOf(size)
    PROVE  BetweenMargins(OnPaper(pixel, size, p), size, p)
<1> DEFINE W == DrawableWidth(p)
           H == DrawableHeight(p)
           S == Scale(size, p)
           area == size.w * size.h
           x == W * size.w * size.h - size.w * S + 2 * pixel.x * S
           y == H * size.w * size.h - size.h * S + 2 * pixel.y * S
<1>1. /\ W \in Nat /\ H \in Nat /\ S \in Nat /\ S <= W * size.h /\ S <= H * size.w
  BY ScaleFits
<1>2. /\ size.w \in Nat /\ size.h \in Nat /\ pixel.x \in 0..size.w /\ pixel.y \in 0..size.h
      /\ area \in Nat /\ p.margin \in Int /\ p.paperW \in Int /\ p.paperH \in Int
  BY DEF ImageSizes, PixelsOf, Sheets
<1>3. p.paperW - p.margin = p.margin + W /\ p.paperH - p.margin = p.margin + H
  BY <1>2 DEF DrawableWidth, DrawableHeight
<1> HIDE DEF W, H, S
<1>4. x \in Int /\ 0 <= x /\ x <= 2 * (W * size.w * size.h)
  BY <1>1, <1>2, Centred
<1>5. y \in Int /\ 0 <= y /\ y <= 2 * (H * size.w * size.h)
  <2>1. y = H * size.h * size.w - size.h * S + 2 * pixel.y * S BY <1>1, <1>2
  <2>2. H * size.w * size.h = H * size.h * size.w BY <1>1, <1>2
  <2> HIDE DEF y
  <2>3. /\ H * size.h * size.w - size.h * S + 2 * pixel.y * S \in Int
        /\ 0 <= H * size.h * size.w - size.h * S + 2 * pixel.y * S
        /\ H * size.h * size.w - size.h * S + 2 * pixel.y * S <= 2 * (H * size.h * size.w)
    BY <1>1, <1>2, Centred
  <2> QED BY <2>1, <2>2, <2>3
<1>6. /\ UnitOf(size) = 2 * area
      /\ 2 * (W * size.w * size.h) = W * (2 * area) /\ 2 * (H * size.w * size.h) = H * (2 * area)
  <2>1. UnitOf(size) = 2 * area BY <1>2 DEF UnitOf
  <2>2. W * size.w * size.h = W * area /\ H * size.w * size.h = H * area BY <1>1, <1>2
  <2> HIDE DEF area
  <2>3. 2 * (W * area) = W * (2 * area) /\ 2 * (H * area) = H * (2 * area) BY <1>1, <1>2
  <2> QED BY <2>1, <2>2, <2>3
<1>7. OnPaper(pixel, size, p).x = p.margin * (2 * area) + x
      /\ OnPaper(pixel, size, p).y = p.margin * (2 * area) + y
  <2>1. OnPaper(pixel, size, p) =
            Point(p.margin * UnitOf(size) + W * size.w * size.h - size.w * S + 2 * pixel.x * S,
                  p.margin * UnitOf(size) + H * size.w * size.h - size.h * S + 2 * pixel.y * S)
    BY DEF OnPaper, W, H, S
  <2>2. UnitOf(size) = 2 * area BY <1>6
  <2>3. p.margin * (2 * area) \in Int /\ W * size.w * size.h \in Int /\ size.w * S \in Int
        /\ 2 * pixel.x * S \in Int /\ H * size.w * size.h \in Int /\ size.h * S \in Int
        /\ 2 * pixel.y * S \in Int
    BY <1>1, <1>2
  <2> HIDE DEF area
  <2> QED BY <2>1, <2>2, <2>3 DEF Point
<1>8. (p.margin + W) * (2 * area) = p.margin * (2 * area) + W * (2 * area)
      /\ (p.margin + H) * (2 * area) = p.margin * (2 * area) + H * (2 * area)
      /\ p.margin * (2 * area) \in Int /\ W * (2 * area) \in Int /\ H * (2 * area) \in Int
  <2>1. ASSUME NEW a \in Int, NEW b \in Int, NEW c \in Int
        PROVE  (a + b) * c = a * c + b * c /\ a * c \in Int
    OBVIOUS
  <2>2. PICK c \in Int : c = 2 * area BY <1>2
  <2>3. W \in Int /\ H \in Int /\ p.margin \in Int BY <1>1, <1>2
  <2>4. /\ (p.margin + W) * c = p.margin * c + W * c /\ p.margin * c \in Int
        /\ (p.margin + H) * c = p.margin * c + H * c /\ W * c \in Int /\ H * c \in Int
    BY <2>1, <2>2, <2>3
  <2> QED BY <2>2, <2>4
<1> HIDE DEF x, y, area
<1> QED BY <1>3, <1>4, <1>5, <1>6, <1>7, <1>8 DEF BetweenMargins

\* Closing a stroke takes nothing but its repeated end: a whole line of the image
\* is put between the margins, closed or not.
THEOREM LineOnPaper ==
    ASSUME NEW p \in Sheets, NEW size \in ImageSizes, NEW reach,
           NEW line \in Seq(PixelsOf(size)), Len(line) >= 2
    PROVE  LET stroke == Stroke([i \in DOMAIN line |-> OnPaper(line[i], size, p)], reach)
           IN  \A i \in DOMAIN stroke.points : BetweenMargins(stroke.points[i], size, p)
<1> DEFINE placed == [i \in DOMAIN line |-> OnPaper(line[i], size, p)]
<1>1. /\ DOMAIN line = 1..Len(line) /\ Len(line) \in Nat
      /\ \A i \in DOMAIN line : BetweenMargins(placed[i], size, p)
  BY PixelOnPaper
<1>2. Len(placed) = Len(line) /\ DOMAIN placed = 1..Len(line) BY <1>1
<1> HIDE DEF placed
<1>3. /\ DOMAIN Front(placed) = 1..(Len(line) - 1)
      /\ \A i \in 1..(Len(line) - 1) : Front(placed)[i] = placed[i]
  BY <1>1, <1>2 DEF Front
<1>4. Stroke(placed, reach).points \in {placed, Front(placed)} BY DEF Stroke
<1>5. ASSUME NEW i \in DOMAIN Stroke(placed, reach).points
      PROVE  BetweenMargins(Stroke(placed, reach).points[i], size, p)
  <2>1. CASE Stroke(placed, reach).points = placed BY <1>1, <1>2, <1>5, <2>1
  <2>2. CASE Stroke(placed, reach).points = Front(placed)
    BY <1>1, <1>2, <1>3, <1>5, <2>2
  <2> QED BY <1>4, <2>1, <2>2
<1> QED BY <1>5 DEF placed

-----------------------------------------------------------------------------
(* The map made without an image.                                            *)

Points == [x : Int, y : Int]
Inside(q, lo, hx, hy) == lo <= q.x /\ q.x <= hx /\ lo <= q.y /\ q.y <= hy

Area(lo, hx, hy) == {q \in Points : Inside(q, lo, hx, hy)}

LEMMA Between ==
    ASSUME NEW d \in Int, NEW n \in Nat \ {0}, NEW i \in 0..n
    PROVE  /\ (d * i) \div n \in Int
           /\ 0 <= d => 0 <= (d * i) \div n /\ (d * i) \div n <= d
           /\ d <= 0 => d <= (d * i) \div n /\ (d * i) \div n <= 0
<1> DEFINE q == (d * i) \div n
           r == (d * i) - n * q
<1>1. q \in Int /\ r \in Int /\ 0 <= r /\ r < n /\ d * i = n * q + r
  <2>1. PICK m \in Int : m = d * i
      OBVIOUS
  <2> QED
      BY <2>1
<1> HIDE DEF q, r
<1>2. ASSUME 0 <= d PROVE 0 <= q /\ q <= d
  <2>1. 0 <= d * i /\ d * i <= d * n
      BY <1>2
  <2>2. 0 <= q
    <3>1. SUFFICES ASSUME q <= -1 PROVE FALSE
        BY <1>1
    <3>2. n * q <= -n
        BY <1>1, <3>1
    <3> QED
        BY <1>1, <2>1, <3>2
  <2>3. q <= d
    <3>1. SUFFICES ASSUME q >= d + 1 PROVE FALSE
        BY <1>1
    <3>2. n * q >= d * n + n
        BY <1>1, <3>1
    <3> QED
        BY <1>1, <2>1, <3>2
  <2> QED
      BY <2>2, <2>3
<1>3. ASSUME d <= 0 PROVE d <= q /\ q <= 0
  <2>1. d * i <= 0 /\ d * n <= d * i
      BY <1>3
  <2>2. q <= 0
    <3>1. SUFFICES ASSUME q >= 1 PROVE FALSE
        BY <1>1
    <3>2. n * q >= n
        BY <1>1, <3>1
    <3> QED
        BY <1>1, <2>1, <3>2
  <2>3. d <= q
    <3>1. SUFFICES ASSUME q <= d - 1 PROVE FALSE
        BY <1>1
    <3>2. n * q <= d * n - n
        BY <1>1, <3>1
    <3> QED
        BY <1>1, <2>1, <3>2
  <2> QED
      BY <2>2, <2>3
<1> QED
    BY <1>1, <1>2, <1>3 DEF q

LEMMA DistanceType ==
    ASSUME NEW a \in Points, NEW b \in Points
    PROVE  /\ Distance(a, b) \in Nat
           /\ a.y = b.y => Distance(a, b) = Absolute(a.x - b.x)
           /\ a.x = b.x => Distance(a, b) = Absolute(a.y - b.y)
    BY DEF Points, Distance, Absolute

\* The samples of a segment: at least one, the first at its beginning, none
\* beside it.
StepsOf(a, b, step) == Larger(1, (Distance(a, b) + step - 1) \div step)
SampleAt(a, b, steps, i) ==
    Point(a.x + ((b.x - a.x) * i) \div steps, a.y + ((b.y - a.y) * i) \div steps)

LEMMA SegmentIs ==
    ASSUME NEW a \in Points, NEW b \in Points, NEW step \in Nat \ {0}
    PROVE  /\ StepsOf(a, b, step) \in Nat \ {0}
           /\ Segment(a, b, step, FALSE)
                = [i \in 1..StepsOf(a, b, step) |-> SampleAt(a, b, StepsOf(a, b, step), i - 1)] \o <<>>
           /\ Segment(a, b, step, TRUE)
                = [i \in 1..StepsOf(a, b, step) |-> SampleAt(a, b, StepsOf(a, b, step), i - 1)] \o <<b>>
<1>1. (Distance(a, b) + step - 1) \div step \in Int
  <2>1. Distance(a, b) + step - 1 \in Int
      BY DistanceType
  <2> QED
      BY <2>1
<1>2. StepsOf(a, b, step) \in Nat \ {0}
    BY <1>1 DEF StepsOf, Larger
<1>3. Segment(a, b, step, FALSE)
        = [i \in 1..StepsOf(a, b, step) |-> SampleAt(a, b, StepsOf(a, b, step), i - 1)] \o <<>>
    BY DEF Segment, StepsOf, SampleAt
<1>4. Segment(a, b, step, TRUE)
        = [i \in 1..StepsOf(a, b, step) |-> SampleAt(a, b, StepsOf(a, b, step), i - 1)] \o <<b>>
    BY DEF Segment, StepsOf, SampleAt
<1> QED
    BY <1>2, <1>3, <1>4

LEMMA SampleInside ==
    ASSUME NEW a \in Points, NEW b \in Points, NEW lo \in Int, NEW hx \in Int, NEW hy \in Int,
           Inside(a, lo, hx, hy), Inside(b, lo, hx, hy), NEW n \in Nat \ {0}, NEW i \in 0..n
    PROVE  /\ SampleAt(a, b, n, i) \in Points
           /\ Inside(SampleAt(a, b, n, i), lo, hx, hy)
           /\ i = 0 => SampleAt(a, b, n, i) = a
<1>1. PICK u \in Int, v \in Int : /\ u = ((b.x - a.x) * i) \div n
                                  /\ v = ((b.y - a.y) * i) \div n
  <2>1. b.x - a.x \in Int /\ b.y - a.y \in Int
      BY DEF Points
  <2> QED
      BY <2>1, Between
<1>2. /\ b.x - a.x \in Int /\ b.y - a.y \in Int
      /\ a.x \in Int /\ b.x \in Int /\ a.y \in Int /\ b.y \in Int
    BY DEF Points
<1>3. /\ 0 <= b.x - a.x => 0 <= u /\ u <= b.x - a.x
      /\ b.x - a.x <= 0 => b.x - a.x <= u /\ u <= 0
      /\ 0 <= b.y - a.y => 0 <= v /\ v <= b.y - a.y
      /\ b.y - a.y <= 0 => b.y - a.y <= v /\ v <= 0
    BY <1>1, <1>2, Between
<1>4. SampleAt(a, b, n, i) = [x |-> a.x + u, y |-> a.y + v]
    BY <1>1 DEF SampleAt, Point
<1>5. i = 0 => u = 0 /\ v = 0
  <2>1. (b.x - a.x) * 0 = 0 /\ (b.y - a.y) * 0 = 0 /\ 0 \div n = 0
      BY <1>2
  <2> QED
      BY <1>1, <2>1
<1> QED
    BY <1>2, <1>3, <1>4, <1>5 DEF Inside, Points

LEMMA SegmentFacts ==
    ASSUME NEW a \in Points, NEW b \in Points, NEW lo \in Int, NEW hx \in Int, NEW hy \in Int,
           Inside(a, lo, hx, hy), Inside(b, lo, hx, hy), NEW step \in Nat \ {0},
           NEW e \in BOOLEAN
    PROVE  /\ Segment(a, b, step, e) \in Seq(Area(lo, hx, hy))
           /\ Len(Segment(a, b, step, e)) = StepsOf(a, b, step) + (IF e THEN 1 ELSE 0)
           /\ Len(Segment(a, b, step, e)) >= 1 /\ Segment(a, b, step, e)[1] = a
           /\ \A i \in 1..StepsOf(a, b, step) :
                Segment(a, b, step, e)[i] = SampleAt(a, b, StepsOf(a, b, step), i - 1)
<1> DEFINE S == Area(lo, hx, hy)
<1>1. PICK n \in Nat \ {0} : n = StepsOf(a, b, step)
    BY SegmentIs
<1>2. PICK f : /\ f = [i \in 1..StepsOf(a, b, step) |->
                            SampleAt(a, b, StepsOf(a, b, step), i - 1)]
               /\ f = [i \in 1..n |-> SampleAt(a, b, n, i - 1)]
    BY <1>1
<1>3. f \in Seq(S) /\ Len(f) = n /\ f[1] = a /\ b \in S
      /\ \A i \in 1..n : f[i] = SampleAt(a, b, n, i - 1)
  <2>1. \A i \in 1..n : i - 1 \in 0..n
      BY <1>1
  <2>2. \A i \in 1..n : SampleAt(a, b, n, i - 1) \in S
      BY <1>1, <2>1, SampleInside DEF Area
  <2>3. f \in [1..n -> S]
      BY <1>2, <2>2
  <2>4. SampleAt(a, b, n, 0) = a
      BY <1>1, SampleInside
  <2>5. b \in S
      BY DEF Area
  <2> HIDE DEF S
  <2>6. 1 - 1 = 0 /\ 1 \in 1..n
      BY <1>1
  <2>7. f[1] = a
      BY <1>2, <2>4, <2>6
  <2>8. f \in Seq(S) /\ Len(f) = n
      BY <1>1, <2>3
  <2> QED
      BY <1>2, <2>5, <2>7, <2>8
<1> HIDE DEF S
<1>4. /\ e = TRUE => Segment(a, b, step, e) = f \o <<b>>
      /\ e = FALSE => Segment(a, b, step, e) = f \o <<>>
  <2>1. /\ Segment(a, b, step, FALSE)
             = [i \in 1..StepsOf(a, b, step) |-> SampleAt(a, b, StepsOf(a, b, step), i - 1)] \o <<>>
        /\ Segment(a, b, step, TRUE)
             = [i \in 1..StepsOf(a, b, step) |-> SampleAt(a, b, StepsOf(a, b, step), i - 1)] \o <<b>>
      BY SegmentIs
  <2>2. Segment(a, b, step, FALSE) = f \o <<>> /\ Segment(a, b, step, TRUE) = f \o <<b>>
      BY <1>2, <2>1, Zenon
  <2> QED
      BY <2>2, Zenon
<1>5. /\ f \o <<>> \in Seq(S) /\ Len(f \o <<>>) = n /\ (f \o <<>>)[1] = a
      /\ \A i \in 1..n : (f \o <<>>)[i] = f[i]
    BY <1>1, <1>3
<1>6. /\ f \o <<b>> \in Seq(S) /\ Len(f \o <<b>>) = n + 1 /\ (f \o <<b>>)[1] = a
      /\ \A i \in 1..n : (f \o <<b>>)[i] = f[i]
    BY <1>1, <1>3
<1> DEFINE T == Segment(a, b, step, e)
<1>7. /\ T \in Seq(S) /\ Len(T) = n + (IF e THEN 1 ELSE 0) /\ T[1] = a
      /\ \A i \in 1..n : T[i] = f[i]
  <2>1. CASE e = TRUE
      BY <1>4, <1>6, <2>1
  <2>2. CASE e = FALSE
      BY <1>1, <1>4, <1>5, <2>2
  <2> QED
      BY <2>1, <2>2
<1>8. Len(T) >= 1
    BY <1>1, <1>7
<1> QED
    BY <1>1, <1>3, <1>7, <1>8 DEF S

\* The side that closes the border stops short of the corner the border began at.
LEMMA LastSample ==
    ASSUME NEW d \in Points, NEW a \in Points, d.x = a.x, a.y < d.y, NEW step \in Nat \ {0}
    PROVE  SampleAt(d, a, StepsOf(d, a, step), StepsOf(d, a, step) - 1) # a
<1> DEFINE h == d.y - a.y
           n == StepsOf(d, a, step)
           q == ((a.y - d.y) * (n - 1)) \div n
<1>1. h \in Nat /\ h >= 1 /\ Distance(d, a) = h /\ d.y \in Int /\ a.y \in Int
    BY DistanceType DEF Points, Absolute
<1>2. (h + step - 1) \div step \in Int /\ (h + step - 1) \div step <= h
  <2> DEFINE c == (h + step - 1) \div step
             r == (h + step - 1) - step * c
  <2>1. PICK m \in Int : m = h + step - 1
      BY <1>1
  <2>2. c \in Int /\ r \in Int /\ 0 <= r /\ r < step /\ h + step - 1 = step * c + r
      BY <2>1
  <2> HIDE DEF c, r, h
  <2>3. c <= h
    <3>1. SUFFICES ASSUME c >= h + 1 PROVE FALSE
        BY <1>1, <2>2
    <3>2. step * c >= step * (h + 1) /\ step * (h + 1) = step * h + step
        BY <1>1, <2>2, <3>1
    <3>3. step * h >= h
        BY <1>1
    <3> QED
        BY <1>1, <2>2, <3>2, <3>3
  <2> QED
      BY <2>2, <2>3 DEF c
<1>3. n \in Nat \ {0} /\ n <= h
    BY <1>1, <1>2 DEF StepsOf, Larger
<1> HIDE DEF n
<1>4. q \in Int /\ q >= 1 - h
  <2>1. (a.y - d.y) * (n - 1) = n * (1 - h) + (h - n)
    <3>1. a.y - d.y = -h /\ h \in Int
        BY <1>1
    <3> HIDE DEF h
    <3> QED
        BY <1>3, <3>1
  <2>2. PICK m \in Int, w \in Int : m = (a.y - d.y) * (n - 1) /\ w = 1 - h
      BY <1>1, <1>3
  <2>3. m = n * w + (h - n) /\ h - n >= 0 /\ h - n \in Int
      BY <1>1, <1>3, <2>1, <2>2
  <2>4. q = m \div n
      BY <2>2
  <2>5. m \div n \in Int /\ m < n * (m \div n) + n
      BY <1>3
  <2> HIDE DEF q, h
  <2>6. m \div n >= w
    <3>1. PICK t \in Int : t = m \div n
        BY <2>5
    <3>2. SUFFICES ASSUME t <= w - 1 PROVE FALSE
        BY <3>1
    <3>3. n * t <= n * (w - 1) /\ n * (w - 1) = n * w - n
        BY <1>3, <3>2
    <3> QED
        BY <1>3, <2>3, <2>5, <3>1, <3>3
  <2> QED
      BY <2>2, <2>4, <2>5, <2>6
<1>5. SampleAt(d, a, n, n - 1).y = d.y + q
    BY DEF SampleAt, Point
<1> HIDE DEF q
<1>6. d.y + q > a.y
    BY <1>1, <1>4
<1> QED
    BY <1>1, <1>5, <1>6 DEF n

GoodStrokes == {stroke \in [points : Seq(Points), closed : BOOLEAN] :
                    /\ Len(stroke.points) >= 1
                    /\ stroke.closed => Last(stroke.points) # stroke.points[1]}

\* The eight points about a centre.
LEMMA CircleFacts ==
    ASSUME NEW c \in Points, NEW radius \in Nat \ {0}
    PROVE  /\ Circle(c, radius) \in Seq(Points) /\ Len(Circle(c, radius)) = 8
           /\ Circle(c, radius)[8] # Circle(c, radius)[1]
           /\ \A i \in 1..8 : /\ c.x - radius <= Circle(c, radius)[i].x
                              /\ Circle(c, radius)[i].x <= c.x + radius
                              /\ c.y - radius <= Circle(c, radius)[i].y
                              /\ Circle(c, radius)[i].y <= c.y + radius
<1>1. PICK s \in Int : s = (radius * 7) \div 10 /\ 0 <= s /\ s <= radius
    OBVIOUS
<1>2. PICK by : by = <<Point(radius, 0), Point(s, s), Point(0, radius), Point(-s, s),
                       Point(-radius, 0), Point(-s, -s), Point(0, -radius), Point(s, -s)>>
    OBVIOUS
<1>3. Circle(c, radius) = [i \in 1..8 |-> Point(c.x + by[i].x, c.y + by[i].y)]
    BY <1>1, <1>2 DEF Circle
<1>4. /\ by[1] = Point(radius, 0) /\ by[2] = Point(s, s) /\ by[3] = Point(0, radius)
      /\ by[4] = Point(-s, s) /\ by[5] = Point(-radius, 0) /\ by[6] = Point(-s, -s)
      /\ by[7] = Point(0, -radius) /\ by[8] = Point(s, -s)
    BY <1>2
<1>5. ASSUME NEW i \in 1..8
      PROVE  /\ by[i].x \in Int /\ by[i].y \in Int
             /\ -radius <= by[i].x /\ by[i].x <= radius
             /\ -radius <= by[i].y /\ by[i].y <= radius
  <2>1. i = 1 \/ i = 2 \/ i = 3 \/ i = 4 \/ i = 5 \/ i = 6 \/ i = 7 \/ i = 8
      OBVIOUS
  <2> QED
      BY <1>1, <1>4, <2>1 DEF Point
<1>6. \A i \in 1..8 : /\ Circle(c, radius)[i].x = c.x + by[i].x
                      /\ Circle(c, radius)[i].y = c.y + by[i].y
                      /\ Circle(c, radius)[i] \in Points
    BY <1>3, <1>5 DEF Point, Points
<1>7. Circle(c, radius) \in Seq(Points) /\ Len(Circle(c, radius)) = 8
    BY <1>3, <1>6
<1>8. by[1].x = radius /\ by[1].y = 0 /\ by[8].x = s /\ by[8].y = -s
    BY <1>4 DEF Point
<1>9. c.x \in Int /\ c.y \in Int
    BY DEF Points
<1>10. Circle(c, radius)[8] # Circle(c, radius)[1]
  <2>1. CASE s = 0
      BY <1>6, <1>8, <1>9, <2>1
  <2>2. CASE s # 0
      BY <1>1, <1>6, <1>8, <1>9, <2>2
  <2> QED
      BY <2>1, <2>2
<1>11. ASSUME NEW i \in 1..8
       PROVE  /\ c.x - radius <= Circle(c, radius)[i].x
              /\ Circle(c, radius)[i].x <= c.x + radius
              /\ c.y - radius <= Circle(c, radius)[i].y
              /\ Circle(c, radius)[i].y <= c.y + radius
    BY <1>5, <1>6, <1>9
<1> QED
    BY <1>7, <1>10, <1>11

\* The dummy map: between the margins, four strokes of at least one point, and
\* the closed ones do not repeat theirs.
LEMMA DummyFacts ==
    ASSUME NEW p \in Sheets
    PROVE  /\ MakeDummyMap(p) \in [unit : {4}, strokes : Seq(GoodStrokes)]
           /\ InsideMargins(MakeDummyMap(p), p)
<1> DEFINE W == DrawableWidth(p)
           H == DrawableHeight(p)
           lo == p.margin * 4
           hx == lo + W * 4
           hy == lo + H * 4
           step == Larger(p.step * 4, 1)
           S == Area(lo, hx, hy)
           cA == Point(lo, lo)
           cB == Point(hx, lo)
           cC == Point(hx, hy)
           cD == Point(lo, hy)
           s1 == Segment(cA, cB, step, FALSE)
           s2 == Segment(cB, cC, step, FALSE)
           s3 == Segment(cC, cD, step, FALSE)
           s4 == Segment(cD, cA, step, FALSE)
           border == s1 \o s2 \o s3 \o s4
           d1 == Segment(cA, cC, step, TRUE)
           d2 == Segment(cB, cD, step, TRUE)
           radius == (Smaller(W, H) * 4) \div 4
           centre == Point((lo + hx) \div 2, (lo + hy) \div 2)
           round == Circle(centre, radius)
<1>1. MakeDummyMap(p) =
        [unit |-> 4,
         strokes |-> <<[points |-> border, closed |-> TRUE], [points |-> d1, closed |-> FALSE],
                       [points |-> d2, closed |-> FALSE], [points |-> round, closed |-> TRUE]>>]
  <2>1. PICK corner : corner = <<cA, cB, cC, cD>>
      OBVIOUS
  <2>2. corner[1] = cA /\ corner[2] = cB /\ corner[3] = cC /\ corner[4] = cD
      BY <2>1
  <2> QED
      BY DEF MakeDummyMap
<1>2. /\ W \in Nat \ {0} /\ H \in Nat \ {0} /\ p.margin \in Int /\ p.step \in Int
      /\ p.paperW - p.margin = p.margin + W /\ p.paperH - p.margin = p.margin + H
    BY DEF Sheets, Fits, DrawableWidth, DrawableHeight
<1> HIDE DEF W, H
<1>3. step \in Nat \ {0}
    BY <1>2 DEF Larger
<1>4. lo \in Int /\ hx \in Int /\ hy \in Int /\ lo < hx /\ lo < hy
    BY <1>2
<1> HIDE DEF step
<1>5. /\ cA \in Points /\ cB \in Points /\ cC \in Points /\ cD \in Points
      /\ Inside(cA, lo, hx, hy) /\ Inside(cB, lo, hx, hy)
      /\ Inside(cC, lo, hx, hy) /\ Inside(cD, lo, hx, hy)
      /\ cD.x = cA.x /\ cA.y < cD.y
  <2> HIDE DEF lo, hx, hy
  <2> QED
      BY <1>4 DEF Point, Points, Inside
<1>6. /\ radius \in Nat \ {0} /\ radius <= W /\ radius <= H
  <2>1. Smaller(W, H) \in Nat \ {0} /\ Smaller(W, H) <= W /\ Smaller(W, H) <= H
      BY <1>2 DEF Smaller
  <2> QED
      BY <2>1
<1>7. /\ centre \in Points
      /\ lo + radius <= centre.x /\ centre.x + radius <= hx
      /\ lo + radius <= centre.y /\ centre.y + radius <= hy
  <2>1. centre.x = (lo + hx) \div 2 /\ centre.y = (lo + hy) \div 2
      BY DEF Point
  <2>2. (lo + hx) \div 2 = lo + 2 * W /\ (lo + hy) \div 2 = lo + 2 * H
      BY <1>2
  <2>3. centre.x = lo + 2 * W /\ centre.y = lo + 2 * H
      BY <2>1, <2>2
  <2>4. centre \in Points
      BY <1>2, <1>4, <2>2 DEF Point, Points
  <2> HIDE DEF radius, centre
  <2> QED
      BY <1>2, <1>4, <1>6, <2>3, <2>4
<1> HIDE DEF cA, cB, cC, cD, lo, hx, hy, radius, centre
<1>8. /\ s1 \in Seq(S) /\ s2 \in Seq(S) /\ s3 \in Seq(S) /\ s4 \in Seq(S)
      /\ Len(s1) >= 1 /\ Len(s4) = StepsOf(cD, cA, step) /\ Len(s4) >= 1 /\ s1[1] = cA
      /\ s4[Len(s4)] = SampleAt(cD, cA, StepsOf(cD, cA, step), StepsOf(cD, cA, step) - 1)
  <2>1. /\ s1 \in Seq(S) /\ Len(s1) >= 1 /\ s1[1] = cA
      BY <1>3, <1>4, <1>5, SegmentFacts, ZenonT(40)
  <2>2. s2 \in Seq(S) /\ s3 \in Seq(S)
      BY <1>3, <1>4, <1>5, SegmentFacts
  <2>3. /\ s4 \in Seq(S) /\ Len(s4) = StepsOf(cD, cA, step)
        /\ Len(s4) >= 1
        /\ \A i \in 1..StepsOf(cD, cA, step) :
                s4[i] = SampleAt(cD, cA, StepsOf(cD, cA, step), i - 1)
    <3>1. ASSUME NEW a \in Points, NEW b \in Points, Inside(a, lo, hx, hy), Inside(b, lo, hx, hy)
          PROVE  /\ Segment(a, b, step, FALSE) \in Seq(S)
                 /\ Len(Segment(a, b, step, FALSE)) = StepsOf(a, b, step)
                 /\ Len(Segment(a, b, step, FALSE)) >= 1
                 /\ \A i \in 1..StepsOf(a, b, step) :
                      Segment(a, b, step, FALSE)[i] = SampleAt(a, b, StepsOf(a, b, step), i - 1)
      <4>1. PICK e \in BOOLEAN : e = FALSE
          OBVIOUS
      <4>2. /\ Segment(a, b, step, e) \in Seq(S)
            /\ Len(Segment(a, b, step, e)) = StepsOf(a, b, step) + (IF e THEN 1 ELSE 0)
            /\ Len(Segment(a, b, step, e)) >= 1
            /\ \A i \in 1..StepsOf(a, b, step) :
                      Segment(a, b, step, e)[i] = SampleAt(a, b, StepsOf(a, b, step), i - 1)
          BY <1>3, <1>4, <3>1, SegmentFacts
      <4>3. StepsOf(a, b, step) + 0 = StepsOf(a, b, step)
        <5>1. PICK n \in Nat : n = StepsOf(a, b, step)
            BY <1>3, SegmentIs
        <5> QED
            BY <5>1
      <4>4. (IF e THEN 1 ELSE 0) = 0
          BY <4>1
      <4> QED
          BY <4>1, <4>2, <4>3, <4>4, Zenon
    <3> HIDE DEF S
    <3> QED
        BY <1>5, <3>1, Zenon
  <2>4. StepsOf(cD, cA, step) \in Nat
      BY <1>3, <1>5, SegmentIs
  <2> HIDE DEF s1, s2, s3, s4, S
  <2> QED
      BY <2>1, <2>2, <2>3, <2>4
<1>9. s4[Len(s4)] # cA
    BY <1>3, <1>5, <1>8, LastSample
<1>10. /\ d1 \in Seq(S) /\ d2 \in Seq(S) /\ Len(d1) >= 1 /\ Len(d2) >= 1
    BY <1>3, <1>4, <1>5, SegmentFacts
<1>11. /\ round \in Seq(S) /\ Len(round) = 8 /\ round[8] # round[1]
  <2>1. /\ round \in Seq(Points) /\ Len(round) = 8 /\ round[8] # round[1]
        /\ \A i \in 1..8 : /\ centre.x - radius <= round[i].x /\ round[i].x <= centre.x + radius
                           /\ centre.y - radius <= round[i].y /\ round[i].y <= centre.y + radius
      BY <1>6, <1>7, CircleFacts
  <2> HIDE DEF round
  <2>2. PICK f \in Seq(Points) : f = round /\ Len(f) = 8
      BY <2>1, Zenon
  <2>3. ASSUME NEW i \in 1..8 PROVE f[i] \in S
    <3>0. f[i] \in Points
      <4>1. i \in 1..Len(f)
          BY <2>2
      <4> QED
          BY <2>2, <4>1, ElementOfSeq
    <3>1. f[i].x \in Int /\ f[i].y \in Int /\ centre.x \in Int /\ centre.y \in Int
        BY <1>7, <3>0 DEF Points
    <3>3. /\ centre.x - radius <= f[i].x /\ f[i].x <= centre.x + radius
          /\ centre.y - radius <= f[i].y /\ f[i].y <= centre.y + radius
        BY <2>1, <2>2, Zenon
    <3>2. lo <= f[i].x /\ f[i].x <= hx /\ lo <= f[i].y /\ f[i].y <= hy
      <4>1. PICK fx \in Int, fy \in Int, c1 \in Int, c2 \in Int, r \in Int, l \in Int,
                 u \in Int, v \in Int :
                /\ fx = f[i].x /\ fy = f[i].y /\ c1 = centre.x /\ c2 = centre.y /\ r = radius
                /\ l = lo /\ u = hx /\ v = hy
          BY <1>4, <1>6, <3>1
      <4>2. /\ c1 - r <= fx /\ fx <= c1 + r /\ c2 - r <= fy /\ fy <= c2 + r
            /\ l + r <= c1 /\ c1 + r <= u /\ l + r <= c2 /\ c2 + r <= v
          BY <1>7, <3>3, <4>1, Zenon
      <4>3. l <= fx /\ fx <= u /\ l <= fy /\ fy <= v
          BY <4>2
      <4> QED
          BY <4>1, <4>3, Zenon
    <3> QED
        BY <3>0, <3>2 DEF Area, Inside
  <2> HIDE DEF S
  <2>5. f \in Seq(S)
    <3>1. f \in [1..8 -> S]
      <4>1. DOMAIN f = 1..8 /\ f = [i \in DOMAIN f |-> f[i]]
          BY <2>2
      <4> QED
          BY <2>3, <4>1
    <3>2. PICK n \in Nat : n = 8
        OBVIOUS
    <3>3. f \in [1..n -> S]
        BY <3>1, <3>2, Zenon
    <3> QED
        BY <3>3
  <2> QED
      BY <2>1, <2>2, <2>5
<1> HIDE DEF s1, s2, s3, s4, d1, d2, round
<1>12. /\ border \in Seq(S) /\ Len(border) >= 1 /\ border[1] = cA
       /\ border[Len(border)] = s4[Len(s4)]
  <2> HIDE DEF S
  <2>0. s1 \o s2 \in Seq(S) /\ s1 \o s2 \o s3 \in Seq(S)
      BY <1>8, ConcatProperties
  <2>1. PICK t \in Seq(S) : t = s1 \o s2 \o s3
      BY <2>0, Zenon
  <2>2. Len(t) >= 1 /\ t[1] = cA
    <3>1. PICK u \in Seq(S) : u = s1 \o s2
        BY <2>0, Zenon
    <3>2. Len(u) >= 1 /\ u[1] = cA
        BY <1>8, <3>1
    <3> QED
        BY <1>8, <2>1, <3>1, <3>2
  <2>3. border = t \o s4
      BY <2>1
  <2> QED
      BY <1>8, <2>1, <2>2, <2>3
<1> HIDE DEF border
<1>13. S \subseteq Points
    BY DEF Area
<1>14. PICK z : z = <<[points |-> border, closed |-> TRUE], [points |-> d1, closed |-> FALSE],
                      [points |-> d2, closed |-> FALSE], [points |-> round, closed |-> TRUE]>>
    OBVIOUS
<1>15. /\ z[1] = [points |-> border, closed |-> TRUE] /\ z[2] = [points |-> d1, closed |-> FALSE]
       /\ z[3] = [points |-> d2, closed |-> FALSE] /\ z[4] = [points |-> round, closed |-> TRUE]
       /\ DOMAIN z = 1..4
    BY <1>14
<1>16. /\ border \in Seq(Points) /\ d1 \in Seq(Points) /\ d2 \in Seq(Points)
       /\ round \in Seq(Points)
  <2> HIDE DEF S
  <2> QED
      BY <1>10, <1>11, <1>12, <1>13
<1>17. z \in Seq(GoodStrokes)
  <2>1. [points |-> border, closed |-> TRUE] \in GoodStrokes
      BY <1>9, <1>12, <1>16 DEF GoodStrokes, Last
  <2>2. [points |-> d1, closed |-> FALSE] \in GoodStrokes
      BY <1>10, <1>16 DEF GoodStrokes
  <2>3. [points |-> d2, closed |-> FALSE] \in GoodStrokes
      BY <1>10, <1>16 DEF GoodStrokes
  <2>4. [points |-> round, closed |-> TRUE] \in GoodStrokes
    <3>1. Last(round) = round[8] /\ Len(round) >= 1
        BY <1>11 DEF Last
    <3> QED
        BY <1>11, <1>16, <3>1 DEF GoodStrokes
  <2> QED
      BY <1>14, <2>1, <2>2, <2>3, <2>4
<1>18. ASSUME NEW i \in 1..4, NEW k \in DOMAIN z[i].points
       PROVE  z[i].points[k] \in S
  <2>1. i = 1 \/ i = 2 \/ i = 3 \/ i = 4
      OBVIOUS
  <2>2. /\ z[1].points = border /\ z[2].points = d1 /\ z[3].points = d2
        /\ z[4].points = round
      BY <1>15
  <2> HIDE DEF S
  <2> QED
      BY <1>10, <1>11, <1>12, <1>18, <2>1, <2>2
<1>19. InsideMargins(MakeDummyMap(p), p)
  <2>1. (p.paperW - p.margin) * 4 = hx /\ (p.paperH - p.margin) * 4 = hy /\ p.margin * 4 = lo
      BY <1>2 DEF lo, hx, hy
  <2>2. MakeDummyMap(p).unit = 4 /\ MakeDummyMap(p).strokes = z
    <3>1. MakeDummyMap(p) = [unit |-> 4, strokes |-> z]
        BY <1>1, <1>14, Zenon
    <3> QED
        BY <3>1
  <2>3. \A q \in AllPoints(MakeDummyMap(p)) : q \in S
    <3>1. AllPoints(MakeDummyMap(p)) = UNION {ToSet(z[i].points) : i \in 1..4}
        BY <1>15, <2>2 DEF AllPoints
    <3> HIDE DEF S
    <3> QED
        BY <1>18, <3>1 DEF ToSet
  <2> QED
      BY <2>1, <2>2, <2>3 DEF InsideMargins, Inside, Area
<1> QED
    BY <1>1, <1>14, <1>17, <1>19

-----------------------------------------------------------------------------
(* Induction on numbers, and what a definition by recursion on them gives.   *)

Before == {pair \in Nat \X Nat : pair[1] < pair[2]}

LEMMA NatInd ==
    ASSUME NEW T \in SUBSET Nat, 0 \in T, \A n \in T : n + 1 \in T
    PROVE  T = Nat
<1>1. IsWellFoundedOn(Before, Nat)
    BY NatLessThanWellFounded, Zenon DEF OpToRel, Before
<1>2. SUFFICES ASSUME Nat \ T # {} PROVE FALSE
    OBVIOUS
<1>3. PICK x \in Nat \ T : \A y \in Nat \ T : ~ (<<y, x>> \in Before)
    BY <1>1, <1>2, WFMin
<1>4. \A y \in Nat \ T : ~ (y < x)
  <2> SUFFICES ASSUME NEW y \in Nat \ T, y < x PROVE FALSE
      OBVIOUS
  <2>1. <<y, x>> \in Before
      BY DEF Before
  <2> QED
      BY <1>3, <2>1
<1>5. x # 0 /\ x - 1 \in Nat /\ x - 1 < x
    BY <1>3
<1>6. x - 1 \in T
    BY <1>4, <1>5
<1>7. (x - 1) + 1 = x
    BY <1>3
<1> QED
    BY <1>3, <1>6, <1>7

LEMMA SeqInto ==
    ASSUME NEW S, NEW T, NEW s \in Seq(S), \A i \in 1..Len(s) : s[i] \in T
    PROVE  s \in Seq(T)
<1>1. PICK n \in Nat : n = Len(s)
    OBVIOUS
<1>2. DOMAIN s = 1..n /\ s = [i \in DOMAIN s |-> s[i]]
    BY <1>1
<1>3. s \in [1..n -> T]
    BY <1>1, <1>2
<1> QED
    BY <1>3

\* Numbers up to N.
LEMMA UpTo ==
    ASSUME NEW N \in Nat, NEW T, 0 \in T, \A n \in 0..N : n \in T /\ n < N => n + 1 \in T
    PROVE  \A n \in 0..N : n \in T
<1> DEFINE U == {n \in Nat : n <= N => n \in T}
<1>1. U \in SUBSET Nat /\ 0 \in U
    OBVIOUS
<1>2. ASSUME NEW n \in U PROVE n + 1 \in U
    OBVIOUS
<1> HIDE DEF U
<1>3. U = Nat
    BY <1>1, <1>2, NatInd
<1> QED
    BY <1>3 DEF U

Iterates(N, S, base, f) ==
    \E it \in [0..N -> S] : it[0] = base /\ \A n \in 1..N : it[n] = f[n][it[n - 1]]

LEMMA Recursion ==
    ASSUME NEW N \in Nat, NEW S, NEW base \in S, NEW f \in [1..N -> [S -> S]]
    PROVE  Iterates(N, S, base, f)
<1> DEFINE Partial(m, it) == /\ it = [n \in 0..m |-> IF n = 0 THEN base ELSE f[n][it[n - 1]]]
                          /\ it \in [0..m -> S]
           T == {m \in Nat : m <= N => \E it : Partial(m, it)}
<1>1. 0 \in T
  <2>1. Partial(0, [n \in 0..0 |-> base])
      OBVIOUS
  <2> HIDE DEF Partial
  <2> QED
      BY <2>1
<1>2. ASSUME NEW m \in T PROVE m + 1 \in T
  <2>0. m \in Nat /\ m + 1 \in Nat /\ (m + 1 <= N => m <= N)
      OBVIOUS
  <2>1. SUFFICES ASSUME m + 1 <= N PROVE \E it : Partial(m + 1, it)
      BY <2>0, Zenon
  <2>2. PICK it : Partial(m, it)
    <3> HIDE DEF Partial
    <3>1. m <= N => \E it : Partial(m, it)
        BY <1>2, Zenon
    <3> QED
        BY <2>0, <2>1, <3>1
  <2> DEFINE more == [n \in 0..(m + 1) |-> IF n = m + 1 THEN f[m + 1][it[m]] ELSE it[n]]
  <2>3. f[m + 1][it[m]] \in S
      BY <2>1, <2>2
  <2>4. more \in [0..(m + 1) -> S]
      BY <2>2, <2>3
  <2>5. \A n \in 0..(m + 1) : more[n] = IF n = 0 THEN base ELSE f[n][more[n - 1]]
    <3> SUFFICES ASSUME NEW n \in 0..(m + 1)
                 PROVE  more[n] = IF n = 0 THEN base ELSE f[n][more[n - 1]]
        OBVIOUS
    <3>1. CASE n = m + 1
        BY <2>2, <3>1, SMTT(30)
    <3>2. CASE n # m + 1
      <4>1. n \in 0..m /\ more[n] = it[n]
          BY <3>2
      <4>2. n # 0 => more[n - 1] = it[n - 1]
          BY <4>1
      <4>3. it[n] = IF n = 0 THEN base ELSE f[n][it[n - 1]]
          BY <2>2, <4>1
      <4> HIDE DEF more
      <4> QED
          BY <4>1, <4>2, <4>3, Zenon
    <3> QED
        BY <3>1, <3>2
  <2>6. more = [n \in 0..(m + 1) |-> IF n = 0 THEN base ELSE f[n][more[n - 1]]]
    <3> HIDE DEF more
    <3> QED
        BY <2>4, <2>5
  <2>7. Partial(m + 1, more)
      BY <2>4, <2>6
  <2> HIDE DEF Partial
  <2> QED
      BY <2>7
<1> HIDE DEF Partial, T
<1>3. T \in SUBSET Nat
    BY DEF T
<1>4. T = Nat
    BY <1>1, <1>2, <1>3, NatInd
<1>5. \E it : Partial(N, it)
  <2>1. N \in T /\ N <= N
      BY <1>4
  <2> QED
      BY <2>1, Zenon DEF T
<1>6. PICK it : Partial(N, it)
    BY <1>5
<1>7. it \in [0..N -> S] /\ it[0] = base /\ \A n \in 1..N : it[n] = f[n][it[n - 1]]
    BY <1>6 DEF Partial
<1> QED
    BY <1>7 DEF Iterates

-----------------------------------------------------------------------------
(* The map made of an image.                                                 *)

\* The polylines of an image: no two pixels that follow each other are the same.
LinesOf(size) ==
    {line \in Seq(PixelsOf(size)) : \A k \in 2..Len(line) : line[k] # line[k - 1]}

\* Strokes a map may have: between the margins, and a closed one does not repeat
\* its first point.
MarginStrokes(size, p) ==
    {stroke \in GoodStrokes :
        \A i \in DOMAIN stroke.points : BetweenMargins(stroke.points[i], size, p)}

LEMMA DistanceZero ==
    ASSUME NEW a \in Points, NEW b \in Points
    PROVE  Distance(a, b) = 0 <=> a = b
<1>1. a.x \in Int /\ a.y \in Int /\ b.x \in Int /\ b.y \in Int
    BY DEF Points
<1>2. Distance(a, b) = 0 <=> a.x = b.x /\ a.y = b.y
    BY <1>1 DEF Distance, Absolute
<1>3. a = [x |-> a.x, y |-> a.y] /\ b = [x |-> b.x, y |-> b.y]
    BY DEF Points
<1>4. a.x = b.x /\ a.y = b.y => a = b
    BY <1>3, Zenon
<1> QED
    BY <1>2, <1>4

\* Different pixels are put at different places.
LEMMA PixelsApart ==
    ASSUME NEW p \in Sheets, NEW size \in ImageSizes,
           NEW a \in PixelsOf(size), NEW b \in PixelsOf(size), a # b
    PROVE  /\ OnPaper(a, size, p) \in Points
           /\ OnPaper(a, size, p) # OnPaper(b, size, p)
<1>1. PICK s \in Nat : s = Scale(size, p)
    BY ScaleFits
<1>2. s # 0
  <2>1. PICK W \in Nat \ {0}, H \in Nat \ {0} : W = DrawableWidth(p) /\ H = DrawableHeight(p)
      BY DEF Sheets, Fits, DrawableWidth, DrawableHeight
  <2>2. PICK w \in Nat \ {0}, h \in Nat \ {0} : w = size.w /\ h = size.h
      BY DEF ImageSizes
  <2>3. W * h > 0 /\ H * w > 0
    <3>1. ASSUME NEW m \in Nat \ {0}, NEW n \in Nat \ {0} PROVE m * n > 0
        OBVIOUS
    <3> QED
        BY <3>1
  <2>4. s = W * h \/ s = H * w
      BY <1>1, <2>1, <2>2 DEF Scale, Smaller
  <2> QED
      BY <2>3, <2>4
<1>3. PICK cx \in Int, cy \in Int :
        /\ cx = p.margin * UnitOf(size) + DrawableWidth(p) * size.w * size.h - size.w * s
        /\ cy = p.margin * UnitOf(size) + DrawableHeight(p) * size.w * size.h - size.h * s
  <2>1. /\ DrawableWidth(p) \in Int /\ DrawableHeight(p) \in Int /\ p.margin \in Int
        /\ size.w \in Int /\ size.h \in Int /\ UnitOf(size) \in Int
      BY ScaleFits DEF Sheets, ImageSizes, UnitOf
  <2>2. ASSUME NEW m \in Int, NEW n \in Int PROVE m * n \in Int /\ m + n \in Int /\ m - n \in Int
      OBVIOUS
  <2> HIDE DEF UnitOf, DrawableWidth, DrawableHeight
  <2> QED
      BY <2>1, <2>2
<1>4. ASSUME NEW q \in PixelsOf(size)
      PROVE  OnPaper(q, size, p) = Point(cx + 2 * q.x * s, cy + 2 * q.y * s)
    BY <1>1, <1>3, <1>4 DEF OnPaper
<1>5. /\ a.x \in Int /\ a.y \in Int /\ b.x \in Int /\ b.y \in Int /\ (a.x # b.x \/ a.y # b.y)
    BY DEF PixelsOf, ImageSizes
<1>6. ASSUME NEW m \in Int, NEW n \in Int, m # n PROVE 2 * m * s # 2 * n * s
    BY <1>2, <1>6
<1>7. OnPaper(a, size, p) \in Points
    BY <1>4, <1>5 DEF Point, Points
<1>8. ASSUME NEW m \in Int PROVE 2 * m * s \in Int
    OBVIOUS
<1>9. cx + 2 * a.x * s # cx + 2 * b.x * s \/ cy + 2 * a.y * s # cy + 2 * b.y * s
  <2>1. PICK ax \in Int, ay \in Int, bx \in Int, by \in Int :
            /\ ax = 2 * a.x * s /\ ay = 2 * a.y * s /\ bx = 2 * b.x * s /\ by = 2 * b.y * s
      BY <1>5, <1>8
  <2>2. ax # bx \/ ay # by
      BY <1>5, <1>6, <2>1
  <2>3. cx + ax # cx + bx \/ cy + ay # cy + by
      BY <2>2
  <2> QED
      BY <2>1, <2>3
<1> QED
    BY <1>4, <1>7, <1>9 DEF Point

\* A line of the image becomes such a stroke (ScaleToPaper).
LEMMA StrokeFacts ==
    ASSUME NEW p \in Sheets, NEW size \in ImageSizes, NEW reach,
           NEW line \in LinesOf(size), Len(line) >= 2
    PROVE  Stroke([i \in DOMAIN line |-> OnPaper(line[i], size, p)], reach)
             \in MarginStrokes(size, p)
<1> DEFINE placed == [i \in DOMAIN line |-> OnPaper(line[i], size, p)]
           stroke == Stroke(placed, reach)
<1>1. line \in Seq(PixelsOf(size)) /\ \A k \in 2..Len(line) : line[k] # line[k - 1]
    BY DEF LinesOf
<1>2. \A i \in DOMAIN stroke.points : BetweenMargins(stroke.points[i], size, p)
    BY <1>1, LineOnPaper
<1>3. PICK N \in Nat : N = Len(line) /\ N >= 2 /\ DOMAIN line = 1..N
    BY <1>1
<1>4. \A i \in 1..N : line[i] \in PixelsOf(size)
    BY <1>1, <1>3
<1>5. PICK pixel \in PixelsOf(size) : pixel # line[1]
    BY <1>1, <1>3, <1>4
<1>6. \A i \in 1..N : OnPaper(line[i], size, p) \in Points
    BY <1>4, <1>5, PixelsApart
<1>7. placed \in [1..N -> Points]
    BY <1>3, <1>6
<1>8. placed \in Seq(Points) /\ Len(placed) = N
    BY <1>3, <1>7
<1>9. \A i \in 1..N : placed[i] = OnPaper(line[i], size, p)
    BY <1>3
<1> HIDE DEF placed
<1>10. placed[N] # placed[N - 1]
  <2>1. N \in 2..Len(line) /\ N - 1 \in 1..N /\ N \in 1..N
      BY <1>3
  <2> QED
      BY <1>1, <1>4, <1>9, <2>1, PixelsApart
<1>11. placed[1] \in Points /\ placed[N] \in Points /\ placed[N - 1] \in Points
    BY <1>3, <1>7
<1>12. PICK gap \in Nat : gap = Distance(placed[1], placed[N])
    BY <1>11, DistanceType
<1>13. gap = 0 <=> placed[1] = placed[N]
    BY <1>11, <1>12, DistanceZero
<1>14. PICK closed \in BOOLEAN : closed = (Len(placed) >= 3 /\ gap <= reach)
    OBVIOUS
<1>15. stroke = [points |-> IF closed /\ gap = 0 THEN Front(placed) ELSE placed,
                 closed |-> closed]
    BY <1>8, <1>12, <1>14 DEF Stroke, Last
<1>16. ASSUME closed /\ gap = 0 PROVE stroke \in MarginStrokes(size, p)
  <2>1. N >= 3
      BY <1>8, <1>14, <1>16
  <2>2. /\ Front(placed) \in Seq(Points) /\ Len(Front(placed)) = N - 1
        /\ \A i \in 1..(N - 1) : Front(placed)[i] = placed[i]
      BY <1>3, <1>8, <2>1 DEF Front
  <2>3. Last(Front(placed)) = placed[N - 1] /\ Front(placed)[1] = placed[1]
      BY <2>1, <2>2 DEF Last
  <2>4. placed[N - 1] # placed[1]
      BY <1>10, <1>13, <1>16
  <2>5. stroke.points = Front(placed) /\ stroke.closed = closed
        /\ stroke = [points |-> Front(placed), closed |-> closed]
      BY <1>15, <1>16
  <2>6. Len(Front(placed)) >= 1
      BY <2>1, <2>2
  <2> HIDE DEF stroke
  <2>7. stroke \in [points : Seq(Points), closed : BOOLEAN]
      BY <2>2, <2>5
  <2> QED
      BY <1>2, <2>3, <2>4, <2>5, <2>6, <2>7 DEF MarginStrokes, GoodStrokes
<1>17. ASSUME ~(closed /\ gap = 0) PROVE stroke \in MarginStrokes(size, p)
  <2>1. stroke.points = placed /\ stroke.closed = closed
        /\ stroke = [points |-> placed, closed |-> closed]
      BY <1>15, <1>17
  <2>2. closed => Last(placed) # placed[1]
      BY <1>8, <1>13, <1>17 DEF Last
  <2>3. Len(placed) >= 1
      BY <1>3, <1>8
  <2> HIDE DEF stroke
  <2>4. stroke \in [points : Seq(Points), closed : BOOLEAN]
      BY <1>8, <2>1
  <2> QED
      BY <1>2, <2>1, <2>2, <2>3, <2>4 DEF MarginStrokes, GoodStrokes
<1> QED
    BY <1>16, <1>17 DEF placed

\* The whole map (ScaleToPaper), and the one of an image of which no polyline is
\* found, as in this commit.
LEMMA ImageFacts ==
    ASSUME NEW p \in Sheets, NEW size \in ImageSizes, NEW polylines \in Seq(LinesOf(size))
    PROVE  LET m == ScaleToPaper(polylines, size, p)
           IN  /\ m.unit = UnitOf(size)
               /\ m.strokes \in Seq(MarginStrokes(size, p))
<1> DEFINE N == Len(polylines)
           M == MarginStrokes(size, p)
           one(n) == Stroke([i \in DOMAIN polylines[n] |-> OnPaper(polylines[n][i], size, p)],
                            p.step * UnitOf(size))
           rec(g) == g = [n \in 0..N |-> IF n = 0 THEN <<>>
                                         ELSE IF Len(polylines[n]) < 2 THEN g[n - 1]
                                         ELSE Append(g[n - 1], one(n))]
           it == CHOOSE g : rec(g)
<1>1. ScaleToPaper(polylines, size, p) = [unit |-> UnitOf(size), strokes |-> it[N]]
    BY DEF ScaleToPaper
<1>2. N \in Nat /\ \A n \in 1..N : polylines[n] \in LinesOf(size)
    OBVIOUS
<1>3. \A n \in 1..N : Len(polylines[n]) >= 2 => one(n) \in M
    BY <1>2, StrokeFacts
<1>4. \A n \in 1..N : Len(polylines[n]) \in Nat
    BY <1>2 DEF LinesOf
<1> HIDE DEF N, M, one
<1> DEFINE f == [n \in 1..N |-> [sofar \in Seq(M) |->
                    IF Len(polylines[n]) < 2 THEN sofar ELSE Append(sofar, one(n))]]
<1>5. f \in [1..N -> [Seq(M) -> Seq(M)]]
  <2>1. ASSUME NEW n \in 1..N, NEW sofar \in Seq(M)
        PROVE  (IF Len(polylines[n]) < 2 THEN sofar ELSE Append(sofar, one(n))) \in Seq(M)
    <3>1. CASE Len(polylines[n]) < 2
        BY <3>1
    <3>2. CASE ~(Len(polylines[n]) < 2)
      <4>1. one(n) \in M
          BY <1>3, <1>4, <3>2
      <4> QED
          BY <3>2, <4>1
    <3> QED
        BY <3>1, <3>2
  <2> QED
      BY <2>1
<1>6. <<>> \in Seq(M)
    OBVIOUS
<1>7. PICK g \in [0..N -> Seq(M)] : g[0] = <<>> /\ \A n \in 1..N : g[n] = f[n][g[n - 1]]
  <2> HIDE DEF f
  <2>1. Iterates(N, Seq(M), <<>>, f)
      BY <1>2, <1>5, <1>6, Recursion
  <2> QED
      BY <2>1 DEF Iterates
<1>8. ASSUME NEW n \in 0..N, n # 0, NEW sofar \in Seq(M)
      PROVE  f[n][sofar] = IF Len(polylines[n]) < 2 THEN sofar ELSE Append(sofar, one(n))
  <2>1. n \in 1..N
      BY <1>8
  <2> QED
      BY <2>1
<1> HIDE DEF f
<1>9. rec(g)
  <2>1. ASSUME NEW n \in 0..N
        PROVE  g[n] = IF n = 0 THEN <<>>
                      ELSE IF Len(polylines[n]) < 2 THEN g[n - 1] ELSE Append(g[n - 1], one(n))
    <3>1. CASE n = 0
        BY <1>7, <3>1
    <3>2. CASE n # 0
      <4>1. g[n - 1] \in Seq(M)
          BY <1>2, <1>7, <3>2
      <4>2. g[n] = f[n][g[n - 1]]
          BY <1>7, <3>2
      <4> QED
          BY <1>8, <3>2, <4>1, <4>2, Zenon
    <3> QED
        BY <3>1, <3>2
  <2> QED
      BY <1>7, <2>1
<1> HIDE DEF rec
<1>10. rec(it)
    BY <1>9, Zenon
<1> HIDE DEF it
<1>11. \A n \in 0..N : it[n] \in Seq(M)
  <2> DEFINE T == {n \in 0..N : it[n] \in Seq(M)}
  <2>0. \A n \in 0..N : it[n] = IF n = 0 THEN <<>>
                                ELSE IF Len(polylines[n]) < 2 THEN it[n - 1]
                                ELSE Append(it[n - 1], one(n))
      BY <1>10 DEF rec
  <2>1. 0 \in T
    <3>1. 0 \in 0..N
        BY <1>2
    <3>2. it[0] = <<>>
        BY <2>0, <3>1
    <3> QED
        BY <1>6, <3>1, <3>2
  <2>2. ASSUME NEW n \in 0..N, n \in T, n < N PROVE n + 1 \in T
    <3>1. n + 1 \in 0..N /\ n + 1 \in 1..N /\ n + 1 # 0 /\ (n + 1) - 1 = n
        BY <1>2, <2>2
    <3>2. it[n + 1] = IF Len(polylines[n + 1]) < 2 THEN it[n] ELSE Append(it[n], one(n + 1))
      <4>1. PICK k \in 0..N : k = n + 1 /\ k # 0 /\ k - 1 = n
          BY <3>1
      <4>2. it[k] = IF Len(polylines[k]) < 2 THEN it[k - 1] ELSE Append(it[k - 1], one(k))
          BY <2>0, <4>1
      <4> QED
          BY <4>1, <4>2
    <3>3. CASE Len(polylines[n + 1]) < 2
        BY <2>2, <3>1, <3>2, <3>3
    <3>4. CASE ~(Len(polylines[n + 1]) < 2)
      <4>1. one(n + 1) \in M
          BY <1>3, <1>4, <3>1, <3>4
      <4>2. Append(it[n], one(n + 1)) \in Seq(M)
          BY <2>2, <4>1
      <4> QED
          BY <3>1, <3>2, <3>4, <4>2
    <3> QED
        BY <3>3, <3>4
  <2> HIDE DEF T
  <2>3. \A n \in 0..N : n \in T
      BY <1>2, <2>1, <2>2, UpTo
  <2> QED
      BY <2>3 DEF T
<1>12. it[N] \in Seq(M)
    BY <1>2, <1>11
<1> QED
    BY <1>1, <1>12 DEF M

\* What the properties ask of a map.
GoodMap(m, p) ==
    /\ m.unit \in Nat \ {0}
    /\ m.strokes \in Seq(GoodStrokes)
    /\ InsideMargins(m, p)

LEMMA DummyGood ==
    ASSUME NEW p \in Sheets
    PROVE  GoodMap(MakeDummyMap(p), p)
<1>1. PICK m \in [unit : {4}, strokes : Seq(GoodStrokes)] : m = MakeDummyMap(p)
    BY DummyFacts
<1>2. InsideMargins(m, p)
    BY <1>1, DummyFacts
<1>3. m.unit = 4 /\ m.strokes \in Seq(GoodStrokes)
    OBVIOUS
<1> QED
    BY <1>1, <1>2, <1>3 DEF GoodMap

LEMMA ImageGood ==
    ASSUME NEW p \in Sheets, NEW size \in ImageSizes, NEW polylines \in Seq(LinesOf(size))
    PROVE  GoodMap(ScaleToPaper(polylines, size, p), p)
<1>1. PICK m : m = ScaleToPaper(polylines, size, p)
    OBVIOUS
<1>2. m.unit = UnitOf(size) /\ m.strokes \in Seq(MarginStrokes(size, p))
    BY <1>1, ImageFacts
<1>3. m.strokes \in Seq(GoodStrokes)
  <2>1. MarginStrokes(size, p) \subseteq GoodStrokes
      BY DEF MarginStrokes
  <2> QED
      BY <1>2, <2>1, SeqMonotonic
<1>4. UnitOf(size) \in Nat \ {0}
  <2>1. PICK w \in Nat \ {0}, h \in Nat \ {0} : w = size.w /\ h = size.h
      BY DEF ImageSizes
  <2>2. w * h \in Nat \ {0}
      BY <2>1
  <2> QED
      BY <2>1, <2>2, SMTT(30) DEF UnitOf
<1>5. ASSUME NEW q \in AllPoints(m) PROVE BetweenMargins(q, size, p)
  <2>1. PICK s \in DOMAIN m.strokes : q \in ToSet(m.strokes[s].points)
      BY DEF AllPoints
  <2>2. PICK k \in DOMAIN m.strokes[s].points : q = m.strokes[s].points[k]
      BY <2>1 DEF ToSet
  <2>3. m.strokes[s] \in MarginStrokes(size, p)
      BY <1>2
  <2> QED
      BY <2>2, <2>3 DEF MarginStrokes
<1>6. InsideMargins(m, p)
    BY <1>2, <1>5 DEF InsideMargins, BetweenMargins
<1> QED
    BY <1>1, <1>2, <1>3, <1>4, <1>6 DEF GoodMap

\* The maps of the states: the last one, and the one in map.csv.
MapsGood ==
    /\ params \in ParamSets
    /\ GoodMap(map, params)
    /\ \E p \in ParamSets : GoodMap(csvMap, p)

LEMMA MapsOf ==
    ASSUME NEW p \in ParamSets, Fits(p)
    PROVE  /\ p \in Sheets
           /\ GoodMap(MakeDummyMap(p), p)
           /\ \A size \in Sizes : GoodMap(BuildStrokeMap(size, p), p)
           /\ \A size \in Sizes : \A polylines \in Lines : GoodMap(ScaleToPaper(polylines, size, p), p)
<1>1. p \in Sheets
    BY DrawingAssumption DEF Sheets
<1>2. \A size \in Sizes : size \in ImageSizes
    BY DrawingAssumption DEF ImageSizes
<1>3. ASSUME NEW size \in Sizes PROVE ToPolylines \in Seq(LinesOf(size))
    BY DEF ToPolylines
<1>4. ASSUME NEW size \in Sizes PROVE GoodMap(BuildStrokeMap(size, p), p)
    BY <1>1, <1>2, <1>3, ImageGood DEF BuildStrokeMap
<1>5. ASSUME NEW size \in Sizes, NEW lines \in Lines PROVE lines \in Seq(LinesOf(size))
  <2>1. lines \in Seq(Seq([x : Nat, y : Nat]))
      BY DrawingAssumption
  <2>2. ASSUME NEW n \in 1..Len(lines) PROVE lines[n] \in LinesOf(size)
    <3>1. PICK line \in Seq([x : Nat, y : Nat]) : line = lines[n]
        BY <2>1
    <3>2. \A k \in DOMAIN line : /\ line[k].x <= size.w /\ line[k].y <= size.h
                                 /\ k > 1 => line[k] # line[k - 1]
      <4>1. /\ \A i \in DOMAIN lines : \A k \in DOMAIN lines[i] :
                /\ \A any \in Sizes : /\ lines[i][k].x <= any.w
                                          /\ lines[i][k].y <= any.h
                /\ k > 1 => lines[i][k] # lines[i][k - 1]
          BY DrawingAssumption, Zenon
      <4>2. n \in DOMAIN lines
          BY <2>1
      <4> QED
          BY <3>1, <4>1, <4>2, Zenon
    <3>3. \A k \in 1..Len(line) : line[k] \in PixelsOf(size)
      <4> SUFFICES ASSUME NEW k \in 1..Len(line) PROVE line[k] \in PixelsOf(size)
          OBVIOUS
      <4>0. line[k] \in [x : Nat, y : Nat] /\ k \in DOMAIN line
        <5>1. PICK pixels : pixels = [x : Nat, y : Nat]
            OBVIOUS
        <5>2. line \in Seq(pixels)
            BY <5>1, Zenon
        <5>3. line[k] \in pixels /\ k \in DOMAIN line
            BY <5>2
        <5> QED
            BY <5>1, <5>3, Zenon
      <4>1. PICK q \in [x : Nat, y : Nat] : q = line[k]
          BY <4>0, Zenon
      <4>2. q.x \in 0..size.w /\ q.y \in 0..size.h
          BY <1>2, <3>2, <4>0, <4>1 DEF ImageSizes
      <4>3. PICK u \in 0..size.w, v \in 0..size.h : q = [x |-> u, y |-> v]
          BY <4>2
      <4>4. q \in PixelsOf(size)
          BY <4>3 DEF PixelsOf
      <4> QED
          BY <4>1, <4>4, Zenon
    <3>4. line \in Seq(PixelsOf(size))
        BY <3>3, SeqInto, Zenon
    <3>5. \A k \in 2..Len(line) : line[k] # line[k - 1]
      <4> SUFFICES ASSUME NEW k \in 2..Len(line) PROVE line[k] # line[k - 1]
          OBVIOUS
      <4>1. k \in 1..Len(line) /\ k > 1 /\ DOMAIN line = 1..Len(line)
          OBVIOUS
      <4> QED
          BY <3>2, <4>1, Zenon
    <3> QED
        BY <3>1, <3>4, <3>5 DEF LinesOf
  <2> QED
      BY <2>1, <2>2, SeqInto, Zenon
<1>6. ASSUME NEW size \in Sizes, NEW lines \in Lines
      PROVE  GoodMap(ScaleToPaper(lines, size, p), p)
    BY <1>1, <1>2, <1>5, ImageGood
<1>7. GoodMap(MakeDummyMap(p), p)
    BY <1>1, DummyGood
<1> QED
    BY <1>1, <1>4, <1>6, <1>7

LEMMA MapsInvariant == Spec => []MapsGood
<1>1. Init => MapsGood
  <2> SUFFICES ASSUME Init PROVE MapsGood
      OBVIOUS
  <2>1. NoMap.unit = 1 /\ NoMap.strokes = <<>> /\ AllPoints(NoMap) = {}
    <3>1. NoMap.unit = 1 /\ NoMap.strokes = <<>>
        BY DEF NoMap
    <3> QED
        BY <3>1 DEF AllPoints
  <2>2. \A p : GoodMap(NoMap, p)
      BY <2>1 DEF GoodMap, InsideMargins
  <2> QED
      BY <2>2 DEF Init, MapsGood
<1>2. MapsGood /\ [Next]_toolVars => MapsGood'
  <2> SUFFICES ASSUME MapsGood, [Next]_toolVars PROVE MapsGood'
      OBVIOUS
  <2>1. ASSUME NEW p \in ParamSets, StrokeMapCli(p) PROVE MapsGood'
    <3>1. CASE Fails
        BY <3>1 DEF Fails, MapsGood
    <3>2. ASSUME Fits(p), params' = p,
                 map' \in {MakeDummyMap(p)} \cup {BuildStrokeMap(size, p) : size \in Sizes},
                 NEW svgOutcome \in Outcomes, NEW csvOutcome \in Outcomes,
                 SaveFiles(map', svgOutcome, csvOutcome)
          PROVE  MapsGood'
      <4>1. GoodMap(map', p)
          BY <3>2, MapsOf
      <4>2. csvMap' = csvMap \/ csvMap' = map'
          BY <3>2 DEF SaveFiles, CsvAfter
      <4> QED
          BY <3>2, <4>1, <4>2 DEF MapsGood
    <3> QED
        BY <2>1, <3>1, <3>2 DEF StrokeMapCli
  <2>2. ASSUME NEW p \in ParamSets, NEW size \in Sizes, NEW polylines \in Lines,
               LibraryCall(p, size, polylines)
        PROVE  MapsGood'
    <3>1. Fits(p) /\ params' = p /\ map' = ScaleToPaper(polylines, size, p) /\ csvMap' = csvMap
        BY <2>2 DEF LibraryCall
    <3>2. GoodMap(map', p)
        BY <3>1, MapsOf
    <3> QED
        BY <3>1, <3>2 DEF MapsGood
  <2>3. ASSUME NEW fromFile \in BOOLEAN, NEW dummy \in BOOLEAN, TraceCli(fromFile, dummy)
        PROVE  MapsGood'
      BY <2>3 DEF TraceCli, visionVars, MapsGood
  <2>4. CASE UNCHANGED toolVars
      BY <2>4 DEF toolVars, visionVars, MapsGood
  <2> QED
      BY <2>1, <2>2, <2>3, <2>4 DEF Next
<1> QED
    BY <1>1, <1>2, PTL DEF Spec

\* Whatever the paper and the image, every map a state holds lies between the
\* margins, and none of its closed strokes repeats its first point (ScaleToPaper,
\* MakeDummyMap).
THEOREM MapsInsideMargins == Spec => []PointsInsideMargins
<1>1. MapsGood => PointsInsideMargins
  <2> SUFFICES ASSUME MapsGood PROVE PointsInsideMargins
      OBVIOUS
  <2>1. map.strokes \in Seq(GoodStrokes) /\ InsideMargins(map, params)
      BY DEF MapsGood, GoodMap
  <2>2. ASSUME NEW s \in DOMAIN map.strokes, map.strokes[s].closed
        PROVE  Last(map.strokes[s].points) # map.strokes[s].points[1]
    <3>1. map.strokes[s] \in GoodStrokes
        BY <2>1
    <3> QED
        BY <2>2, <3>1 DEF GoodStrokes
  <2> QED
      BY <2>1, <2>2 DEF PointsInsideMargins
<1> QED
    BY <1>1, MapsInvariant, PTL

-----------------------------------------------------------------------------
(* What a fold from the left gives.                                          *)

LEMMA MaxOf ==
    ASSUME NEW N \in Nat, NEW u \in SUBSET (1..N), u # {}
    PROVE  Max(u) \in u /\ \A y \in u : y <= Max(u)
<1> DEFINE T == {m \in Nat : \A v \in SUBSET (1..m) :
                        v # {} => \E x \in v : \A y \in v : x >= y}
<1>1. 0 \in T
  <2>1. \A v \in SUBSET (1..0) : v = {}
      OBVIOUS
  <2> QED
      BY <2>1
<1>2. ASSUME NEW m \in T PROVE m + 1 \in T
  <2>1. m \in Nat /\ m + 1 \in Nat
      OBVIOUS
  <2>2. ASSUME NEW v \in SUBSET (1..(m + 1)), v # {} PROVE \E x \in v : \A y \in v : x >= y
    <3>1. CASE m + 1 \in v
        BY <2>1, <3>1
    <3>2. CASE m + 1 \notin v
      <4>1. v \in SUBSET (1..m)
          BY <2>1, <3>2
      <4>2. \A w \in SUBSET (1..m) : w # {} => \E x \in w : \A y \in w : x >= y
          BY <1>2, Zenon
      <4> QED
          BY <2>2, <4>1, <4>2, Zenon
    <3> QED
        BY <3>1, <3>2
  <2> QED
      BY <2>1, <2>2
<1> HIDE DEF T
<1>3. T \in SUBSET Nat
    BY DEF T
<1>4. T = Nat
    BY <1>1, <1>2, <1>3, NatInd
<1>5. \E x \in u : \A y \in u : x >= y
    BY <1>4, Zenon DEF T
<1>6. Max(u) \in u /\ \A y \in u : Max(u) >= y
    BY <1>5 DEF Max
<1>7. \A y \in u : y \in Int
    OBVIOUS
<1> QED
    BY <1>6, <1>7

LEMMA MaxFirst ==
    ASSUME NEW n \in Nat, n # 0
    PROVE  Max(1..n) = n /\ (1..n) \ {n} = 1..(n - 1) /\ 1..n # {}
<1>1. 1..n \in SUBSET (1..n) /\ n \in 1..n
    OBVIOUS
<1>2. Max(1..n) \in 1..n /\ \A y \in 1..n : y <= Max(1..n)
    BY <1>1, MaxOf
<1> QED
    BY <1>1, <1>2

\* A fold over the numbers up to N, taken the largest first.
FoldsUp(N, S, base, f) ==
    \E g \in [SUBSET (1..N) -> S] :
        \A u \in SUBSET (1..N) : g[u] = IF u = {} THEN base ELSE f[Max(u)][g[u \ {Max(u)}]]

LEMMA FoldRecursion ==
    ASSUME NEW N \in Nat, NEW S, NEW base \in S, NEW f \in [1..N -> [S -> S]]
    PROVE  FoldsUp(N, S, base, f)
<1> DEFINE T == {m \in Nat : m <= N => FoldsUp(m, S, base, f)}
<1>1. 0 \in T
  <2>1. SUBSET (1..0) = {{}}
      OBVIOUS
  <2>2. PICK g : g = [u \in SUBSET (1..0) |-> base]
      OBVIOUS
  <2>3. g \in [SUBSET (1..0) -> S] /\ \A u \in SUBSET (1..0) : u = {} /\ g[u] = base
      BY <2>1, <2>2
  <2>4. FoldsUp(0, S, base, f)
      BY <2>3 DEF FoldsUp
  <2> QED
      BY <2>4
<1>2. ASSUME NEW m \in T PROVE m + 1 \in T
  <2>0. m \in Nat /\ m + 1 \in Nat /\ (m + 1 <= N => m <= N)
      OBVIOUS
  <2>1. SUFFICES ASSUME m + 1 <= N PROVE FoldsUp(m + 1, S, base, f)
      BY <2>0, Zenon
  <2>2. FoldsUp(m, S, base, f)
      BY <2>0, <2>1
  <2>3. PICK g \in [SUBSET (1..m) -> S] :
            \A u \in SUBSET (1..m) : g[u] = IF u = {} THEN base ELSE f[Max(u)][g[u \ {Max(u)}]]
      BY <2>2 DEF FoldsUp
  <2>4. PICK k \in 1..N : k = m + 1
      BY <2>0, <2>1
  <2> DEFINE more == [u \in SUBSET (1..k) |-> IF k \in u THEN f[k][g[u \ {k}]] ELSE g[u]]
  <2>5. ASSUME NEW u \in SUBSET (1..k)
        PROVE  /\ k \in u => u \ {k} \in SUBSET (1..m) /\ Max(u) = k
               /\ k \notin u => u \in SUBSET (1..m)
               /\ u # {} => Max(u) \in u
    <3>1. \A i \in 1..k : i # k => i \in 1..m
        BY <2>0, <2>4
    <3>2. k \in u => u \ {k} \in SUBSET (1..m)
        BY <3>1
    <3>3. k \notin u => u \in SUBSET (1..m)
        BY <3>1
    <3>4. k \in Nat
        OBVIOUS
    <3>5. u # {} => Max(u) \in u /\ \A y \in u : y <= Max(u)
        BY <3>4, MaxOf
    <3>6. k \in u => Max(u) = k
      <4>1. SUFFICES ASSUME k \in u PROVE Max(u) = k
          OBVIOUS
      <4>2. Max(u) \in 1..k /\ k <= Max(u)
          BY <3>5, <4>1
      <4> QED
          BY <4>2
    <3> QED
        BY <3>2, <3>3, <3>5, <3>6
  <2>6. \A u \in SUBSET (1..k) : more[u] \in S
      BY <2>3, <2>5
  <2>7. more \in [SUBSET (1..k) -> S]
      BY <2>6
  <2>8. ASSUME NEW u \in SUBSET (1..k)
        PROVE  more[u] = IF u = {} THEN base ELSE f[Max(u)][more[u \ {Max(u)}]]
    <3>1. CASE k \in u
      <4>1. u # {} /\ Max(u) = k /\ u \ {k} \in SUBSET (1..k) /\ k \notin u \ {k}
          BY <2>5, <3>1
      <4>2. more[u \ {k}] = g[u \ {k}] /\ more[u] = f[k][g[u \ {k}]]
          BY <3>1, <4>1
      <4> HIDE DEF more
      <4> QED
          BY <4>1, <4>2, Zenon
    <3>2. CASE k \notin u
      <4>1. u \in SUBSET (1..m) /\ more[u] = g[u]
          BY <2>5, <3>2
      <4>2. u # {} => Max(u) \in u /\ u \ {Max(u)} \in SUBSET (1..k) /\ k \notin u \ {Max(u)}
          BY <2>5, <3>2
      <4>3. u # {} => more[u \ {Max(u)}] = g[u \ {Max(u)}]
          BY <4>2
      <4>4. g[u] = IF u = {} THEN base ELSE f[Max(u)][g[u \ {Max(u)}]]
          BY <2>3, <4>1, Zenon
      <4> HIDE DEF more
      <4> QED
          BY <4>1, <4>3, <4>4, Zenon
    <3> QED
        BY <3>1, <3>2
  <2> HIDE DEF more
  <2>9. FoldsUp(k, S, base, f)
      BY <2>7, <2>8 DEF FoldsUp
  <2> QED
      BY <2>4, <2>9
<1> HIDE DEF T
<1>3. T \in SUBSET Nat
    BY DEF T
<1>4. T = Nat
    BY <1>1, <1>2, <1>3, NatInd
<1>5. N \in T /\ N <= N
    BY <1>4
<1> QED
    BY <1>5, Zenon DEF T

\* What a recursion over sets of numbers gives for the whole of them is what the
\* steps give one after the other.
Folded(N, S, base, f, out) ==
    \E it \in [0..N -> S] : it[0] = base /\ it[N] = out /\ \A n \in 1..N : it[n] = f[n][it[n - 1]]

LEMMA FoldSteps ==
    ASSUME NEW N \in Nat, NEW S, NEW base \in S, NEW f \in [1..N -> [S -> S]],
           NEW iter, iter[{}] = base,
           \A u \in SUBSET (1..N) : u # {} /\ iter[u \ {Max(u)}] \in S =>
                iter[u] = f[Max(u)][iter[u \ {Max(u)}]]
    PROVE  Folded(N, S, base, f, iter[1..N])
<1> DEFINE it == [n \in 0..N |-> iter[1..n]]
<1>1. it[0] = base /\ it[N] = iter[1..N]
  <2>1. 1..0 = {} /\ 0 \in 0..N /\ N \in 0..N
      OBVIOUS
  <2> QED
      BY <2>1
<1>2. ASSUME NEW n \in 1..N, it[n - 1] \in S PROVE it[n] = f[n][it[n - 1]] /\ it[n] \in S
  <2>1. n \in Nat /\ n # 0 /\ 1..n \in SUBSET (1..N) /\ n \in 0..N /\ n - 1 \in 0..N
      OBVIOUS
  <2>2. Max(1..n) = n /\ (1..n) \ {n} = 1..(n - 1) /\ 1..n # {}
      BY <2>1, MaxFirst
  <2>3. it[n] = iter[1..n] /\ it[n - 1] = iter[1..(n - 1)]
      BY <2>1
  <2> HIDE DEF it
  <2>4. iter[1..n] = f[n][iter[1..(n - 1)]]
      BY <1>2, <2>1, <2>2, <2>3, Zenon
  <2>5. f[n][it[n - 1]] \in S
      BY <1>2
  <2> QED
      BY <2>3, <2>4, <2>5, Zenon
<1> HIDE DEF it
<1> DEFINE T == {n \in 0..N : it[n] \in S}
<1>3. 0 \in T
    BY <1>1
<1>4. ASSUME NEW n \in 0..N, n \in T, n < N PROVE n + 1 \in T
  <2>1. PICK k \in 1..N : k = n + 1 /\ k - 1 = n /\ k \in 0..N
      BY <1>4
  <2>2. it[k] \in S
      BY <1>2, <1>4, <2>1
  <2> QED
      BY <2>1, <2>2
<1> HIDE DEF T
<1>5. \A n \in 0..N : n \in T
    BY <1>3, <1>4, UpTo
<1>6. \A n \in 0..N : it[n] \in S
    BY <1>5 DEF T
<1>7. \A n \in 1..N : it[n] = f[n][it[n - 1]]
  <2> SUFFICES ASSUME NEW n \in 1..N PROVE it[n] = f[n][it[n - 1]]
      OBVIOUS
  <2>1. n - 1 \in 0..N
      OBVIOUS
  <2> QED
      BY <1>2, <1>6, <2>1
<1>8. it \in [0..N -> S]
  <2>1. it = [n \in 0..N |-> it[n]]
      BY DEF it
  <2> QED
      BY <1>6, <2>1
<1> QED
    BY <1>1, <1>7, <1>8 DEF Folded

\* Partial sums.
Sums(s, it) ==
    /\ it \in [0..Len(s) -> Int] /\ it[0] = 0
    /\ \A n \in 1..Len(s) : it[n] = it[n - 1] + s[n]
    /\ Total(s) = it[Len(s)]

LEMMA TotalSums ==
    ASSUME NEW s \in Seq(Int)
    PROVE  \E it : Sums(s, it)
<1> DEFINE N == Len(s)
           rec(g) == g = [u \in SUBSET DOMAIN s |->
                            IF u = {} THEN 0 ELSE g[u \ {Max(u)}] + s[Max(u)]]
           iter == CHOOSE g : rec(g)
<1>1. Total(s) = iter[DOMAIN s]
    BY DEF Total, FoldLeft, MapThenFoldSet
<1>2. N \in Nat /\ DOMAIN s = 1..N /\ \A n \in 1..N : s[n] \in Int
    OBVIOUS
<1> HIDE DEF N
<1> DEFINE f == [n \in 1..N |-> [sofar \in Int |-> sofar + s[n]]]
<1>3. f \in [1..N -> [Int -> Int]]
    BY <1>2
<1>4. \A n \in 1..N : \A sofar \in Int : f[n][sofar] = sofar + s[n]
    BY <1>2
<1> HIDE DEF f
<1>5. FoldsUp(N, Int, 0, f)
  <2>1. 0 \in Int
      OBVIOUS
  <2> QED
      BY <1>2, <1>3, <2>1, FoldRecursion, Zenon
<1>6. PICK g \in [SUBSET (1..N) -> Int] :
        \A u \in SUBSET (1..N) : g[u] = IF u = {} THEN 0 ELSE f[Max(u)][g[u \ {Max(u)}]]
    BY <1>5 DEF FoldsUp
<1>7. rec(g)
  <2>1. ASSUME NEW u \in SUBSET (1..N)
        PROVE  g[u] = IF u = {} THEN 0 ELSE g[u \ {Max(u)}] + s[Max(u)]
    <3>1. u # {} => Max(u) \in 1..N /\ g[u \ {Max(u)}] \in Int
        BY <1>2, MaxOf
    <3>2. g[u] = IF u = {} THEN 0 ELSE f[Max(u)][g[u \ {Max(u)}]]
        BY <1>6, Zenon
    <3> QED
        BY <1>4, <3>1, <3>2, Zenon
  <2> QED
      BY <1>2, <2>1
<1> HIDE DEF rec
<1>8. rec(iter)
    BY <1>7, Zenon
<1> HIDE DEF iter
<1>9. Folded(N, Int, 0, f, iter[1..N])
  <2>1. \A u \in SUBSET (1..N) :
            iter[u] = IF u = {} THEN 0 ELSE iter[u \ {Max(u)}] + s[Max(u)]
      BY <1>2, <1>8 DEF rec
  <2>2. iter[{}] = 0 /\ 0 \in Int
    <3>1. {} \in SUBSET (1..N)
        OBVIOUS
    <3>2. iter[{}] = 0
        BY <2>1, <3>1, Zenon
    <3> QED
        BY <3>2
  <2>3. ASSUME NEW u \in SUBSET (1..N), u # {}, iter[u \ {Max(u)}] \in Int
        PROVE  iter[u] = f[Max(u)][iter[u \ {Max(u)}]]
    <3>1. Max(u) \in 1..N
        BY <1>2, <2>3, MaxOf
    <3> QED
        BY <1>4, <2>1, <2>3, <3>1, Zenon
  <2> QED
      BY <1>2, <1>3, <2>2, <2>3, FoldSteps
<1>10. PICK it \in [0..N -> Int] :
            /\ it[0] = 0 /\ it[N] = iter[1..N]
            /\ \A n \in 1..N : it[n] = f[n][it[n - 1]]
    BY <1>9 DEF Folded
<1>11. \A n \in 1..N : it[n] = it[n - 1] + s[n]
  <2> SUFFICES ASSUME NEW n \in 1..N PROVE it[n] = it[n - 1] + s[n]
      OBVIOUS
  <2>1. n - 1 \in 0..N
      BY <1>2
  <2>2. it[n - 1] \in Int
      BY <1>10, <2>1
  <2> QED
      BY <1>4, <1>10, <2>2, Zenon
<1> QED
    BY <1>1, <1>2, <1>10, <1>11 DEF Sums, N

\* A sequence of sequences laid end to end: off[i] elements come from the first i.
Flat(seqs, out, off) ==
    /\ off \in [0..Len(seqs) -> Nat] /\ off[0] = 0
    /\ \A i \in 1..Len(seqs) : off[i] = off[i - 1] + Len(seqs[i])
    /\ Len(out) = off[Len(seqs)]
    /\ \A i \in 1..Len(seqs) : \A k \in 1..Len(seqs[i]) : out[off[i - 1] + k] = seqs[i][k]

\* Sequences appended one after the other.
LEMMA Concatenated ==
    ASSUME NEW T, NEW seqs \in Seq(Seq(T)), NEW fl \in [0..Len(seqs) -> Seq(T)], fl[0] = <<>>,
           \A n \in 1..Len(seqs) : fl[n] = fl[n - 1] \o seqs[n]
    PROVE  \E off : Flat(seqs, fl[Len(seqs)], off)
<1> DEFINE N == Len(seqs)
<1>1. N \in Nat /\ \A i \in 1..N : seqs[i] \in Seq(T)
    OBVIOUS
<1>2. fl \in [0..N -> Seq(T)] /\ fl[0] = <<>>
    OBVIOUS
<1>3. \A n \in 1..N : fl[n] = fl[n - 1] \o seqs[n]
    OBVIOUS
<1> HIDE DEF N
<1>4. PICK off \in [0..N -> Nat] : off[0] = 0 /\ \A i \in 1..N : off[i] = off[i - 1] + Len(seqs[i])
  <2> DEFINE f == [n \in 1..N |-> [sofar \in Nat |-> sofar + Len(seqs[n])]]
  <2>1. \A n \in 1..N : Len(seqs[n]) \in Nat
      BY <1>1
  <2>2. f \in [1..N -> [Nat -> Nat]]
      BY <2>1
  <2>3. \A n \in 1..N : \A sofar \in Nat : f[n][sofar] = sofar + Len(seqs[n])
      OBVIOUS
  <2> HIDE DEF f
  <2>4. Iterates(N, Nat, 0, f)
    <3>1. 0 \in Nat
        OBVIOUS
    <3> QED
        BY <1>1, <2>2, <3>1, Recursion, Zenon
  <2>5. PICK g \in [0..N -> Nat] : g[0] = 0 /\ \A n \in 1..N : g[n] = f[n][g[n - 1]]
      BY <2>4 DEF Iterates
  <2>6. \A n \in 1..N : g[n] = g[n - 1] + Len(seqs[n])
    <3> SUFFICES ASSUME NEW n \in 1..N PROVE g[n] = g[n - 1] + Len(seqs[n])
        OBVIOUS
    <3>1. g[n - 1] \in Nat
        BY <1>1, <2>5
    <3> QED
        BY <2>3, <2>5, <3>1
  <2> QED
      BY <2>5, <2>6
<1> DEFINE Laid(n) == /\ Len(fl[n]) = off[n]
                      /\ \A i \in 0..n : off[i] <= off[n]
                      /\ \A i \in 1..n : \A k \in 1..Len(seqs[i]) :
                            fl[n][off[i - 1] + k] = seqs[i][k]
           V == {n \in 0..N : Laid(n)}
<1>5. ASSUME NEW n \in 0..N, n \in V, n < N PROVE n + 1 \in V
  <2>1. PICK m \in 1..N : m = n + 1 /\ m - 1 = n /\ m \in 0..N
      BY <1>1, <1>5
  <2>2. off[m] = off[m - 1] + Len(seqs[m]) /\ Len(seqs[m]) \in Nat /\ off[m - 1] \in Nat
      BY <1>1, <1>4, <2>1, SMTT(30)
  <2>3. Laid(n) /\ fl[m] = fl[n] \o seqs[m]
    <3>1. Laid(n)
      <4> HIDE DEF Laid
      <4> QED
          BY <1>5
    <3>2. fl[m] = fl[m - 1] \o seqs[m]
        BY <1>3
    <3> QED
        BY <2>1, <3>1, <3>2, Zenon
  <2>4. PICK a \in Seq(T), b \in Seq(T) : a = fl[n] /\ b = seqs[m]
      BY <1>1, <1>2, <2>3
  <2>5. /\ Len(a \o b) = Len(a) + Len(b)
        /\ \A k \in 1..Len(a) : (a \o b)[k] = a[k]
        /\ \A k \in 1..Len(b) : (a \o b)[Len(a) + k] = b[k]
      OBVIOUS
  <2>6. Len(a) = off[n] /\ fl[m] = a \o b /\ off[m] = off[n] + Len(b) /\ Len(b) \in Nat
      BY <2>1, <2>2, <2>3, <2>4
  <2>7. ASSUME NEW i \in 1..m, NEW k \in 1..Len(seqs[i])
        PROVE  fl[m][off[i - 1] + k] = seqs[i][k]
    <3>1. CASE i = m
      <4>1. off[i - 1] = Len(a) /\ seqs[i] = b /\ fl[m] = a \o b
          BY <2>1, <2>4, <2>6, <3>1, Zenon
      <4> QED
          BY <2>5, <4>1, Zenon
    <3>2. CASE i # m
      <4>1. i \in 1..n /\ i \in 0..n /\ i \in 1..N
          BY <1>1, <2>1, <3>2
      <4>2. off[i] <= off[n] /\ off[i] = off[i - 1] + Len(seqs[i]) /\ off[i - 1] \in Nat
            /\ off[n] \in Nat /\ off[i] \in Nat /\ Len(seqs[i]) \in Nat
        <5>1. i - 1 \in 0..N /\ i \in 0..N /\ n \in 0..N
            BY <1>1, <4>1
        <5>2. off[i - 1] \in Nat /\ off[i] \in Nat /\ off[n] \in Nat
            BY <1>4, <5>1
        <5>3. off[i] <= off[n]
            BY <2>3, <4>1, Zenon
        <5>4. off[i] = off[i - 1] + Len(seqs[i])
            BY <1>4, <4>1, Zenon
        <5>5. Len(seqs[i]) \in Nat
            BY <1>1, <4>1
        <5> QED
            BY <5>2, <5>3, <5>4, <5>5
      <4>3. off[i - 1] + k \in 1..Len(a)
        <5>1. PICK x \in Nat, y \in Nat, z \in Nat, l \in Nat :
                  /\ x = off[i - 1] /\ y = off[i] /\ z = Len(a) /\ l = Len(seqs[i])
                  /\ y <= z /\ y = x + l
            BY <2>6, <4>2
        <5>2. PICK j \in 1..l : j = k
            BY <5>1, Zenon
        <5>3. x + j \in 1..z
          <6>1. j \in Nat /\ 1 <= j /\ j <= l
              OBVIOUS
          <6>2. x + j \in Nat /\ 1 <= x + j /\ x + j <= x + l
              BY <6>1
          <6> QED
              BY <5>1, <6>2
        <5> QED
            BY <5>1, <5>2, <5>3, Zenon
      <4>4. a[off[i - 1] + k] = seqs[i][k]
          BY <2>3, <2>4, <4>1
      <4> QED
          BY <2>5, <2>6, <4>3, <4>4
    <3> QED
        BY <3>1, <3>2
  <2>8. ASSUME NEW i \in 0..m PROVE off[i] <= off[m]
    <3>1. CASE i = m
      <4>1. off[m] \in Nat
          BY <1>4, <2>1
      <4> QED
          BY <3>1, <4>1
    <3>2. CASE i # m
      <4>1. i \in 0..n /\ i \in 0..N /\ n \in 0..N
          BY <1>1, <2>1, <3>2
      <4>2. off[n] \in Nat /\ off[i] \in Nat
          BY <1>4, <4>1
      <4>3. off[i] <= off[n]
          BY <2>3, <4>1, Zenon
      <4> QED
          BY <2>6, <4>2, <4>3
    <3> QED
        BY <3>1, <3>2
  <2>9. Len(fl[m]) = off[m]
      BY <2>5, <2>6
  <2>10. Laid(m)
      BY <2>7, <2>8, <2>9
  <2> QED
      BY <2>1, <2>10
<1>6. 0 \in V
  <2>1. Laid(0)
      BY <1>1, <1>4, <1>2
  <2> QED
      BY <1>1, <2>1
<1> HIDE DEF V
<1>7. \A n \in 0..N : n \in V
    BY <1>1, <1>5, <1>6, UpTo
<1>8. Laid(N)
    BY <1>1, <1>7 DEF V
<1> QED
    BY <1>4, <1>8 DEF Flat, N

LEMMA Flattened ==
    ASSUME NEW T, NEW seqs \in Seq(Seq(T))
    PROVE  FlattenSeq(seqs) \in Seq(T) /\ \E off : Flat(seqs, FlattenSeq(seqs), off)
<1> DEFINE N == Len(seqs)
           rec(g) == g = [i \in 1..N |-> IF i = 1 THEN seqs[i] ELSE g[i - 1] \o seqs[i]]
           fl == CHOOSE g : rec(g)
<1>1. FlattenSeq(seqs) = IF N = 0 THEN seqs ELSE fl[N]
    BY DEF FlattenSeq
<1>2. N \in Nat /\ (N = 0 => seqs = <<>>) /\ \A i \in 1..N : seqs[i] \in Seq(T)
    OBVIOUS
<1> HIDE DEF N
<1>3. PICK it \in [0..N -> Seq(T)] : it[0] = <<>> /\ \A n \in 1..N : it[n] = it[n - 1] \o seqs[n]
  <2> DEFINE f == [n \in 1..N |-> [sofar \in Seq(T) |-> sofar \o seqs[n]]]
  <2>1. f \in [1..N -> [Seq(T) -> Seq(T)]]
      BY <1>2
  <2>2. \A n \in 1..N : \A sofar \in Seq(T) : f[n][sofar] = sofar \o seqs[n]
      OBVIOUS
  <2> HIDE DEF f
  <2>3. Iterates(N, Seq(T), <<>>, f)
    <3>1. <<>> \in Seq(T)
        OBVIOUS
    <3> QED
        BY <1>2, <2>1, <3>1, Recursion, Zenon
  <2>4. PICK g \in [0..N -> Seq(T)] : g[0] = <<>> /\ \A n \in 1..N : g[n] = f[n][g[n - 1]]
      BY <2>3 DEF Iterates
  <2>5. ASSUME NEW n \in 1..N PROVE g[n] = g[n - 1] \o seqs[n]
    <3>1. n - 1 \in 0..N
        BY <1>2
    <3>2. g[n - 1] \in Seq(T)
        BY <2>4, <3>1
    <3> QED
        BY <2>2, <2>4, <3>2, Zenon
  <2> QED
      BY <2>4, <2>5
\* The recursion of FlattenSeq starts at the first sequence.
<1>4. \A n \in 1..N : it[n] \in Seq(T) /\ (n = 1 => it[n] = seqs[n])
  <2> SUFFICES ASSUME NEW n \in 1..N PROVE it[n] \in Seq(T) /\ (n = 1 => it[n] = seqs[n])
      OBVIOUS
  <2>1. it[n] \in Seq(T) /\ it[n] = it[n - 1] \o seqs[n] /\ seqs[n] \in Seq(T)
    <3>1. n \in 0..N
        BY <1>2
    <3> QED
        BY <1>2, <1>3, <3>1
  <2>2. CASE n = 1
    <3>1. it[n - 1] = <<>>
        BY <1>3, <2>2
    <3>2. <<>> \o seqs[n] = seqs[n]
        BY <2>1
    <3> QED
        BY <2>1, <3>1, <3>2, Zenon
  <2> QED
      BY <2>1, <2>2
<1>5. rec(fl)
  <2> DEFINE h == [n \in 1..N |-> it[n]]
  <2>1. ASSUME NEW n \in 1..N PROVE h[n] = IF n = 1 THEN seqs[n] ELSE h[n - 1] \o seqs[n]
    <3>1. n # 1 => n - 1 \in 1..N
        BY <1>2
    <3> QED
        BY <1>3, <1>4, <3>1
  <2>2. h = [n \in 1..N |-> IF n = 1 THEN seqs[n] ELSE h[n - 1] \o seqs[n]]
      BY <2>1
  <2> HIDE DEF h
  <2>3. rec(h)
      BY <2>2, Zenon
  <2> HIDE DEF rec
  <2> QED
      BY <2>3, Zenon
<1>6. \A n \in 1..N : fl[n] = IF n = 1 THEN seqs[n] ELSE fl[n - 1] \o seqs[n]
    BY <1>5
<1> HIDE DEF rec, fl
<1>7. \A n \in 1..N : fl[n] = it[n]
  <2> DEFINE U == {n \in 0..N : n # 0 => fl[n] = it[n]}
  <2>1. 0 \in U
      BY <1>2
  <2>2. ASSUME NEW n \in 0..N, n \in U, n < N PROVE n + 1 \in U
    <3>1. PICK k \in 1..N : k = n + 1 /\ k - 1 = n /\ k \in 0..N
        BY <1>2, <2>2
    <3>2. CASE k = 1
      <4>1. fl[k] = seqs[k]
          BY <1>6, <3>2, Zenon
      <4>2. fl[k] = it[k]
          BY <1>4, <3>2, <4>1, Zenon
      <4> QED
          BY <3>1, <4>2
    <3>3. CASE k # 1
      <4>1. n # 0
          BY <3>1, <3>3
      <4>2. fl[k - 1] = it[k - 1]
          BY <2>2, <3>1, <4>1
      <4>3. fl[k] = it[k]
          BY <1>3, <1>6, <3>3, <4>2, Zenon
      <4> QED
          BY <3>1, <4>3
    <3> QED
        BY <3>2, <3>3
  <2> HIDE DEF U
  <2>3. \A n \in 0..N : n \in U
      BY <1>2, <2>1, <2>2, UpTo
  <2>4. \A n \in 1..N : n \in 0..N /\ n # 0
      BY <1>2
  <2> QED
      BY <2>3, <2>4 DEF U
<1>8. FlattenSeq(seqs) = it[N]
  <2>1. CASE N = 0
      BY <1>1, <1>2, <1>3, <2>1
  <2>2. CASE N # 0
    <3>1. N \in 1..N
        BY <1>2, <2>2
    <3> QED
        BY <1>1, <1>7, <2>2, <3>1, Zenon
  <2> QED
      BY <2>1, <2>2
<1>9. it[N] \in Seq(T)
  <2>1. N \in 0..N
      BY <1>2
  <2> QED
      BY <1>3, <2>1
<1>10. \E off : Flat(seqs, it[N], off)
    BY <1>3, Concatenated DEF N
<1> QED
    BY <1>8, <1>9, <1>10, Zenon

-----------------------------------------------------------------------------
(* map.csv: what is written of a map and what is read back.                  *)

PrintedStrokes == {stroke \in [points : Seq(Points), closed : BOOLEAN] : Len(stroke.points) >= 1}
RowSet == [stroke : Int, at : Points, closed : BOOLEAN, fields : Nat]
ReadStrokes == [index : Int, points : Seq(Points), closed : BOOLEAN]

RowOf(P, s, k) == [stroke |-> s - 1, at |-> P[s].points[k], closed |-> P[s].closed, fields |-> 5]

\* The rows of a map: those of stroke s come after the first off[s - 1].
LaidOut(P, off, rows) ==
    /\ off \in [0..Len(P) -> Nat] /\ off[0] = 0
    /\ \A s \in 1..Len(P) : off[s] = off[s - 1] + Len(P[s].points)
    /\ Len(rows) = off[Len(P)]
    /\ \A s \in 1..Len(P) : \A k \in 1..Len(P[s].points) : rows[off[s - 1] + k] = RowOf(P, s, k)

LEMMA FixedType ==
    ASSUME NEW q \in Points, NEW unit \in Nat \ {0}
    PROVE  FixedPoint(q, unit) \in Points
<1>1. ASSUME NEW v \in Int PROVE Fixed(v, unit) \in Int
  <2>1. unit \div 2 \in Int
      OBVIOUS
  <2>2. v * 1000 + unit \div 2 \in Int
      BY <2>1
  <2> QED
      BY <2>2 DEF Fixed
<1>2. q.x \in Int /\ q.y \in Int
    BY DEF Points
<1> QED
    BY <1>1, <1>2 DEF FixedPoint, Point, Points

LEMMA PrintedFacts ==
    ASSUME NEW m, m.unit \in Nat \ {0}, m.strokes \in Seq(GoodStrokes)
    PROVE  /\ Printed(m) \in Seq(PrintedStrokes) /\ Len(Printed(m)) = Len(m.strokes)
           /\ Rows(m) \in Seq(RowSet)
           /\ \E off : LaidOut(Printed(m), off, Rows(m))
<1>1. PICK strokes \in Seq(GoodStrokes), unit \in Nat \ {0} : strokes = m.strokes /\ unit = m.unit
    OBVIOUS
<1>2. PICK N \in Nat : N = Len(strokes) /\ DOMAIN strokes = 1..N
    OBVIOUS
<1> DEFINE L(s) == Len(strokes[s].points)
           P == [s \in 1..N |->
                    [points |-> [k \in 1..L(s) |-> FixedPoint(strokes[s].points[k], unit)],
                     closed |-> strokes[s].closed]]
           rowsOf == [s \in 1..N |-> [k \in 1..L(s) |-> RowOf(P, s, k)]]
<1>3. ASSUME NEW s \in 1..N
      PROVE  /\ L(s) \in Nat /\ L(s) >= 1 /\ strokes[s].closed \in BOOLEAN
             /\ DOMAIN strokes[s].points = 1..L(s)
             /\ \A k \in 1..L(s) : FixedPoint(strokes[s].points[k], unit) \in Points
  <2>1. strokes[s] \in GoodStrokes
      BY <1>2
  <2>2. PICK pts \in Seq(Points) : pts = strokes[s].points /\ Len(pts) >= 1
      BY <2>1 DEF GoodStrokes
  <2>3. \A k \in 1..Len(pts) : FixedPoint(pts[k], unit) \in Points
    <3>1. \A k \in 1..Len(pts) : pts[k] \in Points
        OBVIOUS
    <3> QED
        BY <3>1, FixedType
  <2>4. Len(pts) \in Nat /\ DOMAIN pts = 1..Len(pts)
      OBVIOUS
  <2>5. strokes[s].closed \in BOOLEAN
      BY <2>1 DEF GoodStrokes
  <2> QED
      BY <2>2, <2>3, <2>4, <2>5, Zenon
<1>4. Printed(m) = P
    BY <1>1, <1>2, <1>3 DEF Printed
<1>5. Rows(m) = FlattenSeq(rowsOf)
  <2>1. Rows(m) = FlattenSeq([s \in 1..N |-> [k \in 1..L(s) |->
            [stroke |-> s - 1, at |-> FixedPoint(strokes[s].points[k], unit),
             closed |-> strokes[s].closed, fields |-> 5]]])
      BY <1>1, <1>2, <1>3 DEF Rows
  <2>2. \A s \in 1..N : \A k \in 1..L(s) :
            RowOf(P, s, k) = [stroke |-> s - 1, at |-> FixedPoint(strokes[s].points[k], unit),
                              closed |-> strokes[s].closed, fields |-> 5]
      BY DEF RowOf
  <2>3. rowsOf = [s \in 1..N |-> [k \in 1..L(s) |->
            [stroke |-> s - 1, at |-> FixedPoint(strokes[s].points[k], unit),
             closed |-> strokes[s].closed, fields |-> 5]]]
    <3> HIDE DEF P
    <3> QED
        BY <2>2
  <2> QED
      BY <2>1, <2>3, Zenon
<1>6. ASSUME NEW s \in 1..N
      PROVE  /\ P[s] \in PrintedStrokes /\ Len(P[s].points) = L(s)
             /\ \A k \in 1..L(s) : RowOf(P, s, k) \in RowSet
  <2>1. PICK pts : pts = [k \in 1..L(s) |-> FixedPoint(strokes[s].points[k], unit)]
      OBVIOUS
  <2>2. pts \in [1..L(s) -> Points]
      BY <1>3, <2>1
  <2>3. PICK n \in Nat : n = L(s) /\ n >= 1
      BY <1>3
  <2>4. pts \in Seq(Points) /\ Len(pts) = n
      BY <2>2, <2>3, SMTT(30)
  <2>5. P[s] = [points |-> pts, closed |-> strokes[s].closed]
      BY <2>1
  <2>6. P[s] \in [points : Seq(Points), closed : BOOLEAN] /\ P[s].points = pts
        /\ P[s].closed \in BOOLEAN
      BY <1>3, <2>4, <2>5
  <2> HIDE DEF P
  <2>7. \A k \in 1..L(s) : RowOf(P, s, k) \in RowSet
    <3> SUFFICES ASSUME NEW k \in 1..L(s) PROVE RowOf(P, s, k) \in RowSet
        OBVIOUS
    <3>1. pts[k] \in Points /\ s - 1 \in Int
        BY <2>2
    <3> QED
        BY <2>6, <3>1 DEF RowOf, RowSet
  <2> QED
      BY <2>3, <2>4, <2>6, <2>7 DEF PrintedStrokes
<1>7. P \in Seq(PrintedStrokes) /\ Len(P) = N
  <2>1. P \in [1..N -> PrintedStrokes]
      BY <1>6
  <2> QED
      BY <2>1
<1> HIDE DEF P
<1>8. rowsOf \in Seq(Seq(RowSet)) /\ Len(rowsOf) = N
      /\ \A s \in 1..N : Len(rowsOf[s]) = L(s) /\ \A k \in 1..L(s) : rowsOf[s][k] = RowOf(P, s, k)
  <2>1. ASSUME NEW s \in 1..N PROVE rowsOf[s] \in Seq(RowSet) /\ Len(rowsOf[s]) = L(s)
    <3>1. PICK n \in Nat : n = L(s)
        BY <1>3
    <3>2. rowsOf[s] \in [1..n -> RowSet]
        BY <1>6, <3>1
    <3> QED
        BY <3>1, <3>2
  <2>2. rowsOf \in [1..N -> Seq(RowSet)]
      BY <2>1
  <2>3. rowsOf \in Seq(Seq(RowSet)) /\ Len(rowsOf) = N
      BY <2>2
  <2>4. \A s \in 1..N : \A k \in 1..L(s) : rowsOf[s][k] = RowOf(P, s, k)
      OBVIOUS
  <2> QED
      BY <2>1, <2>3, <2>4
<1> HIDE DEF rowsOf, L
<1>9. PICK off : Flat(rowsOf, FlattenSeq(rowsOf), off) /\ FlattenSeq(rowsOf) \in Seq(RowSet)
    BY <1>8, Flattened
<1>10. LaidOut(P, off, FlattenSeq(rowsOf))
  <2>1. /\ off \in [0..N -> Nat] /\ off[0] = 0
        /\ \A i \in 1..N : off[i] = off[i - 1] + Len(rowsOf[i])
        /\ Len(FlattenSeq(rowsOf)) = off[N]
        /\ \A i \in 1..N : \A k \in 1..Len(rowsOf[i]) :
                FlattenSeq(rowsOf)[off[i - 1] + k] = rowsOf[i][k]
      BY <1>8, <1>9, Zenon DEF Flat
  <2>2. \A i \in 1..N : Len(rowsOf[i]) = Len(P[i].points)
      BY <1>6, <1>8, Zenon
  <2>3. \A i \in 1..N : off[i] = off[i - 1] + Len(P[i].points)
      BY <2>1, <2>2, Zenon
  <2>4. ASSUME NEW i \in 1..N, NEW k \in 1..Len(P[i].points)
        PROVE  FlattenSeq(rowsOf)[off[i - 1] + k] = RowOf(P, i, k)
    <3>1. k \in 1..Len(rowsOf[i]) /\ k \in 1..L(i)
        BY <1>6, <2>2, Zenon
    <3> QED
        BY <1>8, <2>1, <3>1, ZenonT(40)
  <2> QED
      BY <1>7, <2>1, <2>3, <2>4, Zenon DEF LaidOut
<1> QED
    BY <1>1, <1>2, <1>4, <1>5, <1>7, <1>9, <1>10

\* What is read of a beginning: the strokes before s, and k points of s, of which
\* q is the last.
Beginning(P, s, k, q, c) ==
    [i \in 1..s |-> IF i < s
        THEN [index |-> i - 1, points |-> P[i].points, closed |-> P[i].closed]
        ELSE [index |-> i - 1, points |-> Append(SubSeq(P[s].points, 1, k - 1), q), closed |-> c]]

IsBeginning(b, P, s, k, q, c) ==
    /\ b \in Seq(ReadStrokes) /\ Len(b) = s
    /\ \A i \in 1..s : i < s => b[i] = [index |-> i - 1, points |-> P[i].points,
                                        closed |-> P[i].closed]
    /\ b[s] = [index |-> s - 1, points |-> Append(SubSeq(P[s].points, 1, k - 1), q), closed |-> c]
    /\ Append(SubSeq(P[s].points, 1, k - 1), q) \in Seq(Points)
    /\ Len(Append(SubSeq(P[s].points, 1, k - 1), q)) = k

LEMMA BeginningFacts ==
    ASSUME NEW P \in Seq(PrintedStrokes), NEW s \in 1..Len(P), NEW k \in 1..Len(P[s].points),
           NEW q \in Points, NEW c \in BOOLEAN
    PROVE  IsBeginning(Beginning(P, s, k, q, c), P, s, k, q, c)
<1> DEFINE B == Beginning(P, s, k, q, c)
           pts == Append(SubSeq(P[s].points, 1, k - 1), q)
<1>1. ASSUME NEW i \in 1..s PROVE P[i].points \in Seq(Points) /\ P[i].closed \in BOOLEAN
  <2>1. P[i] \in PrintedStrokes
    <3>1. i \in 1..Len(P)
        OBVIOUS
    <3> QED
        BY <3>1, ElementOfSeq
  <2> QED
      BY <2>1 DEF PrintedStrokes
<1>2. pts \in Seq(Points) /\ Len(pts) = k
  <2>1. PICK p \in Seq(Points) : p = P[s].points /\ k \in 1..Len(p)
      BY <1>1
  <2>2. SubSeq(p, 1, k - 1) \in Seq(Points) /\ Len(SubSeq(p, 1, k - 1)) = k - 1
      BY <2>1, SubSeqProperties
  <2> QED
      BY <2>1, <2>2
<1>3. /\ \A i \in 1..s : i < s => B[i] = [index |-> i - 1, points |-> P[i].points,
                                          closed |-> P[i].closed]
      /\ B[s] = [index |-> s - 1, points |-> pts, closed |-> c] /\ DOMAIN B = 1..s
    BY DEF Beginning
<1> HIDE DEF pts
<1>4. \A i \in 1..s : B[i] \in ReadStrokes
  <2> SUFFICES ASSUME NEW i \in 1..s PROVE B[i] \in ReadStrokes
      OBVIOUS
  <2>1. CASE i < s
    <3>1. B[i] = [index |-> i - 1, points |-> P[i].points, closed |-> P[i].closed]
        BY <1>3, <2>1
    <3> QED
        BY <1>1, <3>1 DEF ReadStrokes
  <2>2. CASE ~(i < s)
    <3>1. i = s
        BY <2>2
    <3> QED
        BY <1>2, <1>3, <3>1 DEF ReadStrokes
  <2> QED
      BY <2>1, <2>2
<1>5. B \in [1..s -> ReadStrokes]
  <2>1. B = [i \in DOMAIN B |-> B[i]]
      BY DEF Beginning
  <2> QED
      BY <1>3, <1>4, <2>1
<1> HIDE DEF B
<1>6. B \in Seq(ReadStrokes) /\ Len(B) = s
  <2>1. PICK n \in Nat : n = s
      OBVIOUS
  <2> QED
      BY <1>5, <2>1
<1> QED
    BY <1>2, <1>3, <1>6, Zenon DEF B, pts, IsBeginning

LEMMA AppendReplaced ==
    ASSUME NEW S, NEW s \in Seq(S), NEW f \in S, NEW g \in S
    PROVE  [Append(s, f) EXCEPT ![Len(s) + 1] = g] = Append(s, g)
<1>1. PICK n \in Nat : n = Len(s) + 1 /\ n # 0 /\ n - 1 = Len(s)
    OBVIOUS
<1>2. Append(s, f) \in Seq(S) /\ Len(Append(s, f)) = Len(s) + 1
    BY AppendProperties
<1>3. /\ Append(s, g) \in Seq(S) /\ Len(Append(s, g)) = Len(s) + 1
      /\ Append(s, g)[Len(s) + 1] = g
      /\ \A i \in 1..Len(s) : Append(s, g)[i] = s[i] /\ Append(s, f)[i] = s[i]
    BY AppendProperties
<1>4. PICK a \in Seq(S) : a = Append(s, f)
    BY <1>2, Zenon
<1>5. PICK b \in Seq(S) : b = Append(s, g)
    BY <1>3, Zenon
<1>6. Len(a) = n /\ Len(b) = n /\ b[n] = g /\ \A i \in 1..n : i # n => b[i] = a[i]
    BY <1>1, <1>2, <1>3, <1>4, <1>5
<1>7. PICK e : e = [a EXCEPT ![n] = g]
    OBVIOUS
<1>8. e \in Seq(S) /\ Len(e) = n /\ \A i \in 1..n : e[i] = IF i = n THEN g ELSE a[i]
  <2>1. n \in 1..Len(a)
      BY <1>1, <1>6
  <2>2. /\ [a EXCEPT ![n] = g] \in Seq(S)
        /\ Len([a EXCEPT ![n] = g]) = Len(a)
        /\ \A j \in 1..Len(a) : [a EXCEPT ![n] = g][j] = IF j = n THEN g ELSE a[j]
      BY <2>1, ExceptSeq
  <2> QED
      BY <1>6, <1>7, <2>2, Zenon
<1>9. e = b
    BY <1>6, <1>8, SeqEqual
<1> QED
    BY <1>1, <1>4, <1>5, <1>7, <1>9, Zenon

LEMMA FieldsChanged ==
    ASSUME NEW st \in ReadStrokes, NEW x \in Seq(Points), NEW c \in BOOLEAN
    PROVE  [[st EXCEPT !.points = x] EXCEPT !.closed = c]
             = [index |-> st.index, points |-> x, closed |-> c]
<1>1. [st EXCEPT !.points = x] = [index |-> st.index, points |-> x, closed |-> st.closed]
    BY DEF ReadStrokes
<1>2. PICK mid \in ReadStrokes : mid = [st EXCEPT !.points = x]
    BY DEF ReadStrokes
<1>3. [mid EXCEPT !.closed = c] = [index |-> mid.index, points |-> mid.points, closed |-> c]
    BY DEF ReadStrokes
<1>4. mid.index = st.index /\ mid.points = x
    BY <1>1, <1>2
<1> QED
    BY <1>2, <1>3, <1>4, Zenon

\* A row read: into a new stroke, or into the last one.
LEMMA AddRowFacts ==
    ASSUME NEW sofar \in Seq(ReadStrokes), NEW row \in RowSet, NEW c \in BOOLEAN
    PROVE  /\ AddRow(sofar, row, c) \in Seq(ReadStrokes)
           /\ sofar = <<>> \/ row.stroke # Last(sofar).index =>
                AddRow(sofar, row, c) =
                  Append(sofar, [index |-> row.stroke, points |-> <<row.at>>, closed |-> c])
           /\ ~(sofar = <<>> \/ row.stroke # Last(sofar).index) =>
                /\ Len(sofar) >= 1
                /\ AddRow(sofar, row, c) =
                     [sofar EXCEPT ![Len(sofar)] =
                        [index |-> sofar[Len(sofar)].index,
                         points |-> Append(sofar[Len(sofar)].points, row.at), closed |-> c]]
<1> DEFINE fresh == [index |-> row.stroke, points |-> <<>>, closed |-> FALSE]
           open == IF sofar = <<>> \/ row.stroke # Last(sofar).index
                   THEN Append(sofar, fresh) ELSE sofar
           more == [open EXCEPT ![Len(open)].points = Append(@, row.at), ![Len(open)].closed = c]
<1>1. AddRow(sofar, row, c) = more
    BY DEF AddRow
<1>2. row.stroke \in Int /\ row.at \in Points
    BY DEF RowSet
<1>3. fresh \in ReadStrokes
    BY <1>2 DEF ReadStrokes
<1>4. open \in Seq(ReadStrokes) /\ Len(open) >= 1
  <2>1. CASE sofar = <<>> \/ row.stroke # Last(sofar).index
    <3>1. open = Append(sofar, fresh)
        BY <2>1
    <3> HIDE DEF fresh, open
    <3> QED
        BY <1>3, <3>1
  <2>2. CASE ~(sofar = <<>> \/ row.stroke # Last(sofar).index)
    <3>1. open = sofar /\ sofar # <<>>
        BY <2>2
    <3> HIDE DEF fresh, open
    <3> QED
        BY <3>1
  <2> QED
      BY <2>1, <2>2
<1>5. more = [open EXCEPT ![Len(open)] = [index |-> open[Len(open)].index,
                                          points |-> Append(open[Len(open)].points, row.at),
                                          closed |-> c]]
  <2> HIDE DEF open
  <2>1. PICK n : n = Len(open) /\ n \in DOMAIN open
      BY <1>4
  <2>2. PICK st \in ReadStrokes : st = open[n]
      BY <1>4, <2>1
  <2>3. st = [index |-> st.index, points |-> st.points, closed |-> st.closed]
      BY DEF ReadStrokes
  <2>4. [[st EXCEPT !.points = Append(@, row.at)] EXCEPT !.closed = c]
          = [index |-> st.index, points |-> Append(st.points, row.at), closed |-> c]
    <3>1. st.points \in Seq(Points)
        BY DEF ReadStrokes
    <3>2. Append(st.points, row.at) \in Seq(Points)
        BY <1>2, <3>1
    <3> QED
        BY <3>2, FieldsChanged
  <2>5. more = [open EXCEPT ![n] = [[st EXCEPT !.points = Append(@, row.at)] EXCEPT !.closed = c]]
      BY <2>1, <2>2
  <2> QED
      BY <2>1, <2>2, <2>4, <2>5, Zenon
<1> HIDE DEF more
<1>6. ASSUME NEW w \in Seq(ReadStrokes), Len(w) >= 1
      PROVE  [index |-> w[Len(w)].index, points |-> Append(w[Len(w)].points, row.at),
              closed |-> c] \in ReadStrokes
  <2>1. w[Len(w)] \in ReadStrokes
      BY <1>6
  <2> QED
      BY <1>2, <2>1 DEF ReadStrokes
<1>7. more \in Seq(ReadStrokes)
  <2> HIDE DEF open
  <2>1. PICK st \in ReadStrokes : more = [open EXCEPT ![Len(open)] = st]
      BY <1>4, <1>5, <1>6
  <2> QED
      BY <1>4, <2>1
<1>8. ASSUME sofar = <<>> \/ row.stroke # Last(sofar).index
      PROVE  more = Append(sofar, [index |-> row.stroke, points |-> <<row.at>>, closed |-> c])
  <2>1. open = Append(sofar, fresh)
      BY <1>8
  <2>2. PICK f \in ReadStrokes : f = fresh
      BY <1>3
  <2>3. f.index = row.stroke /\ f.points = <<>>
      BY <2>2
  <2> HIDE DEF fresh, open
  <2>4. Len(open) = Len(sofar) + 1 /\ open[Len(open)] = f
      BY <2>1, <2>2
  <2>5. Append(<<>>, row.at) = <<row.at>>
      OBVIOUS
  <2>6. PICK g \in ReadStrokes : g = [index |-> row.stroke, points |-> <<row.at>>, closed |-> c]
    <3>1. <<row.at>> \in Seq(Points)
        BY <1>2
    <3> QED
        BY <1>2, <3>1 DEF ReadStrokes
  <2>7. more = [Append(sofar, f) EXCEPT ![Len(sofar) + 1] = g]
      BY <1>5, <2>1, <2>2, <2>3, <2>4, <2>5, <2>6, Zenon
  <2>8. [Append(sofar, f) EXCEPT ![Len(sofar) + 1] = g] = Append(sofar, g)
    <3>1. PICK S : S = ReadStrokes
        OBVIOUS
    <3>2. sofar \in Seq(S) /\ f \in S /\ g \in S
        BY <3>1
    <3> QED
        BY <3>2, AppendReplaced
  <2> QED
      BY <2>6, <2>7, <2>8, Zenon
<1>9. ASSUME ~(sofar = <<>> \/ row.stroke # Last(sofar).index)
      PROVE  /\ Len(sofar) >= 1
             /\ more = [sofar EXCEPT ![Len(sofar)] =
                        [index |-> sofar[Len(sofar)].index,
                         points |-> Append(sofar[Len(sofar)].points, row.at), closed |-> c]]
  <2>1. open = sofar
      BY <1>9
  <2> QED
      BY <1>4, <1>5, <2>1, Zenon
<1> QED
    BY <1>1, <1>7, <1>8, <1>9

\* The strokes read after each row.
ReadBy(rows, it) ==
    /\ it \in [0..Len(rows) -> Seq(ReadStrokes)] /\ it[0] = <<>>
    /\ \A n \in 1..Len(rows) :
        it[n] = AddRow(it[n - 1], rows[n], rows[n].closed /\ rows[n].fields >= 5)
    /\ Load(rows) = Strokes(it[Len(rows)])

LEMMA LoadSteps ==
    ASSUME NEW rows \in Seq(RowSet)
    PROVE  \E it : ReadBy(rows, it)
<1> DEFINE N == Len(rows)
           c(n) == rows[n].closed /\ rows[n].fields >= 5
           R == Seq(ReadStrokes)
           rec(g) == g = [u \in SUBSET DOMAIN rows |->
                            IF u = {} THEN <<>>
                            ELSE AddRow(g[u \ {Max(u)}], rows[Max(u)],
                                        rows[Max(u)].closed /\ rows[Max(u)].fields >= 5)]
           iter == CHOOSE g : rec(g)
<1>1. Load(rows) = Strokes(iter[DOMAIN rows])
    BY DEF Load, FoldLeft, MapThenFoldSet
<1>2. N \in Nat /\ DOMAIN rows = 1..N /\ \A n \in 1..N : rows[n] \in RowSet
    OBVIOUS
<1>3. \A n \in 1..N : c(n) \in BOOLEAN
    BY <1>2 DEF RowSet
<1>4. <<>> \in R
    OBVIOUS
<1> HIDE DEF N, R
<1> DEFINE f == [n \in 1..N |-> [sofar \in R |-> AddRow(sofar, rows[n], c(n))]]
<1>5. f \in [1..N -> [R -> R]]
  <2>1. ASSUME NEW n \in 1..N, NEW sofar \in R PROVE AddRow(sofar, rows[n], c(n)) \in R
    <3> HIDE DEF c
    <3> QED
        BY <1>2, <1>3, AddRowFacts DEF R
  <2> HIDE DEF c
  <2> QED
      BY <2>1
<1>6. \A n \in 1..N : \A sofar \in R :
        f[n][sofar] = AddRow(sofar, rows[n], c(n)) /\ f[n][sofar] \in R
  <2> SUFFICES ASSUME NEW n \in 1..N, NEW sofar \in R
               PROVE  f[n][sofar] = AddRow(sofar, rows[n], c(n)) /\ f[n][sofar] \in R
      OBVIOUS
  <2>1. f[n][sofar] = AddRow(sofar, rows[n], c(n))
    <3> HIDE DEF c
    <3> QED
        OBVIOUS
  <2> HIDE DEF f, c
  <2> QED
      BY <1>5, <2>1
<1> HIDE DEF f
<1>7. FoldsUp(N, R, <<>>, f)
    BY <1>2, <1>4, <1>5, FoldRecursion, Zenon
<1>8. PICK g \in [SUBSET (1..N) -> R] :
        \A u \in SUBSET (1..N) : g[u] = IF u = {} THEN <<>> ELSE f[Max(u)][g[u \ {Max(u)}]]
    BY <1>7 DEF FoldsUp
<1>9. rec(g)
  <2>1. ASSUME NEW u \in SUBSET (1..N)
        PROVE  g[u] = IF u = {} THEN <<>>
                      ELSE AddRow(g[u \ {Max(u)}], rows[Max(u)], c(Max(u)))
    <3> HIDE DEF c
    <3>1. u # {} => Max(u) \in 1..N /\ g[u \ {Max(u)}] \in R
        BY <1>2, MaxOf
    <3>2. g[u] = IF u = {} THEN <<>> ELSE f[Max(u)][g[u \ {Max(u)}]]
        BY <1>8, Zenon
    <3> QED
        BY <1>6, <3>1, <3>2, Zenon
  <2> QED
      BY <1>2, <2>1, Zenon
<1> HIDE DEF rec
<1>10. rec(iter)
    BY <1>9, Zenon
<1> HIDE DEF iter
<1>11. \A u \in SUBSET (1..N) :
        iter[u] = IF u = {} THEN <<>> ELSE AddRow(iter[u \ {Max(u)}], rows[Max(u)], c(Max(u)))
    BY <1>2, <1>10 DEF rec
<1> HIDE DEF c
<1>12. Folded(N, R, <<>>, f, iter[1..N])
  <2>1. iter[{}] = <<>>
      BY <1>11
  <2>2. ASSUME NEW u \in SUBSET (1..N), u # {}, iter[u \ {Max(u)}] \in R
        PROVE  iter[u] = f[Max(u)][iter[u \ {Max(u)}]]
    <3>1. Max(u) \in 1..N
        BY <1>2, <2>2, MaxOf
    <3> QED
        BY <1>6, <1>11, <2>2, <3>1, Zenon
  <2> QED
      BY <1>2, <1>4, <1>5, <2>1, <2>2, FoldSteps
<1>13. PICK it \in [0..N -> R] :
            /\ it[0] = <<>> /\ it[N] = iter[1..N]
            /\ \A n \in 1..N : it[n] = f[n][it[n - 1]]
    BY <1>12 DEF Folded
<1>14. \A n \in 1..N : it[n] = AddRow(it[n - 1], rows[n], c(n))
  <2> SUFFICES ASSUME NEW n \in 1..N PROVE it[n] = AddRow(it[n - 1], rows[n], c(n))
      OBVIOUS
  <2>1. n - 1 \in 0..N
      BY <1>2
  <2>2. it[n - 1] \in R
      BY <1>13, <2>1
  <2> QED
      BY <1>6, <1>13, <2>2, Zenon
<1> QED
    BY <1>1, <1>2, <1>13, <1>14, Zenon DEF ReadBy, N, c, R

LEMMA SubSeqExtended ==
    ASSUME NEW S, NEW p \in Seq(S), NEW k \in 1..Len(p)
    PROVE  Append(SubSeq(p, 1, k - 1), p[k]) = SubSeq(p, 1, k)
<1>1. 1 \in 1..Len(p) /\ k \in 1..Len(p)
    OBVIOUS
<1>2. SubSeq(p, 1, k) = SubSeq(p, 1, k - 1) \o <<p[k]>>
    BY <1>1, SubSeqRecursiveSecond
<1>3. SubSeq(p, 1, k - 1) \in Seq(S) /\ p[k] \in S
    OBVIOUS
<1>4. Append(SubSeq(p, 1, k - 1), p[k]) = SubSeq(p, 1, k - 1) \o <<p[k]>>
    BY <1>3, AppendIsConcat
<1> QED
    BY <1>2, <1>4, Zenon

\* Where the reading stands after n rows of the map.
Stands(P, off, sofar, n) ==
    \/ n = 0 /\ sofar = <<>>
    \/ \E s \in 1..Len(P) : \E k \in 1..Len(P[s].points) :
        /\ n = off[s - 1] + k
        /\ sofar = Beginning(P, s, k, P[s].points[k], P[s].closed)

\* A row more: its point is put at its place.
OneMore(P, off, n, q, c, next) ==
    \E s \in 1..Len(P) : \E k \in 1..Len(P[s].points) :
        n = off[s - 1] + k /\ next = Beginning(P, s, k, q, c)

LEMMA NextRow ==
    ASSUME NEW P \in Seq(PrintedStrokes), NEW off, NEW all \in Seq(RowSet), LaidOut(P, off, all),
           NEW n \in 1..Len(all), NEW sofar \in Seq(ReadStrokes), Stands(P, off, sofar, n - 1),
           NEW row \in RowSet, row.stroke = all[n].stroke, NEW c \in BOOLEAN
    PROVE  OneMore(P, off, n, row.at, c, AddRow(sofar, row, c))
<1> DEFINE N == Len(P)
           L(s) == Len(P[s].points)
<1>1. N \in Nat /\ \A s \in 1..N : P[s].points \in Seq(Points) /\ L(s) \in Nat /\ L(s) >= 1
  <2>1. ASSUME NEW s \in 1..N
        PROVE  P[s].points \in Seq(Points) /\ L(s) \in Nat /\ L(s) >= 1
    <3>1. P[s] \in PrintedStrokes
        BY ElementOfSeq
    <3>2. P[s].points \in Seq(Points) /\ L(s) >= 1
        BY <3>1 DEF PrintedStrokes
    <3>3. L(s) \in Nat
        BY <3>2, LenProperties
    <3> QED
        BY <3>2, <3>3
  <2> QED
      BY <2>1
<1>2. /\ off \in [0..N -> Nat] /\ off[0] = 0
      /\ \A s \in 1..N : off[s] = off[s - 1] + L(s)
      /\ Len(all) = off[N]
      /\ \A s \in 1..N : \A k \in 1..L(s) : all[off[s - 1] + k].stroke = s - 1
  <2>1. \A s \in 1..N : \A k \in 1..L(s) : all[off[s - 1] + k] = RowOf(P, s, k)
      BY DEF LaidOut
  <2>2. \A s, k : RowOf(P, s, k).stroke = s - 1
      BY DEF RowOf
  <2>3. \A s \in 1..N : \A k \in 1..L(s) : all[off[s - 1] + k].stroke = s - 1
      BY <2>1, <2>2, Zenon
  <2> QED
      BY <2>3, Zenon DEF LaidOut
<1>3. row.at \in Points
    BY DEF RowSet
<1> HIDE DEF N, L
\* The row begins stroke s.
<1>4. ASSUME NEW s \in 1..N, n = off[s - 1] + 1,
             sofar = <<>> \/ Last(sofar).index # s - 1,
             Len(sofar) = s - 1,
             \A i \in 1..(s - 1) : sofar[i] = [index |-> i - 1, points |-> P[i].points,
                                               closed |-> P[i].closed]
      PROVE  AddRow(sofar, row, c) = Beginning(P, s, 1, row.at, c)
  <2>1. 1 \in 1..L(s) /\ row.stroke = s - 1
      BY <1>1, <1>2, <1>4
  <2>2. PICK g : g = [index |-> row.stroke, points |-> <<row.at>>, closed |-> c]
      OBVIOUS
  <2>3. AddRow(sofar, row, c) = Append(sofar, g) /\ AddRow(sofar, row, c) \in Seq(ReadStrokes)
      BY <1>4, <2>1, <2>2, AddRowFacts, SMTT(30)
  <2>4. s \in 1..Len(P) /\ 1 \in 1..Len(P[s].points)
      BY <2>1 DEF N, L
  <2>5. PICK B \in Seq(ReadStrokes) : /\ B = Beginning(P, s, 1, row.at, c)
                                      /\ IsBeginning(B, P, s, 1, row.at, c)
    <3>1. IsBeginning(Beginning(P, s, 1, row.at, c), P, s, 1, row.at, c)
        BY <1>3, <2>4, BeginningFacts
    <3> QED
        BY <3>1, Zenon DEF IsBeginning
  <2>6. /\ Len(B) = s
        /\ \A i \in 1..s : i < s => B[i] = [index |-> i - 1, points |-> P[i].points,
                                            closed |-> P[i].closed]
        /\ B[s] = [index |-> s - 1,
                   points |-> Append(SubSeq(P[s].points, 1, 1 - 1), row.at), closed |-> c]
      BY <2>5, Zenon DEF IsBeginning
  <2>7. Append(SubSeq(P[s].points, 1, 1 - 1), row.at) = <<row.at>>
    <3>1. P[s].points \in Seq(Points)
        BY <1>1
    <3>2. SubSeq(P[s].points, 1, 1 - 1) = <<>>
        BY <3>1
    <3>3. Append(<<>>, row.at) = <<row.at>>
        OBVIOUS
    <3> QED
        BY <3>2, <3>3, Zenon
  <2>8. B[s] = g
      BY <2>1, <2>2, <2>6, <2>7, Zenon
  <2>9. g \in ReadStrokes
    <3>1. s \in 1..Len(B)
        BY <2>6
    <3>2. B[s] \in ReadStrokes
        BY <3>1, ElementOfSeq
    <3> QED
        BY <2>8, <3>2
  <2>10. /\ Len(Append(sofar, g)) = s /\ Append(sofar, g)[s] = g
         /\ \A i \in 1..(s - 1) : Append(sofar, g)[i] = sofar[i]
    <3>1. Len(sofar) + 1 = s
        BY <1>4
    <3> QED
      <4>1. /\ Len(Append(sofar, g)) = Len(sofar) + 1 /\ Append(sofar, g)[Len(sofar) + 1] = g
            /\ \A i \in 1..Len(sofar) : Append(sofar, g)[i] = sofar[i]
          BY <2>9, AppendProperties
      <4> QED
          BY <1>4, <3>1, <4>1, Zenon
  <2>11. PICK A \in Seq(ReadStrokes) : A = Append(sofar, g)
      BY <2>3, Zenon
  <2>12. Len(A) = Len(B) /\ \A i \in 1..Len(A) : A[i] = B[i]
    <3>1. Len(A) = s /\ Len(B) = s
        BY <2>6, <2>10, <2>11
    <3>2. ASSUME NEW i \in 1..s PROVE A[i] = B[i]
      <4>1. CASE i = s
          BY <2>8, <2>10, <2>11, <4>1
      <4>2. CASE i # s
        <5>1. i < s /\ i \in 1..(s - 1)
            BY <4>2
        <5>2. A[i] = sofar[i] /\ sofar[i] = [index |-> i - 1, points |-> P[i].points,
                                            closed |-> P[i].closed]
            BY <1>4, <2>10, <2>11, <5>1, Zenon
        <5> QED
            BY <2>6, <5>1, <5>2, Zenon
      <4> QED
          BY <4>1, <4>2
    <3> QED
        BY <3>1, <3>2
  <2>13. A = B
      BY <2>12, SeqEqual
  <2> QED
      BY <2>3, <2>5, <2>11, <2>13, Zenon
<1>5. ASSUME n - 1 = 0, sofar = <<>>
      PROVE  \E s \in 1..N : \E k \in 1..L(s) :
                n = off[s - 1] + k /\ AddRow(sofar, row, c) = Beginning(P, s, k, row.at, c)
  <2>1. n = 1 /\ N # 0 /\ 1 \in 1..N /\ 1 - 1 = 0
      BY <1>1, <1>2, <1>5
  <2>2. n = off[1 - 1] + 1 /\ 1 \in 1..L(1)
      BY <1>1, <1>2, <2>1
  <2>3. Len(sofar) = 1 - 1 /\ 1..(1 - 1) = {}
      BY <1>5
  <2>4. AddRow(sofar, row, c) = Beginning(P, 1, 1, row.at, c)
      BY <1>4, <1>5, <2>1, <2>2, <2>3
  <2> QED
      BY <2>1, <2>2, <2>4
<1>6. ASSUME NEW s \in 1..N, NEW k \in 1..L(s), n - 1 = off[s - 1] + k,
             sofar = Beginning(P, s, k, P[s].points[k], P[s].closed)
      PROVE  \E t \in 1..N : \E l \in 1..L(t) :
                n = off[t - 1] + l /\ AddRow(sofar, row, c) = Beginning(P, t, l, row.at, c)
  <2>1. PICK p \in Seq(Points) : p = P[s].points
      BY <1>1
  <2>2. s \in 1..Len(P) /\ k \in 1..Len(P[s].points) /\ k \in 1..Len(p) /\ L(s) = Len(p)
      BY <2>1 DEF N, L
  <2>3. p[k] \in Points /\ P[s].closed \in BOOLEAN
    <3>1. P[s] \in PrintedStrokes
        BY <2>2, ElementOfSeq
    <3> QED
        BY <2>2, <3>1 DEF PrintedStrokes
  <2>4. PICK last : last = [index |-> s - 1, points |-> Append(SubSeq(p, 1, k - 1), p[k]),
                            closed |-> P[s].closed]
      OBVIOUS
  <2>5. /\ Len(sofar) = s
        /\ \A i \in 1..s : i < s => sofar[i] = [index |-> i - 1, points |-> P[i].points,
                                                closed |-> P[i].closed]
        /\ sofar[s] = last
    <3>1. p[k] = P[s].points[k]
        BY <2>1
    <3>2. PICK q \in Points, d \in BOOLEAN : q = P[s].points[k] /\ d = P[s].closed
        BY <2>3, <3>1
    <3>3. PICK b : b = Beginning(P, s, k, q, d)
        OBVIOUS
    <3>4. /\ Len(b) = s
          /\ \A i \in 1..s : i < s => b[i] = [index |-> i - 1, points |-> P[i].points,
                                              closed |-> P[i].closed]
          /\ b[s] = [index |-> s - 1, points |-> Append(SubSeq(P[s].points, 1, k - 1), q), closed |-> d]
      <4>1. IsBeginning(b, P, s, k, q, d)
          BY <2>2, <3>3, BeginningFacts
      <4> QED
          BY <4>1, Zenon DEF IsBeginning
    <3>5. b = sofar
        BY <1>6, <3>2, <3>3, Zenon
    <3> QED
        BY <2>1, <2>4, <3>1, <3>2, <3>4, <3>5, Zenon
  <2>6. sofar # <<>> /\ Last(sofar) = last /\ last.index = s - 1
      BY <2>4, <2>5 DEF Last
  <2>7. Append(SubSeq(p, 1, k - 1), p[k]) = SubSeq(p, 1, k)
      BY <2>2, SubSeqExtended
  <2>8. CASE k = L(s)
    <3>1. last = [index |-> s - 1, points |-> P[s].points, closed |-> P[s].closed]
      <4>1. SubSeq(p, 1, k) = p
          BY <2>2, <2>8, SubSeqFull
      <4> QED
          BY <2>1, <2>4, <2>7, <4>1, Zenon
    <3>2. off[s] = off[s - 1] + L(s) /\ off[s] \in Nat /\ n = off[s] + 1
      <4>1. off[s] \in Nat /\ off[s - 1] \in Nat /\ L(s) \in Nat
          BY <1>1, <1>2
      <4> QED
          BY <1>2, <1>6, <2>8, <4>1
    <3>3. s # N
        BY <1>2, <3>2
    <3>4. PICK t \in 1..N : t = s + 1 /\ t - 1 = s
        BY <1>1, <3>3
    <3>5. n = off[t - 1] + 1 /\ 1 \in 1..L(t)
        BY <1>1, <3>2, <3>4, SMTT(30)
    <3>6. \A i \in 1..(t - 1) : sofar[i] = [index |-> i - 1, points |-> P[i].points,
                                            closed |-> P[i].closed]
      <4> SUFFICES ASSUME NEW i \in 1..(t - 1)
                   PROVE  sofar[i] = [index |-> i - 1, points |-> P[i].points, closed |-> P[i].closed]
          OBVIOUS
      <4>1. CASE i = s
          BY <2>5, <3>1, <4>1
      <4>2. CASE i # s
        <5>1. i \in 1..s /\ i < s
            BY <3>4, <4>2
        <5> QED
            BY <2>5, <5>1, Zenon
      <4> QED
          BY <4>1, <4>2
    <3>7. Last(sofar).index # t - 1 /\ Len(sofar) = t - 1
        BY <2>5, <2>6, <3>4
    <3>8. AddRow(sofar, row, c) = Beginning(P, t, 1, row.at, c)
        BY <1>4, <3>5, <3>6, <3>7, Zenon
    <3> QED
        BY <3>5, <3>8, Zenon
  <2>9. CASE k # L(s)
    <3>1. PICK l \in 1..L(s) : l = k + 1 /\ l - 1 = k
        BY <1>1, <2>9
    <3>2. n = off[s - 1] + l
      <4>1. off[s - 1] \in Nat
          BY <1>1, <1>2, SMTT(30)
      <4>2. PICK o \in Nat, j \in Nat : o = off[s - 1] /\ j = k /\ n - 1 = o + j /\ l = j + 1
          BY <1>6, <3>1, <4>1
      <4>3. PICK m \in Int : m = n
          OBVIOUS
      <4>4. m - 1 = o + j
          BY <4>2, <4>3, Zenon
      <4>5. m = o + (j + 1)
          BY <4>4, SMT
      <4> QED
          BY <4>2, <4>3, <4>5, Zenon
    <3>3. row.stroke = s - 1
        BY <1>2, <3>2
    <3>4. PICK g : g = [index |-> s - 1, points |-> Append(SubSeq(p, 1, l - 1), row.at), closed |-> c]
        OBVIOUS
    <3>5. /\ AddRow(sofar, row, c) = [sofar EXCEPT ![s] = g]
          /\ AddRow(sofar, row, c) \in Seq(ReadStrokes)
      <4>1. ~(sofar = <<>> \/ row.stroke # Last(sofar).index)
          BY <2>6, <3>3
      <4>2. /\ AddRow(sofar, row, c) =
                 [sofar EXCEPT ![Len(sofar)] =
                        [index |-> sofar[Len(sofar)].index,
                         points |-> Append(sofar[Len(sofar)].points, row.at), closed |-> c]]
            /\ AddRow(sofar, row, c) \in Seq(ReadStrokes)
          BY <4>1, AddRowFacts, Zenon
      <4>3. sofar[Len(sofar)].index = s - 1
            /\ sofar[Len(sofar)].points = SubSeq(p, 1, l - 1)
          BY <2>4, <2>5, <2>7, <3>1
      <4> QED
          BY <2>5, <3>4, <4>2, <4>3, Zenon
    <3>6. l \in 1..Len(P[s].points)
        BY <3>1 DEF L
    <3>7. PICK B \in Seq(ReadStrokes) : /\ B = Beginning(P, s, l, row.at, c)
                                        /\ IsBeginning(B, P, s, l, row.at, c)
      <4>1. IsBeginning(Beginning(P, s, l, row.at, c), P, s, l, row.at, c)
          BY <1>3, <2>2, <3>6, BeginningFacts
      <4> QED
          BY <4>1, Zenon DEF IsBeginning
    <3>8. /\ Len(B) = s /\ B[s] = g
          /\ \A i \in 1..s : i < s => B[i] = [index |-> i - 1, points |-> P[i].points,
                                              closed |-> P[i].closed]
      <4>1. /\ Len(B) = s
            /\ \A i \in 1..s : i < s => B[i] = [index |-> i - 1, points |-> P[i].points,
                                                closed |-> P[i].closed]
            /\ B[s] = [index |-> s - 1, points |-> Append(SubSeq(P[s].points, 1, l - 1), row.at),
                       closed |-> c]
          BY <3>7, Zenon DEF IsBeginning
      <4> QED
          BY <2>1, <3>4, <4>1, Zenon
    <3>9. s \in 1..Len(sofar) /\ s \in 1..Len(B)
        BY <2>5, <3>8
    <3>10. g \in ReadStrokes
        BY <3>8, <3>9, ElementOfSeq
    <3>11. PICK A \in Seq(ReadStrokes) : A = [sofar EXCEPT ![s] = g]
        BY <3>5, Zenon
    <3>12. Len([sofar EXCEPT ![s] = g]) = Len(sofar)
           /\ \A j \in 1..Len(sofar) : [sofar EXCEPT ![s] = g][j] = IF j = s THEN g ELSE sofar[j]
        BY <3>9, <3>10, ExceptSeq
    <3>13. Len(A) = s /\ \A j \in 1..s : A[j] = IF j = s THEN g ELSE sofar[j]
        BY <2>5, <3>11, <3>12, Zenon
    <3>14. \A j \in 1..s : A[j] = B[j]
      <4> SUFFICES ASSUME NEW j \in 1..s PROVE A[j] = B[j]
          OBVIOUS
      <4>1. CASE j = s
          BY <3>8, <3>13, <4>1, Zenon
      <4>2. CASE j # s
        <5>1. j < s
            BY <4>2
        <5> QED
            BY <2>5, <3>8, <3>13, <4>2, <5>1, Zenon
      <4> QED
          BY <4>1, <4>2
    <3>15. A = B
        BY <3>8, <3>13, <3>14, SeqEqual
    <3> QED
        BY <3>2, <3>5, <3>7, <3>11, <3>15, Zenon
  <2> QED
      BY <2>8, <2>9
<1>7. CASE n - 1 = 0 /\ sofar = <<>>
    BY <1>5, <1>7, Zenon DEF N, L, OneMore
<1>8. ASSUME NEW s \in 1..Len(P), NEW k \in 1..Len(P[s].points), n - 1 = off[s - 1] + k,
             sofar = Beginning(P, s, k, P[s].points[k], P[s].closed)
      PROVE  \E t \in 1..Len(P) : \E l \in 1..Len(P[t].points) :
                n = off[t - 1] + l /\ AddRow(sofar, row, c) = Beginning(P, t, l, row.at, c)
    BY <1>6, <1>8, Zenon DEF N, L
<1> QED
    BY <1>7, <1>8, Zenon DEF Stands, OneMore

LEMMA ReadsOn ==
    ASSUME NEW P \in Seq(PrintedStrokes), NEW off, NEW all \in Seq(RowSet), LaidOut(P, off, all),
           NEW rows \in Seq(RowSet), NEW it, ReadBy(rows, it),
           NEW upto \in 0..Len(rows), upto <= Len(all), \A n \in 1..upto : rows[n] = all[n]
    PROVE  \A n \in 0..upto : Stands(P, off, it[n], n)
<1> DEFINE T == {n \in 0..upto : Stands(P, off, it[n], n)}
<1>1. 0 \in T
  <2>1. it[0] = <<>>
      BY DEF ReadBy
  <2> QED
      BY <2>1 DEF Stands
<1>2. ASSUME NEW n \in 0..upto, n \in T, n < upto PROVE n + 1 \in T
  <2>1. PICK m \in 1..upto : m = n + 1 /\ m - 1 = n /\ m \in 0..upto
      BY <1>2
  <2>2. m \in 1..Len(rows) /\ m \in 1..Len(all) /\ n \in 0..Len(rows)
      BY <1>2, <2>1
  <2>3. PICK row \in RowSet : row = all[m] /\ rows[m] = row
    <3>1. all[m] \in RowSet
        BY <2>2, ElementOfSeq
    <3> QED
        BY <3>1
  <2>4. PICK c \in BOOLEAN : c = (row.closed /\ row.fields >= 5)
      OBVIOUS
  <2>5. it[m] = AddRow(it[n], row, c) /\ it[n] \in Seq(ReadStrokes)
    <3>1. it[m] = AddRow(it[m - 1], rows[m], rows[m].closed /\ rows[m].fields >= 5)
        BY <2>2, Zenon DEF ReadBy
    <3>2. it[n] \in Seq(ReadStrokes)
        BY <2>2 DEF ReadBy
    <3> QED
        BY <2>1, <2>3, <2>4, <3>1, <3>2, Zenon
  <2>6. PICK sofar \in Seq(ReadStrokes) : sofar = it[n]
      BY <2>5
  <2>7. Stands(P, off, sofar, m - 1)
      BY <1>2, <2>1, <2>6, Zenon
  <2>0. PICK s \in 1..Len(P) : \E k \in 1..Len(P[s].points) :
            m = off[s - 1] + k /\ AddRow(sofar, row, c) = Beginning(P, s, k, row.at, c)
    <3>1. row.stroke = all[m].stroke
        BY <2>3, Zenon
    <3>2. OneMore(P, off, m, row.at, c, AddRow(sofar, row, c))
        BY <2>2, <2>7, <3>1, NextRow
    <3> QED
        BY <3>2 DEF OneMore
  <2>8. PICK k \in 1..Len(P[s].points) :
            m = off[s - 1] + k /\ AddRow(sofar, row, c) = Beginning(P, s, k, row.at, c)
      BY <2>0
  <2>9. row = RowOf(P, s, k)
      BY <2>3, <2>8, Zenon DEF LaidOut
  <2>10. row.at = P[s].points[k] /\ row.closed = P[s].closed /\ row.fields = 5
      BY <2>9 DEF RowOf
  <2>11. c = P[s].closed
    <3>1. P[s].closed \in BOOLEAN
      <4>1. P[s] \in PrintedStrokes
          BY ElementOfSeq
      <4> QED
          BY <4>1 DEF PrintedStrokes
    <3>2. (row.fields >= 5) = TRUE
        BY <2>10
    <3>3. c = (row.closed /\ TRUE)
        BY <2>4, <3>2, Zenon
    <3> QED
        BY <2>10, <3>1, <3>3, Zenon
  <2>12. it[m] = Beginning(P, s, k, P[s].points[k], P[s].closed)
      BY <2>5, <2>6, <2>8, <2>10, <2>11, Zenon
  <2>13. Stands(P, off, it[m], m)
      BY <2>8, <2>12, Zenon DEF Stands
  <2> QED
      BY <2>1, <2>13
<1> HIDE DEF T
<1>3. upto \in Nat
    OBVIOUS
<1>4. \A n \in 0..upto : n \in T
    BY <1>1, <1>2, <1>3, UpTo
<1> QED
    BY <1>4 DEF T

\* A beginning of the map: its last stroke may be short.
BeginningOf(strokes, P) ==
    /\ Len(strokes) <= Len(P)
    /\ \A s \in DOMAIN strokes :
        /\ Len(strokes[s].points) <= Len(P[s].points)
        /\ s < Len(strokes) => strokes[s] = P[s]

LEMMA StrokesBegin ==
    ASSUME NEW P \in Seq(PrintedStrokes), NEW s \in 1..Len(P), NEW k \in 1..Len(P[s].points),
           NEW q \in Points, NEW c \in BOOLEAN
    PROVE  /\ BeginningOf(Strokes(Beginning(P, s, k, q, c)), P)
           /\ s = Len(P) /\ k = Len(P[s].points) /\ q = P[s].points[k] /\ c = P[s].closed =>
                Strokes(Beginning(P, s, k, q, c)) = P
<1>1. PICK b \in Seq(ReadStrokes) : /\ b = Beginning(P, s, k, q, c)
                                    /\ IsBeginning(b, P, s, k, q, c)
  <2>1. IsBeginning(Beginning(P, s, k, q, c), P, s, k, q, c)
      BY BeginningFacts
  <2> QED
      BY <2>1, Zenon DEF IsBeginning
<1>2. PICK pts \in Seq(Points) : /\ pts = Append(SubSeq(P[s].points, 1, k - 1), q)
                                 /\ Len(pts) = k /\ b[s] = [index |-> s - 1, points |-> pts, closed |-> c]
    BY <1>1, Zenon DEF IsBeginning
<1>3. /\ Len(b) = s /\ DOMAIN b = 1..s
      /\ \A i \in 1..s : i < s => b[i] = [index |-> i - 1, points |-> P[i].points,
                                          closed |-> P[i].closed]
  <2>1. Len(b) = s
      BY <1>1, Zenon DEF IsBeginning
  <2>2. DOMAIN b = 1..s
      BY <2>1
  <2> QED
      BY <1>1, <2>1, <2>2, Zenon DEF IsBeginning
<1>4. \A i \in 1..Len(P) : /\ P[i] = [points |-> P[i].points, closed |-> P[i].closed]
                           /\ P[i].points \in Seq(Points)
  <2> SUFFICES ASSUME NEW i \in 1..Len(P)
               PROVE  /\ P[i] = [points |-> P[i].points, closed |-> P[i].closed]
                      /\ P[i].points \in Seq(Points)
      OBVIOUS
  <2>1. P[i] \in PrintedStrokes
      BY ElementOfSeq
  <2> QED
      BY <2>1 DEF PrintedStrokes
<1> DEFINE S == Strokes(b)
<1>5. S = [i \in 1..s |-> [points |-> b[i].points, closed |-> b[i].closed]]
    BY <1>3 DEF Strokes
<1>6. Len(S) = s /\ DOMAIN S = 1..s
  <2>1. PICK n \in Nat : n = s
      OBVIOUS
  <2>2. S = [i \in 1..n |-> [points |-> b[i].points, closed |-> b[i].closed]]
      BY <1>5, <2>1
  <2> HIDE DEF S
  <2> QED
      BY <2>1, <2>2
<1>7. \A i \in 1..s : i < s => S[i] = P[i]
  <2> SUFFICES ASSUME NEW i \in 1..s, i < s PROVE S[i] = P[i]
      OBVIOUS
  <2>1. b[i].points = P[i].points /\ b[i].closed = P[i].closed
      BY <1>3
  <2>2. S[i] = [points |-> b[i].points, closed |-> b[i].closed]
      BY <1>5
  <2>3. i \in 1..Len(P)
      OBVIOUS
  <2> QED
      BY <1>4, <2>1, <2>2, <2>3, Zenon
<1>8. S[s] = [points |-> pts, closed |-> c]
  <2>1. S[s] = [points |-> b[s].points, closed |-> b[s].closed]
      BY <1>5
  <2>2. b[s].points = pts /\ b[s].closed = c
      BY <1>2
  <2> QED
      BY <2>1, <2>2, Zenon
<1> HIDE DEF S
<1>9. BeginningOf(S, P)
  <2>1. ASSUME NEW i \in 1..s PROVE Len(S[i].points) <= Len(P[i].points)
    <3>1. CASE i = s
      <4>1. Len(S[i].points) = k
          BY <1>2, <1>8, <3>1
      <4> QED
          BY <3>1, <4>1
    <3>2. CASE i # s
      <4>1. S[i] = P[i] /\ P[i].points \in Seq(Points)
        <5>1. i < s /\ i \in 1..Len(P)
            BY <3>2
        <5> QED
            BY <1>4, <1>7, <5>1, Zenon
      <4>2. Len(P[i].points) \in Nat
          BY <4>1
      <4> QED
          BY <4>1, <4>2
    <3> QED
        BY <3>1, <3>2
  <2> QED
      BY <1>6, <1>7, <2>1 DEF BeginningOf
<1>10. ASSUME s = Len(P), k = Len(P[s].points), q = P[s].points[k], c = P[s].closed
       PROVE  S = P
  <2>1. pts = P[s].points
    <3>1. PICK p \in Seq(Points) : p = P[s].points
        BY <1>4
    <3>2. k \in 1..Len(p) /\ k = Len(p)
        BY <1>10, <3>1
    <3>3. Append(SubSeq(p, 1, k - 1), p[k]) = SubSeq(p, 1, k)
        BY <3>2, SubSeqExtended
    <3>4. SubSeq(p, 1, k) = p
        BY <3>2, SubSeqFull
    <3> QED
        BY <1>2, <1>10, <3>1, <3>3, <3>4, Zenon
  <2>2. S[s] = P[s]
      BY <1>4, <1>8, <1>10, <2>1, Zenon
  <2>3. \A i \in 1..s : S[i] = P[i]
      BY <1>7, <2>2
  <2>4. S = [i \in 1..s |-> S[i]] /\ P = [i \in 1..s |-> P[i]]
    <3>1. S = [i \in 1..s |-> S[i]]
        BY <1>5
    <3>2. P = [i \in 1..s |-> P[i]]
        BY <1>10
    <3> QED
        BY <3>1, <3>2
  <2> QED
      BY <2>3, <2>4
<1> QED
    BY <1>1, <1>9, <1>10, Zenon DEF S

\* What is read of the first rows, the last of which may be damaged.
LEMMA LoadBegins ==
    ASSUME NEW P \in Seq(PrintedStrokes), NEW off, NEW all \in Seq(RowSet), LaidOut(P, off, all),
           NEW rows \in Seq(RowSet), Len(rows) <= Len(all),
           \A n \in 1..Len(rows) : n < Len(rows) => rows[n] = all[n],
           Len(rows) > 0 => rows[Len(rows)].stroke = all[Len(rows)].stroke
    PROVE  BeginningOf(Load(rows), P)
<1>1. PICK it : ReadBy(rows, it)
    BY LoadSteps
<1>2. PICK N \in Nat : N = Len(rows)
    OBVIOUS
<1>3. Load(rows) = Strokes(it[N]) /\ it \in [0..N -> Seq(ReadStrokes)]
    BY <1>1, <1>2, Zenon DEF ReadBy
<1>4. CASE N = 0
  <2>1. it[N] = <<>>
      BY <1>1, <1>4, Zenon DEF ReadBy
  <2>2. Strokes(<<>>) = <<>>
      BY DEF Strokes
  <2>3. Len(<<>>) = 0 /\ DOMAIN <<>> = {}
      OBVIOUS
  <2>4. Len(P) \in Nat
      OBVIOUS
  <2>5. Load(rows) = <<>>
      BY <1>3, <2>1, <2>2, Zenon
  <2>6. BeginningOf(<<>>, P)
      BY <2>3, <2>4 DEF BeginningOf
  <2> QED
      BY <2>5, <2>6, Zenon
<1>5. CASE N # 0
  <2>1. PICK m \in Nat : m = N - 1 /\ N \in 1..Len(rows) /\ N \in 1..Len(all)
                         /\ m \in 0..Len(rows) /\ m <= Len(all) /\ m \in 0..m
      BY <1>2, <1>5, SMTT(30)
  <2>2. \A n \in 1..m : rows[n] = all[n]
      BY <1>2, <2>1, SMTT(30)
  <2>3. \A n \in 0..m : Stands(P, off, it[n], n)
      BY <1>1, <2>1, <2>2, ReadsOn
  <2>4. PICK sofar \in Seq(ReadStrokes) : sofar = it[m]
      BY <1>2, <1>3, <2>1
  <2>5. Stands(P, off, sofar, N - 1)
      BY <2>1, <2>3, <2>4, Zenon
  <2>6. PICK row \in RowSet : row = rows[N]
    <3>1. rows[N] \in RowSet
        BY <2>1, ElementOfSeq
    <3> QED
        BY <3>1
  <2>7. PICK c \in BOOLEAN : c = (row.closed /\ row.fields >= 5)
      OBVIOUS
  <2>8. it[N] = AddRow(sofar, row, c)
      BY <1>1, <2>1, <2>4, <2>6, <2>7, Zenon DEF ReadBy
  <2>9. row.stroke = all[N].stroke
      BY <1>2, <1>5, <2>6
  <2>10. PICK s \in 1..Len(P) : \E k \in 1..Len(P[s].points) :
            N = off[s - 1] + k /\ AddRow(sofar, row, c) = Beginning(P, s, k, row.at, c)
    <3>1. OneMore(P, off, N, row.at, c, AddRow(sofar, row, c))
        BY <2>1, <2>5, <2>9, NextRow
    <3> QED
        BY <3>1 DEF OneMore
  <2>11. PICK k \in 1..Len(P[s].points) : AddRow(sofar, row, c) = Beginning(P, s, k, row.at, c)
      BY <2>10
  <2>12. row.at \in Points
      BY DEF RowSet
  <2>13. BeginningOf(Strokes(Beginning(P, s, k, row.at, c)), P)
      BY <2>12, StrokesBegin
  <2> QED
      BY <1>3, <2>8, <2>11, <2>13, Zenon
<1> QED
    BY <1>4, <1>5

\* All the rows give the map.
LEMMA LoadWhole ==
    ASSUME NEW P \in Seq(PrintedStrokes), NEW off, NEW all \in Seq(RowSet), LaidOut(P, off, all),
           P # <<>>
    PROVE  Load(all) = P
<1>1. PICK it : ReadBy(all, it)
    BY LoadSteps
<1>2. PICK N \in Nat : N = Len(all) /\ N \in 0..Len(all)
    OBVIOUS
<1>3. \A n \in 0..N : Stands(P, off, it[n], n)
    BY <1>1, <1>2, ReadsOn
<1>4. Stands(P, off, it[N], N)
    BY <1>2, <1>3
<1>5. PICK S \in Nat : S = Len(P) /\ S \in 1..Len(P) /\ S - 1 \in 0..Len(P)
    OBVIOUS
<1>6. /\ off \in [0..S -> Nat] /\ N = off[S] /\ off[0] = 0
      /\ \A s \in 1..S : off[s] = off[s - 1] + Len(P[s].points)
    BY <1>2, <1>5, Zenon DEF LaidOut
<1>7. \A s \in 1..S : Len(P[s].points) \in Nat /\ Len(P[s].points) >= 1
  <2> SUFFICES ASSUME NEW s \in 1..S PROVE Len(P[s].points) \in Nat /\ Len(P[s].points) >= 1
      OBVIOUS
  <2>1. P[s] \in PrintedStrokes
      BY <1>5, ElementOfSeq
  <2> QED
      BY <2>1 DEF PrintedStrokes
\* The strokes do not run into each other.
<1>8. \A s \in 0..S : \A t \in 0..s : off[t] <= off[s] /\ (t < s => off[t] < off[s])
  <2> DEFINE T == {s \in 0..S : \A t \in 0..s : off[t] <= off[s] /\ (t < s => off[t] < off[s])}
  <2>1. 0 \in T
    <3>1. \A t \in 0..0 : t = 0
        OBVIOUS
    <3> QED
        BY <1>6, <3>1
  <2>2. ASSUME NEW s \in 0..S, s \in T, s < S PROVE s + 1 \in T
    <3>1. PICK u \in 1..S : u = s + 1 /\ u - 1 = s /\ u \in 0..S
        BY <2>2
    <3>2. off[u] = off[s] + Len(P[u].points) /\ off[u] \in Nat /\ off[s] \in Nat
          /\ Len(P[u].points) \in Nat /\ Len(P[u].points) >= 1
        BY <1>6, <1>7, <3>1
    <3>3. ASSUME NEW t \in 0..u PROVE off[t] <= off[u] /\ (t < u => off[t] < off[u])
      <4>1. CASE t = u
          BY <3>2, <4>1
      <4>2. CASE t # u
        <5>1. t \in 0..s /\ t \in 0..S
            BY <3>1, <4>2
        <5>2. off[t] <= off[s] /\ off[t] \in Nat
            BY <1>6, <2>2, <5>1
        <5> QED
            BY <3>2, <5>2
      <4> QED
          BY <4>1, <4>2
    <3> QED
        BY <3>1, <3>3
  <2> HIDE DEF T
  <2>3. \A s \in 0..S : s \in T
      BY <2>1, <2>2, UpTo
  <2> QED
      BY <2>3 DEF T
<1>9. N # 0
  <2>1. 0 \in 0..S /\ 0 < S /\ S \in 0..S
      BY <1>5
  <2>2. off[0] < off[S] /\ off[S] \in Nat
      BY <1>6, <1>8, <2>1
  <2> QED
      BY <1>6, <2>2
<1>10. PICK s \in 1..Len(P) : \E k \in 1..Len(P[s].points) :
            /\ N = off[s - 1] + k
            /\ it[N] = Beginning(P, s, k, P[s].points[k], P[s].closed)
    BY <1>4, <1>9, Zenon DEF Stands
<1>11. PICK k \in 1..Len(P[s].points) :
            /\ N = off[s - 1] + k
            /\ it[N] = Beginning(P, s, k, P[s].points[k], P[s].closed)
    BY <1>10
<1>12. s = S /\ k = Len(P[s].points)
  <2>1. s \in 1..S /\ s \in 0..S /\ s - 1 \in 0..S /\ S \in 0..S
      BY <1>5, SMT
  <2>2. off[s] = off[s - 1] + Len(P[s].points)
      BY <1>6, <2>1, Zenon
  <2>3. PICK before \in Nat : before = off[s - 1]
      BY <1>6, <2>1
  <2>4. PICK here \in Nat : here = off[s]
      BY <1>6, <2>1
  <2>5. PICK long \in Nat : long = Len(P[s].points)
      BY <1>7, <2>1
  <2>6. here = before + long
      BY <2>2, <2>3, <2>4, <2>5, Zenon
  <2>7. PICK j \in 1..long : j = k
      BY <2>5, Zenon
  <2>8. N = before + j
      BY <1>11, <2>3, <2>7, Zenon
  <2>9. s = S
    <3>1. ASSUME s # S PROVE FALSE
      <4>1. s < S
          BY <1>5, <2>1, <3>1, SMT
      <4>2. off[s] < off[S]
          BY <1>8, <2>1, <4>1, Zenon
      <4>3. here < N
          BY <1>6, <2>4, <4>2, Zenon
      <4> QED
          BY <2>6, <2>8, <4>3, <1>2, SMT
    <3> QED
        BY <3>1
  <2>10. N = here
      BY <1>6, <2>4, <2>9, Zenon
  <2>11. j = long
      BY <2>6, <2>8, <2>10, SMT
  <2> QED
      BY <2>5, <2>7, <2>9, <2>11, Zenon
<1>13. P[s].points[k] \in Points /\ P[s].closed \in BOOLEAN
  <2>1. P[s] \in PrintedStrokes
      BY ElementOfSeq
  <2>2. P[s].points \in Seq(Points) /\ P[s].closed \in BOOLEAN
      BY <2>1 DEF PrintedStrokes
  <2> QED
      BY <2>2, ElementOfSeq
<1>14. Strokes(Beginning(P, s, k, P[s].points[k], P[s].closed)) = P
    BY <1>5, <1>12, <1>13, StrokesBegin
<1> QED
    BY <1>1, <1>2, <1>11, <1>14, Zenon DEF ReadBy

\* What a write that stopped on the way may leave.
StartOf(rows, all) ==
    /\ rows \in Seq(RowSet) /\ Len(rows) <= Len(all)
    /\ \A n \in 1..Len(rows) : n < Len(rows) => rows[n] = all[n]
    /\ Len(rows) > 0 => rows[Len(rows)].stroke = all[Len(rows)].stroke

LEMMA CutRowFacts ==
    ASSUME NEW row \in RowSet, NEW f \in Nat
    PROVE  /\ CutRow(row, f) \in RowSet /\ CutRow(row, f).stroke = row.stroke
           /\ CutRow(row, f).fields = f
<1>1. row.at \in Points /\ row.at.y \in Int
    BY DEF RowSet, Points
<1>2. PICK y \in Int : y = (row.at.y \div 1000) * 1000
  <2>1. row.at.y \div 1000 \in Int
      BY <1>1
  <2> QED
      BY <2>1
<1>3. CutRow(row, f) = [row EXCEPT !.fields = f, !.at.y = y]
    BY <1>2 DEF CutRow
<1> QED
    BY <1>1, <1>3 DEF RowSet, Points

LEMMA CutFacts ==
    ASSUME NEW all \in Seq(RowSet), NEW rows, rows = all \/ rows \in Cut(all),
           \A i \in DOMAIN rows : rows[i].fields >= 4
    PROVE  StartOf(rows, all)
<1>1. PICK N \in Nat : N = Len(all)
    OBVIOUS
<1>2. CASE rows = all
    BY <1>2 DEF StartOf
<1>3. ASSUME NEW n \in (0..Len(all) - 1) \cap CutAt, rows = SubSeq(all, 1, n)
      PROVE  StartOf(rows, all)
  <2>1. n \in Nat /\ n <= N /\ n \in 0..N
      BY <1>1
  <2>2. rows \in Seq(RowSet) /\ Len(rows) = n /\ \A i \in 1..n : rows[i] = all[i]
      BY <1>1, <1>3, <2>1
  <2>3. n > 0 => rows[n] = all[n]
      BY <2>1, <2>2
  <2> QED
      BY <1>1, <2>1, <2>2, <2>3 DEF StartOf
<1>4. ASSUME NEW n \in DOMAIN all \cap CutAt, NEW f \in {1, 4},
             rows = Append(SubSeq(all, 1, n - 1), CutRow(all[n], f))
      PROVE  StartOf(rows, all)
  <2>1. n \in 1..N /\ n - 1 \in Nat
      BY <1>1
  <2>2. PICK row \in RowSet : row = all[n]
      BY <1>1, <2>1
  <2>3. PICK last \in RowSet : last = CutRow(row, f) /\ last.stroke = row.stroke
      BY CutRowFacts
  <2>4. PICK front \in Seq(RowSet) : front = SubSeq(all, 1, n - 1) /\ Len(front) = n - 1
                                    /\ \A i \in 1..(n - 1) : front[i] = all[i]
    <3>1. SubSeq(all, 1, n - 1) \in Seq(RowSet) /\ Len(SubSeq(all, 1, n - 1)) = n - 1
          /\ \A i \in 1..(n - 1) : SubSeq(all, 1, n - 1)[i] = all[i]
        BY <1>1, <2>1
    <3> QED
        BY <3>1
  <2>5. rows = Append(front, last)
      BY <1>4, <2>2, <2>3, <2>4
  <2>6. rows \in Seq(RowSet) /\ Len(rows) = n /\ rows[n] = last
        /\ \A i \in 1..(n - 1) : rows[i] = front[i]
      BY <2>1, <2>4, <2>5
  <2>7. \A i \in 1..n : i < n => rows[i] = all[i]
      BY <2>1, <2>4, <2>6
  <2> QED
      BY <1>1, <2>1, <2>2, <2>3, <2>6, <2>7 DEF StartOf
<1> QED
    BY <1>2, <1>3, <1>4 DEF Cut

LEMMA DistanceSymmetric ==
    ASSUME NEW a \in Points, NEW b \in Points
    PROVE  Distance(a, b) = Distance(b, a)
<1>1. PICK x \in Int, y \in Int, u \in Int, v \in Int :
          x = a.x /\ y = a.y /\ u = b.x /\ v = b.y
    BY DEF Points
<1>2. Absolute(x - u) = Absolute(u - x) /\ Absolute(y - v) = Absolute(v - y)
    BY DEF Absolute
<1> QED
    BY <1>1, <1>2, Zenon DEF Distance

\* The plan's length is the map's (PlannedLengthMm, StrokeLengthMm).
LEMMA LengthAgrees ==
    ASSUME NEW P \in Seq(PrintedStrokes)
    PROVE  PlannedLength(P) = Total([s \in DOMAIN P |-> StrokeLength(P[s])])
<1> DEFINE other(s) == PathLength(P[s].points)
                        + (IF P[s].closed /\ Len(P[s].points) >= 2
                           THEN Distance(P[s].points[1], Last(P[s].points)) ELSE 0)
<1>1. ASSUME NEW s \in DOMAIN P PROVE other(s) = StrokeLength(P[s])
  <2>1. P[s] \in PrintedStrokes
      BY ElementOfSeq
  <2>2. PICK pts \in Seq(Points), closed \in BOOLEAN :
            pts = P[s].points /\ closed = P[s].closed /\ Len(pts) >= 1
      BY <2>1 DEF PrintedStrokes
  <2>3. PICK n \in Nat : n = Len(pts) /\ n >= 1
      BY <2>2
  <2>4. CASE n = 1
    <3>1. PathLength(pts) = Total(<<>>)
      <4>1. [i \in 1..Len(pts) - 1 |-> Distance(pts[i], pts[i + 1])] = <<>>
          BY <2>3, <2>4
      <4> QED
          BY <4>1, Zenon DEF PathLength
    <3>2. Total(<<>>) = 0
      <4>1. <<>> \in Seq(Int) /\ Len(<<>>) = 0
          OBVIOUS
      <4>2. PICK it : Sums(<<>>, it)
          BY <4>1, TotalSums, Zenon
      <4> QED
          BY <4>1, <4>2, Zenon DEF Sums
    <3> QED
        BY <2>2, <2>3, <2>4, <3>1, <3>2 DEF StrokeLength
  <2>5. CASE n # 1
    <3>1. pts[1] \in Points /\ Last(pts) \in Points
        BY <2>3 DEF Last
    <3>2. Distance(pts[1], Last(pts)) = Distance(Last(pts), pts[1])
        BY <3>1, DistanceSymmetric
    <3>3. n >= 2 /\ ~(n < 2)
        BY <2>3, <2>5
    <3>4. other(s) = PathLength(pts) + (IF closed THEN Distance(pts[1], Last(pts)) ELSE 0)
        BY <2>2, <2>3, <3>3
    <3>5. StrokeLength(P[s]) = PathLength(pts)
                                + (IF closed THEN Distance(Last(pts), pts[1]) ELSE 0)
        BY <2>2, <2>3, <3>3 DEF StrokeLength
    <3> QED
        BY <3>2, <3>4, <3>5, Zenon
  <2> QED
      BY <2>4, <2>5
<1>2. [s \in DOMAIN P |-> other(s)] = [s \in DOMAIN P |-> StrokeLength(P[s])]
  <2> HIDE DEF other
  <2> QED
      BY <1>1
<1>3. PlannedLength(P) = Total([s \in DOMAIN P |-> other(s)])
    BY DEF PlannedLength
<1> QED
    BY <1>2, <1>3, Zenon

\* map.csv holds the map of the run that wrote it, or what was left of it.
FileOk == csvRun > 0 => csv = Rows(csvMap) \/ csv \in Cut(Rows(csvMap))

FilesGood == MapsGood /\ FileOk /\ PlanReadBack

\* What a run of trace_cli reads of a file.
LEMMA ReadBack ==
    ASSUME NEW m, m.unit \in Nat \ {0}, m.strokes \in Seq(GoodStrokes), Printed(m) # <<>>,
           NEW rows, rows = Rows(m) \/ rows \in Cut(Rows(m)),
           \A i \in DOMAIN rows : rows[i].fields >= 4
    PROVE  /\ rows = Rows(m) => Load(rows) = Printed(m)
           /\ BeginningOf(Load(rows), Printed(m))
<1>1. Printed(m) \in Seq(PrintedStrokes) /\ Rows(m) \in Seq(RowSet)
    BY PrintedFacts
<1>2. PICK off : LaidOut(Printed(m), off, Rows(m))
    BY PrintedFacts
<1>3. rows = Rows(m) => Load(rows) = Printed(m)
    BY <1>1, <1>2, LoadWhole
<1>4. StartOf(rows, Rows(m))
    BY <1>1, CutFacts
<1>5. BeginningOf(Load(rows), Printed(m))
    BY <1>1, <1>2, <1>4, LoadBegins DEF StartOf
<1> QED
    BY <1>3, <1>5

LEMMA FilesInvariant == Spec => []FilesGood
<1>1. Init => FileOk /\ PlanReadBack
  <2>1. NoPlan.from = <<>>
      BY DEF NoPlan
  <2> QED
      BY <2>1 DEF Init, FileOk, PlanReadBack
<1>2. MapsGood /\ FileOk /\ PlanReadBack /\ [Next]_toolVars => FileOk' /\ PlanReadBack'
  <2> SUFFICES ASSUME MapsGood, FileOk, PlanReadBack, [Next]_toolVars
               PROVE  FileOk' /\ PlanReadBack'
      OBVIOUS
  <2>a. ASSUME UNCHANGED <<csv, csvRun, csvMap>> PROVE FileOk'
    <3>1. csv' = csv /\ csvRun' = csvRun /\ csvMap' = csvMap
        BY <2>a
    <3>2. Rows(csvMap') = Rows(csvMap)
        BY <3>1
    <3>3. Cut(Rows(csvMap')) = Cut(Rows(csvMap))
        BY <3>2
    <3> QED
        BY <3>1, <3>2, <3>3, Zenon DEF FileOk
  <2>b. ASSUME UNCHANGED traceVars PROVE PlanReadBack'
      BY <2>b DEF traceVars, PlanReadBack
  <2>1. ASSUME NEW p \in ParamSets, StrokeMapCli(p) PROVE FileOk' /\ PlanReadBack'
    <3>1. PlanReadBack'
        BY <2>1, <2>b DEF StrokeMapCli
    <3>2. CASE UNCHANGED <<csv, csvRun, csvMap>>
        BY <2>a, <3>1, <3>2
    <3>3. ASSUME NEW svgOutcome \in Outcomes, NEW csvOutcome \in Outcomes,
                 SaveFiles(map', svgOutcome, csvOutcome)
          PROVE  FileOk'
      <4>1. CASE UNCHANGED <<csv, csvRun, csvMap>>
          BY <2>a, <4>1
      <4>2. CASE CsvAfter(map', csvOutcome)
        <5>1. CASE csvOutcome = "refused"
            BY <4>1, <4>2, <5>1 DEF CsvAfter
        <5>2. CASE csvOutcome # "refused"
          <6>1. csvMap' = map' /\ (csv' = Rows(map') \/ csv' \in Cut(Rows(map')))
              BY <4>2, <5>2 DEF CsvAfter
          <6> QED
              BY <6>1, Zenon DEF FileOk
        <5> QED
            BY <5>1, <5>2
      <4> QED
          BY <3>3, <4>1, <4>2, Zenon DEF SaveFiles
    <3>4. FileOk'
        BY <2>1, <3>2, <3>3, <2>a, Zenon DEF StrokeMapCli, Fails
    <3> QED
        BY <3>1, <3>4
  <2>2. ASSUME NEW p \in ParamSets, NEW size \in Sizes, NEW polylines \in Lines,
               LibraryCall(p, size, polylines)
        PROVE  FileOk' /\ PlanReadBack'
    <3>1. UNCHANGED <<csv, csvRun, csvMap>> /\ UNCHANGED traceVars
        BY <2>2 DEF LibraryCall
    <3>2. FileOk'
        BY <2>a, <3>1
    <3>3. PlanReadBack'
        BY <2>b, <3>1
    <3> QED
        BY <3>2, <3>3
  <2>3. ASSUME NEW fromFile \in BOOLEAN, NEW dummy \in BOOLEAN, TraceCli(fromFile, dummy)
        PROVE  FileOk' /\ PlanReadBack'
    <3>1. UNCHANGED <<csv, csvRun, csvMap>>
        BY <2>3 DEF TraceCli, visionVars
    <3>2. FileOk'
        BY <2>a, <3>1
    <3>3. ASSUME UNCHANGED <<plan, trace, report>> PROVE PlanReadBack'
        BY <3>3 DEF PlanReadBack
    <3>4. ASSUME fromFile => Readable(csv), plan' = PlanOf(fromFile, dummy),
                 report' = IF plan'.given THEN Summary(trace'.samples, plan'.strokes)
                           ELSE [NoReport EXCEPT !.drawn = DrawnLength(trace'.samples)]
          PROVE  PlanReadBack'
      <4>1. CASE plan'.from = <<>>
          BY <4>1 DEF PlanReadBack
      <4>2. CASE plan'.from # <<>>
        <5>1. fromFile
          <6>1. ~fromFile => PlanOf(fromFile, dummy).from = <<>>
              BY DEF PlanOf, NoPlan
          <6> QED
              BY <3>4, <4>2, <6>1
        <5>2. /\ plan'.given /\ plan'.strokes = Load(csv) /\ plan'.from = Printed(csvMap)
              /\ plan'.whole = (csv = Rows(csvMap))
          <6>1. plan' = [given |-> TRUE, strokes |-> Load(csv), from |-> Printed(csvMap),
                         whole |-> csv = Rows(csvMap)]
              BY <3>4, <5>1, Zenon DEF PlanOf
          <6> QED
              BY <6>1
        <5>3. csv = Rows(csvMap) \/ csv \in Cut(Rows(csvMap))
            BY <3>4, <5>1, Zenon DEF Readable, FileOk
        <5>4. \A i \in DOMAIN csv : csv[i].fields >= 4
            BY <3>4, <5>1, Zenon DEF Readable
        <5>5. csvMap.unit \in Nat \ {0} /\ csvMap.strokes \in Seq(GoodStrokes)
            BY Zenon DEF MapsGood, GoodMap
        <5>6. Printed(csvMap) # <<>>
            BY <4>2, <5>2
        <5>7. /\ csv = Rows(csvMap) => Load(csv) = Printed(csvMap)
              /\ BeginningOf(Load(csv), Printed(csvMap))
            BY <5>3, <5>4, <5>5, <5>6, ReadBack
        <5>8. report'.planned = PlannedLength(plan'.strokes)
          <6>1. report' = Summary(trace'.samples, plan'.strokes)
              BY <3>4, <5>2, Zenon
          <6> QED
              BY <6>1 DEF Summary
        <5>9. PlannedLength(plan'.from) = Total([s \in DOMAIN plan'.from |->
                                                    StrokeLength(plan'.from[s])])
          <6>1. plan'.from \in Seq(PrintedStrokes)
              BY <5>2, <5>5, PrintedFacts
          <6> QED
              BY <6>1, LengthAgrees, Zenon
        <5>10. plan'.whole =>
                /\ plan'.strokes = plan'.from
                /\ report'.planned = Total([s \in DOMAIN plan'.from |->
                                                StrokeLength(plan'.from[s])])
          <6>1. SUFFICES ASSUME csv = Rows(csvMap)
                         PROVE  /\ plan'.strokes = plan'.from
                                /\ report'.planned = Total([s \in DOMAIN plan'.from |->
                                                                StrokeLength(plan'.from[s])])
              BY <5>2, Zenon
          <6>2. plan'.strokes = plan'.from
              BY <5>2, <5>7, <6>1, Zenon
          <6>3. report'.planned = PlannedLength(plan'.from)
              BY <5>8, <6>2, Zenon
          <6> QED
              BY <5>9, <6>2, <6>3, Zenon
        <5>11. BeginningOf(plan'.strokes, plan'.from)
            BY <5>2, <5>7, Zenon
        <5> QED
            BY <5>10, <5>11, Zenon DEF PlanReadBack, BeginningOf
      <4> QED
          BY <4>1, <4>2
    <3> QED
        BY <2>3, <3>2, <3>3, <3>4 DEF TraceCli
  <2>4. CASE UNCHANGED toolVars
    <3>1. UNCHANGED <<csv, csvRun, csvMap>> /\ UNCHANGED traceVars
        BY <2>4 DEF toolVars, visionVars
    <3> QED
        BY <2>a, <2>b, <3>1
  <2>5. FileOk' /\ PlanReadBack'
    <3> QED
        BY <2>1, <2>2, <2>3, <2>4 DEF Next
  <2> QED
      BY <2>5
<1> QED
    BY <1>1, <1>2, MapsInvariant, PTL DEF Spec, FilesGood

\* Whatever map is written and wherever the write stops, trace_cli reads back
\* that map, to the length both tools compute of it, or a beginning of it, of which
\* only the end of the last stroke may be damaged (SaveCsv, LoadPlannedMapCsv).
THEOREM PlanReadsBack == Spec => []PlanReadBack
<1>1. FilesGood => PlanReadBack
    BY DEF FilesGood
<1> QED
    BY <1>1, FilesInvariant, PTL

-----------------------------------------------------------------------------
(* Traces: the samples of a plan, stroke by stroke and segment by segment.    *)

\* The place of an element in sequences laid end to end.
At(seqs, off, x, i, k) ==
    i \in 1..Len(seqs) /\ k \in 1..Len(seqs[i]) /\ x = off[i - 1] + k

Filled(T) == {seq \in Seq(T) : Len(seq) >= 1}

LEMMA FirstPlace ==
    ASSUME NEW T, NEW seqs \in Seq(Filled(T)), NEW out, NEW off, Flat(seqs, out, off),
           Len(out) # 0
    PROVE  At(seqs, off, 1, 1, 1)
<1>1. PICK N \in Nat : N = Len(seqs)
    OBVIOUS
<1>2. off[0] = 0 /\ Len(out) = off[N]
    BY <1>1 DEF Flat
<1>3. 1 \in 1..N
    BY <1>1, <1>2
<1>4. seqs[1] \in Filled(T)
    BY <1>1, <1>3, ElementOfSeq
<1>5. 1 \in 1..Len(seqs[1])
    BY <1>4 DEF Filled
<1>6. 1 - 1 = 0 /\ 1 = 0 + 1
    OBVIOUS
<1> QED
    BY <1>1, <1>2, <1>3, <1>5, <1>6 DEF At

LEMMA NextPlace ==
    ASSUME NEW T, NEW seqs \in Seq(Filled(T)), NEW out, NEW off, Flat(seqs, out, off),
           NEW x \in Nat, x < Len(out), NEW i, NEW k, At(seqs, off, x, i, k)
    PROVE  \/ At(seqs, off, x + 1, i, k + 1)
           \/ k = Len(seqs[i]) /\ At(seqs, off, x + 1, i + 1, 1)
<1>1. PICK N \in Nat : N = Len(seqs)
    OBVIOUS
<1>2. /\ off \in [0..N -> Nat] /\ Len(out) = off[N]
      /\ \A j \in 1..N : off[j] = off[j - 1] + Len(seqs[j])
    BY <1>1, Zenon DEF Flat
<1>3. i \in 1..N /\ i - 1 \in 0..N /\ i \in 0..N /\ N \in 0..N
    BY <1>1 DEF At
<1>4. \A j \in 1..N : Len(seqs[j]) \in Nat /\ Len(seqs[j]) >= 1
  <2> SUFFICES ASSUME NEW j \in 1..N PROVE Len(seqs[j]) \in Nat /\ Len(seqs[j]) >= 1
      OBVIOUS
  <2>1. seqs[j] \in Filled(T)
      BY <1>1, ElementOfSeq
  <2> QED
      BY <2>1 DEF Filled
<1>5. PICK o \in Nat, here \in Nat, l \in Nat : o = off[i - 1] /\ here = off[i] /\ l = Len(seqs[i])
    BY <1>2, <1>3, <1>4
<1>6. here = o + l
    BY <1>2, <1>3, <1>5, Zenon
<1>7. PICK j \in 1..l : j = k /\ x = o + j
    BY <1>5, Zenon DEF At
<1>8. CASE j < l
  <2>1. j + 1 \in 1..l /\ x + 1 = o + (j + 1)
      BY <1>7, <1>8
  <2>2. At(seqs, off, x + 1, i, k + 1)
      BY <1>1, <1>3, <1>5, <1>7, <2>1, Zenon DEF At
  <2> QED
      BY <2>2
<1>9. CASE ~(j < l)
  <2>1. j = l /\ x = here
      BY <1>6, <1>7, <1>9
  <2>2. i # N
      BY <1>2, <1>5, <2>1
  <2>3. i + 1 \in 1..N /\ (i + 1) - 1 = i
      BY <1>3, <2>2
  <2>4. 1 \in 1..Len(seqs[i + 1])
      BY <1>4, <2>3
  <2>5. x + 1 = off[(i + 1) - 1] + 1
      BY <1>5, <2>1, <2>3, Zenon
  <2>6. At(seqs, off, x + 1, i + 1, 1)
      BY <1>1, <2>3, <2>4, <2>5, Zenon DEF At
  <2> QED
      BY <1>5, <1>7, <2>1, <2>6, Zenon
<1> QED
    BY <1>8, <1>9

\* Numbers from 1 to N.
LEMMA FromOne ==
    ASSUME NEW N \in Nat, NEW T, N # 0 => 1 \in T,
           \A n \in 1..N : n \in T /\ n < N => n + 1 \in T
    PROVE  \A n \in 1..N : n \in T
<1> DEFINE U == {n \in 0..N : n # 0 => n \in T}
<1>1. 0 \in U
    OBVIOUS
<1>2. ASSUME NEW n \in 0..N, n \in U, n < N PROVE n + 1 \in U
  <2>1. CASE n = 0
      BY <1>2, <2>1
  <2>2. CASE n # 0
    <3>1. n \in 1..N /\ n \in T
        BY <1>2, <2>2
    <3>2. n + 1 \in T /\ n + 1 \in 0..N
        BY <1>2, <3>1
    <3> QED
        BY <3>2
  <2> QED
      BY <2>1, <2>2
<1> HIDE DEF U
<1>3. \A n \in 0..N : n \in U
    BY <1>1, <1>2, UpTo
<1>4. \A n \in 1..N : n \in 0..N /\ n # 0
    OBVIOUS
<1> QED
    BY <1>3, <1>4 DEF U

\* Every element has its place.
LEMMA Places ==
    ASSUME NEW T, NEW seqs \in Seq(Filled(T)), NEW out \in Seq(T), NEW off, Flat(seqs, out, off)
    PROVE  \A x \in 1..Len(out) : \E i, k : At(seqs, off, x, i, k) /\ out[x] = seqs[i][k]
<1> DEFINE U == {x \in Nat : \E i, k : At(seqs, off, x, i, k)}
<1>1. PICK N \in Nat : N = Len(out)
    OBVIOUS
<1>2. N # 0 => 1 \in U
    BY <1>1, FirstPlace
<1>3. ASSUME NEW x \in 1..N, x \in U, x < N PROVE x + 1 \in U
  <2>1. PICK i, k : At(seqs, off, x, i, k)
      BY <1>3
  <2>2. x \in Nat /\ x + 1 \in Nat /\ x < Len(out)
      BY <1>1, <1>3
  <2>3. At(seqs, off, x + 1, i, k + 1) \/ At(seqs, off, x + 1, i + 1, 1)
      BY <2>1, <2>2, NextPlace, Zenon
  <2> QED
      BY <2>2, <2>3
<1> HIDE DEF U
<1>4. \A x \in 1..N : x \in U
    BY <1>1, <1>2, <1>3, FromOne
<1>5. ASSUME NEW x, NEW i, NEW k, At(seqs, off, x, i, k) PROVE out[x] = seqs[i][k]
    BY <1>5, Zenon DEF At, Flat
<1>6. ASSUME NEW x \in 1..Len(out)
      PROVE  \E i, k : At(seqs, off, x, i, k) /\ out[x] = seqs[i][k]
  <2>1. x \in U
      BY <1>1, <1>4, Zenon
  <2>2. PICK i, k : At(seqs, off, x, i, k)
      BY <2>1 DEF U
  <2>3. out[x] = seqs[i][k]
      BY <1>5, <2>2
  <2> QED
      BY <2>2, <2>3, Zenon
<1> QED
    BY <1>6

\* Division by a positive number keeps an order.
LEMMA DivisionMonotone ==
    ASSUME NEW x \in Int, NEW y \in Int, NEW n \in Nat \ {0}, x <= y
    PROVE  x \div n \in Int /\ y \div n \in Int /\ x \div n <= y \div n
<1>1. PICK p \in Int, q \in Int : p = x \div n /\ q = y \div n
    OBVIOUS
<1>2. p * n <= x /\ y < q * n + n
    BY <1>1
<1>3. ASSUME q + 1 <= p PROVE FALSE
  <2>1. (q + 1) * n <= p * n
    <3>1. q + 1 \in Int
        OBVIOUS
    <3> QED
        BY <1>3, <3>1, Product
  <2>2. (q + 1) * n = q * n + n
      OBVIOUS
  <2>3. PICK u \in Int, v \in Int : u = p * n /\ v = q * n
      OBVIOUS
  <2> QED
      BY <1>2, <2>1, <2>2, <2>3
<1> QED
    BY <1>1, <1>3

\* One coordinate of the samples of a segment goes from its beginning to its end
\* and never back.
LEMMA NeverBack ==
    ASSUME NEW d \in Int, NEW n \in Nat \ {0}, NEW k \in 0..(n - 1)
    PROVE  /\ (d * k) \div n \in Int /\ (d * (k + 1)) \div n \in Int
           /\ Absolute((d * k) \div n)
                + Absolute((d * (k + 1)) \div n - (d * k) \div n) <= Absolute((d * (k + 1)) \div n)
           /\ Absolute((d * (k + 1)) \div n) <= Absolute(d)
<1>1. PICK x \in Int, y \in Int, z \in Int : x = d * k /\ y = d * (k + 1) /\ z = d * n
    OBVIOUS
<1>2. PICK p \in Int, q \in Int : p = x \div n /\ q = y \div n
    OBVIOUS
<1>3. z \div n = d /\ 0 \div n = 0
  <2>1. z \div n = d
      BY <1>1
  <2>2. 0 \div n = 0
      OBVIOUS
  <2> QED
      BY <2>1, <2>2
<1>4. CASE d >= 0
  <2>1. 0 <= x /\ x <= y /\ y <= z
      BY <1>1, <1>4
  <2>2. 0 <= p /\ p <= q /\ q <= d
    <3>1. 0 \div n <= x \div n
        BY <2>1, DivisionMonotone
    <3>2. x \div n <= y \div n
        BY <2>1, DivisionMonotone
    <3>3. y \div n <= z \div n
        BY <2>1, DivisionMonotone
    <3> QED
        BY <1>2, <1>3, <3>1, <3>2, <3>3
  <2>3. Absolute(p) + Absolute(q - p) <= Absolute(q) /\ Absolute(q) <= Absolute(d)
      BY <2>2 DEF Absolute
  <2> QED
      BY <1>1, <1>2, <2>3
<1>5. CASE d < 0
  <2>1. x <= 0 /\ y <= x /\ z <= y
      BY <1>1, <1>5
  <2>2. p <= 0 /\ q <= p /\ d <= q
    <3>1. x \div n <= 0 \div n
        BY <2>1, DivisionMonotone
    <3>2. y \div n <= x \div n
        BY <2>1, DivisionMonotone
    <3>3. z \div n <= y \div n
        BY <2>1, DivisionMonotone
    <3> QED
        BY <1>2, <1>3, <3>1, <3>2, <3>3
  <2>3. Absolute(p) + Absolute(q - p) <= Absolute(q) /\ Absolute(q) <= Absolute(d)
      BY <2>2 DEF Absolute
  <2> QED
      BY <1>1, <1>2, <2>3
<1> QED
    BY <1>4, <1>5

\* The samples of one segment, as Along takes them.
SegmentSamples(a, b, n) ==
    [k \in 1..n |-> Point(a.x + ((b.x - a.x) * (k - 1)) \div n,
                          a.y + ((b.y - a.y) * (k - 1)) \div n)]

SamplesOf(a, b, step) == SegmentSamples(a, b, Larger(1, Distance(a, b) \div step))

\* They go from a towards b: what is travelled from one to the next, and from the
\* last to b, is what the distance from a grows by.
Advances(a, b, samples) ==
    /\ samples \in Seq(Points) /\ Len(samples) >= 1 /\ samples[1] = a
    /\ \A k \in 1..Len(samples) : k < Len(samples) =>
        Distance(a, samples[k]) + Distance(samples[k], samples[k + 1])
            <= Distance(a, samples[k + 1])
    /\ Distance(a, samples[Len(samples)]) + Distance(samples[Len(samples)], b) <= Distance(a, b)
    /\ \A k \in 1..Len(samples) : Distance(a, samples[k]) <= Distance(a, b)

LEMMA SamplesAdvance ==
    ASSUME NEW a \in Points, NEW b \in Points, NEW step \in Nat \ {0}
    PROVE  Advances(a, b, SamplesOf(a, b, step))
<1>1. PICK n \in Nat \ {0} : n = Larger(1, Distance(a, b) \div step)
  <2>1. PICK d \in Nat : d = Distance(a, b)
      BY DistanceType
  <2>2. d \div step \in Int
      OBVIOUS
  <2>3. Larger(1, d \div step) \in Nat \ {0}
      BY <2>2 DEF Larger
  <2> QED
      BY <2>1, <2>3
<1>2. PICK ax \in Int, ay \in Int, bx \in Int, by \in Int :
        ax = a.x /\ ay = a.y /\ bx = b.x /\ by = b.y
    BY DEF Points
<1> DEFINE px(k) == ((bx - ax) * k) \div n
           py(k) == ((by - ay) * k) \div n
           at(k) == Point(ax + px(k), ay + py(k))
<1>3. PICK s : s = [k \in 1..n |-> at(k - 1)]
    OBVIOUS
<1>4. SamplesOf(a, b, step) = s
    BY <1>1, <1>2, <1>3 DEF SamplesOf, SegmentSamples
<1>5. bx - ax \in Int /\ by - ay \in Int
    OBVIOUS
<1>6. \A k \in 0..n : px(k) \in Int /\ py(k) \in Int
  <2> SUFFICES ASSUME NEW k \in 0..n PROVE px(k) \in Int /\ py(k) \in Int
      OBVIOUS
  <2>1. (bx - ax) * k \in Int /\ (by - ay) * k \in Int
      BY <1>5
  <2> QED
      BY <2>1
<1>7. at(0) = a /\ at(n) = b
  <2>1. (bx - ax) * 0 = 0 /\ (by - ay) * 0 = 0 /\ 0 \div n = 0
      BY <1>5
  <2>2. ((bx - ax) * n) \div n = bx - ax /\ ((by - ay) * n) \div n = by - ay
      BY <1>5
  <2>3. ax + 0 = ax /\ ay + 0 = ay /\ ax + (bx - ax) = bx /\ ay + (by - ay) = by
      OBVIOUS
  <2>4. a = Point(ax, ay) /\ b = Point(bx, by)
      BY <1>2 DEF Point, Points
  <2> QED
      BY <2>1, <2>2, <2>3, <2>4, Zenon
<1>8. \A k \in 0..(n - 1) :
        /\ Absolute(px(k)) + Absolute(px(k + 1) - px(k)) <= Absolute(px(k + 1))
        /\ Absolute(py(k)) + Absolute(py(k + 1) - py(k)) <= Absolute(py(k + 1))
        /\ Absolute(px(k + 1)) <= Absolute(bx - ax) /\ Absolute(py(k + 1)) <= Absolute(by - ay)
    BY <1>5, NeverBack
<1> HIDE DEF px, py
<1>9. \A k \in 0..n : at(k) \in Points
    BY <1>6 DEF Point, Points
<1>10. ASSUME NEW x \in Int, NEW y \in Int
       PROVE  /\ Distance(Point(ax, ay), Point(ax + x, ay + y)) = Absolute(x) + Absolute(y)
              /\ Absolute(x) \in Nat /\ Absolute(y) \in Nat
    BY DEF Distance, Point, Absolute
<1>11. a = Point(ax, ay) /\ b = Point(bx, by)
    BY <1>2 DEF Point, Points
<1>12. ASSUME NEW k \in 0..(n - 1)
       PROVE  Distance(a, at(k)) + Distance(at(k), at(k + 1)) <= Distance(a, at(k + 1))
  <2>1. k \in 0..n /\ k + 1 \in 0..n
      OBVIOUS
  <2>2. PICK u \in Int, v \in Int, x \in Int, y \in Int :
            u = px(k) /\ v = py(k) /\ x = px(k + 1) /\ y = py(k + 1)
      BY <1>6, <2>1
  <2>3. /\ Absolute(u) + Absolute(x - u) <= Absolute(x)
        /\ Absolute(v) + Absolute(y - v) <= Absolute(y)
      BY <1>8, <2>2, Zenon
  <2>4. /\ Distance(a, at(k)) = Absolute(u) + Absolute(v)
        /\ Distance(a, at(k + 1)) = Absolute(x) + Absolute(y)
        /\ Distance(at(k), at(k + 1)) = Absolute(x - u) + Absolute(y - v)
    <3>1. at(k) = Point(ax + u, ay + v) /\ at(k + 1) = Point(ax + x, ay + y)
        BY <2>2, Zenon
    <3> HIDE DEF at
    <3>2. Distance(a, at(k)) = Absolute(u) + Absolute(v)
        BY <1>10, <1>11, <3>1
    <3>3. Distance(a, at(k + 1)) = Absolute(x) + Absolute(y)
        BY <1>10, <1>11, <3>1
    <3>4. Distance(at(k), at(k + 1)) = Absolute(x - u) + Absolute(y - v)
      <4>1. Distance(Point(ax + u, ay + v), Point(ax + x, ay + y))
                = Absolute(x - u) + Absolute(y - v)
          BY DEF Distance, Point, Absolute
      <4> QED
          BY <3>1, <4>1, Zenon
    <3> QED
        BY <3>2, <3>3, <3>4
  <2>5. Absolute(u) + Absolute(v) + (Absolute(x - u) + Absolute(y - v)) <= Absolute(x) + Absolute(y)
    <3>1. x - u \in Int /\ y - v \in Int
        OBVIOUS
    <3>2. PICK i \in Nat, j \in Nat, l \in Nat, m \in Nat, g \in Nat, h \in Nat :
              /\ i = Absolute(u) /\ j = Absolute(v) /\ l = Absolute(x) /\ m = Absolute(y)
              /\ g = Absolute(x - u) /\ h = Absolute(y - v)
      <4>1. \A t \in Int : Absolute(t) \in Nat
          BY DEF Absolute
      <4> QED
          BY <3>1, <4>1
    <3> QED
        BY <2>3, <3>2
  <2> QED
      BY <2>4, <2>5, Zenon
<1>13. ASSUME NEW k \in 0..n PROVE Distance(a, at(k)) <= Distance(a, b)
  <2>1. CASE k = 0
    <3>1. at(k) = a
        BY <1>7, <2>1, Zenon
    <3>2. Distance(a, b) \in Nat
        BY DistanceType
    <3>3. Distance(a, a) = 0
        BY <1>2 DEF Distance, Absolute
    <3> QED
        BY <3>1, <3>2, <3>3
  <2>2. CASE k # 0
    <3>1. k - 1 \in 0..(n - 1) /\ (k - 1) + 1 = k
        BY <2>2
    <3>2. Absolute(px(k)) <= Absolute(bx - ax) /\ Absolute(py(k)) <= Absolute(by - ay)
        BY <1>8, <3>1, Zenon
    <3>3. PICK x \in Int, y \in Int : x = px(k) /\ y = py(k)
        BY <1>6
    <3>4. Distance(a, at(k)) = Absolute(x) + Absolute(y)
        BY <1>10, <1>11, <3>3, Zenon
    <3>5. Distance(a, b) = Absolute(bx - ax) + Absolute(by - ay)
        BY <1>11 DEF Distance, Point, Absolute
    <3>6. Absolute(x) <= Absolute(bx - ax) /\ Absolute(y) <= Absolute(by - ay)
        BY <3>2, <3>3, Zenon
    <3>7. Absolute(x) + Absolute(y) <= Absolute(bx - ax) + Absolute(by - ay)
        BY <1>5, <3>6 DEF Absolute
    <3> QED
        BY <3>4, <3>5, <3>7, Zenon
  <2> QED
      BY <2>1, <2>2
<1> HIDE DEF at
<1>14. s \in Seq(Points) /\ Len(s) = n /\ \A k \in 1..n : s[k] = at(k - 1)
  <2>1. \A k \in 1..n : k - 1 \in 0..n
      OBVIOUS
  <2>2. s \in [1..n -> Points] /\ n \in Nat
      BY <1>3, <1>9, <2>1
  <2> QED
      BY <1>3, <2>2
<1>15. s[1] = a
  <2>1. 1 \in 1..n /\ 1 - 1 = 0
      OBVIOUS
  <2> QED
      BY <1>7, <1>14, <2>1, Zenon
<1>16. ASSUME NEW k \in 1..n, k < n
       PROVE  Distance(a, s[k]) + Distance(s[k], s[k + 1]) <= Distance(a, s[k + 1])
  <2>1. PICK j \in 0..(n - 1) : j = k - 1 /\ j + 1 = (k + 1) - 1 /\ k + 1 \in 1..n
      BY <1>16
  <2>2. s[k] = at(j) /\ s[k + 1] = at(j + 1)
      BY <1>14, <2>1, Zenon
  <2> QED
      BY <1>12, <2>2, Zenon
<1>17. Distance(a, s[n]) + Distance(s[n], b) <= Distance(a, b)
  <2>1. PICK j \in 0..(n - 1) : j = n - 1 /\ j + 1 = n /\ n \in 1..n
      OBVIOUS
  <2>2. s[n] = at(j) /\ b = at(j + 1)
      BY <1>7, <1>14, <2>1, Zenon
  <2> QED
      BY <1>12, <2>2, Zenon
<1>18. ASSUME NEW k \in 1..n PROVE Distance(a, s[k]) <= Distance(a, b)
  <2>1. k - 1 \in 0..n
      OBVIOUS
  <2> QED
      BY <1>13, <1>14, <2>1, Zenon
<1> QED
    BY <1>4, <1>14, <1>15, <1>16, <1>17, <1>18 DEF Advances

TraceStrokes == [points : Seq(Points), closed : BOOLEAN]

\* A way along a sequence of points, in at most so much.
Paced(pts, long, pace) ==
    /\ pace \in [1..Len(pts) -> Int]
    /\ \A k \in 1..Len(pts) : 0 <= pace[k] /\ pace[k] <= long
    /\ \A k \in 1..Len(pts) : k < Len(pts) => pace[k] + Distance(pts[k], pts[k + 1]) <= pace[k + 1]

\* Sums of lengths only grow.
LEMMA SumsGrow ==
    ASSUME NEW s \in Seq(Int), NEW it, Sums(s, it), \A i \in 1..Len(s) : s[i] >= 0
    PROVE  \A i \in 0..Len(s) : 0 <= it[i] /\ it[i] <= Total(s)
<1>1. PICK N \in Nat : N = Len(s)
    OBVIOUS
<1>2. /\ it \in [0..N -> Int] /\ it[0] = 0 /\ Total(s) = it[N]
      /\ \A n \in 1..N : it[n] = it[n - 1] + s[n]
    BY <1>1, Zenon DEF Sums
<1>3. \A n \in 1..N : s[n] \in Int /\ s[n] >= 0
    BY <1>1
<1> DEFINE U == {n \in 0..N : \A i \in 0..n : 0 <= it[i] /\ it[i] <= it[n]}
<1>4. 0 \in U
    BY <1>2
<1>5. ASSUME NEW n \in 0..N, n \in U, n < N PROVE n + 1 \in U
  <2>1. PICK m \in 1..N : m = n + 1 /\ m - 1 = n /\ m \in 0..N
      BY <1>5
  <2>2. it[m] = it[n] + s[m] /\ it[n] \in Int /\ it[m] \in Int /\ s[m] \in Int /\ s[m] >= 0
      BY <1>2, <1>3, <2>1
  <2>3. 0 <= it[n] /\ n \in 0..n
      BY <1>5
  <2>4. ASSUME NEW i \in 0..m PROVE 0 <= it[i] /\ it[i] <= it[m]
    <3>1. CASE i = m
        BY <2>2, <2>3, <3>1
    <3>2. CASE i # m
      <4>1. i \in 0..n /\ i \in 0..N
          BY <2>1, <3>2
      <4>2. 0 <= it[i] /\ it[i] <= it[n] /\ it[i] \in Int
          BY <1>2, <1>5, <4>1
      <4> QED
          BY <2>2, <4>2
    <3> QED
        BY <3>1, <3>2
  <2> QED
      BY <2>1, <2>4
<1> HIDE DEF U
<1>6. \A n \in 0..N : n \in U
    BY <1>4, <1>5, UpTo
<1>7. N \in U
    BY <1>6
<1> QED
    BY <1>1, <1>2, <1>7 DEF U

\* Sums of sequences of which one continues the other.
LEMMA TotalExtended ==
    ASSUME NEW s \in Seq(Int), NEW t \in Seq(Int), Len(t) = Len(s) + 1,
           \A i \in 1..Len(s) : t[i] = s[i]
    PROVE  Total(t) = Total(s) + t[Len(t)]
<1>1. PICK N \in Nat : N = Len(s) /\ N + 1 = Len(t)
    OBVIOUS
<1>2. PICK a : Sums(s, a)
    BY TotalSums
<1>3. PICK b : Sums(t, b)
    BY TotalSums
<1>4. a[0] = 0 /\ (\A n \in 1..N : a[n] = a[n - 1] + s[n]) /\ Total(s) = a[N]
    BY <1>1, <1>2, Zenon DEF Sums
<1>5. b[0] = 0 /\ (\A n \in 1..(N + 1) : b[n] = b[n - 1] + t[n]) /\ Total(t) = b[N + 1]
    BY <1>1, <1>3, Zenon DEF Sums
<1> DEFINE U == {n \in 0..N : a[n] = b[n]}
<1>6. 0 \in U
    BY <1>4, <1>5
<1>7. ASSUME NEW n \in 0..N, n \in U, n < N PROVE n + 1 \in U
  <2>1. PICK m \in 1..N : m = n + 1 /\ m - 1 = n /\ m \in 0..N /\ m \in 1..(N + 1)
      BY <1>7
  <2>2. a[m] = a[n] + s[m] /\ b[m] = b[n] + t[m] /\ t[m] = s[m]
      BY <1>1, <1>4, <1>5, <2>1, Zenon
  <2>3. a[m] = b[m]
      BY <1>7, <2>2
  <2> QED
      BY <2>1, <2>3
<1> HIDE DEF U
<1>8. \A n \in 0..N : n \in U
    BY <1>6, <1>7, UpTo
<1>9. a[N] = b[N]
    BY <1>8 DEF U
<1>10. N + 1 \in 1..(N + 1) /\ (N + 1) - 1 = N
    OBVIOUS
<1>11. b[N + 1] = b[N] + t[N + 1]
    BY <1>5, <1>10, Zenon
<1> QED
    BY <1>1, <1>4, <1>5, <1>9, <1>11, Zenon

\* The distances between the points that follow each other.
Legs(pts) == [i \in 1..Len(pts) - 1 |-> Distance(pts[i], pts[i + 1])]

LEMMA LegsFacts ==
    ASSUME NEW pts \in Seq(Points)
    PROVE  /\ Legs(pts) \in Seq(Int) /\ PathLength(pts) = Total(Legs(pts))
           /\ Len(Legs(pts)) = IF Len(pts) = 0 THEN 0 ELSE Len(pts) - 1
           /\ \A i \in 1..Len(Legs(pts)) : /\ Legs(pts)[i] = Distance(pts[i], pts[i + 1])
                                           /\ Legs(pts)[i] \in Nat
                                           /\ i \in 1..Len(pts) /\ i + 1 \in 1..Len(pts)
<1>1. PICK n \in Nat : n = IF Len(pts) = 0 THEN 0 ELSE Len(pts) - 1
  <2>1. PICK l \in Nat : l = Len(pts)
      OBVIOUS
  <2>2. (IF l = 0 THEN 0 ELSE l - 1) \in Nat
      BY SMT
  <2> QED
      BY <2>1, <2>2
<1>2. 1..Len(pts) - 1 = 1..n /\ \A i \in 1..n : i \in 1..Len(pts) /\ i + 1 \in 1..Len(pts)
    BY <1>1
<1>3. \A i \in 1..n : Distance(pts[i], pts[i + 1]) \in Nat
  <2> SUFFICES ASSUME NEW i \in 1..n PROVE Distance(pts[i], pts[i + 1]) \in Nat
      OBVIOUS
  <2>1. pts[i] \in Points /\ pts[i + 1] \in Points
      BY <1>2, ElementOfSeq
  <2> QED
      BY <2>1, DistanceType
<1>4. Legs(pts) = [i \in 1..n |-> Distance(pts[i], pts[i + 1])]
    BY <1>2 DEF Legs
<1>5. Legs(pts) \in [1..n -> Int]
    BY <1>3, <1>4
<1>6. Legs(pts) \in Seq(Int) /\ Len(Legs(pts)) = n
    BY <1>5
<1>7. PathLength(pts) = Total(Legs(pts))
    BY DEF PathLength, Legs
<1> QED
    BY <1>1, <1>2, <1>3, <1>4, <1>6, <1>7

\* An outline is as long as its stroke (Outline, PlannedLengthMm).
LEMMA OutlineFacts ==
    ASSUME NEW stroke \in TraceStrokes
    PROVE  /\ Outline(stroke) \in Seq(Points)
           /\ PathLength(Outline(stroke)) \in Int
           /\ PathLength(Outline(stroke)) >= 0
           /\ PathLength(Outline(stroke)) =
                PathLength(stroke.points)
                + (IF stroke.closed /\ Len(stroke.points) >= 2
                   THEN Distance(stroke.points[1], Last(stroke.points)) ELSE 0)
<1>1. PICK pts \in Seq(Points) : pts = stroke.points
    BY DEF TraceStrokes
<1>2. ASSUME NEW some \in Seq(Points) PROVE PathLength(some) \in Int /\ PathLength(some) >= 0
  <2>1. PICK legs \in Seq(Int) : /\ legs = Legs(some)
                                 /\ \A i \in 1..Len(legs) : legs[i] >= 0
    <3>1. \A i \in 1..Len(Legs(some)) : Legs(some)[i] >= 0
        BY LegsFacts
    <3> QED
        BY <3>1, LegsFacts
  <2>2. PICK it : Sums(legs, it)
      BY TotalSums
  <2>3. Total(legs) \in Int /\ 0 <= Total(legs)
    <3>1. 0 \in 0..Len(legs) /\ Len(legs) \in 0..Len(legs)
        OBVIOUS
    <3>2. \A i \in 0..Len(legs) : 0 <= it[i] /\ it[i] <= Total(legs)
        BY <2>1, <2>2, SumsGrow
    <3>3. Total(legs) = it[Len(legs)] /\ it \in [0..Len(legs) -> Int]
        BY <2>2, Zenon DEF Sums
    <3>4. it[Len(legs)] \in Int
        BY <3>1, <3>3
    <3> QED
        BY <3>1, <3>2, <3>3, <3>4, Zenon
  <2> QED
      BY <2>1, <2>3, LegsFacts
<1>3. CASE ~(stroke.closed /\ Len(pts) >= 2)
  <2>1. Outline(stroke) = pts
      BY <1>1, <1>3 DEF Outline
  <2>2. PICK l \in Int : l = PathLength(pts) /\ l >= 0
      BY <1>2
  <2> QED
      BY <1>1, <1>3, <2>1, <2>2
<1>4. CASE stroke.closed /\ Len(pts) >= 2
  <2>1. PICK more \in Seq(Points) : more = Outline(stroke) /\ more = Append(pts, pts[1])
    <3>1. Outline(stroke) = Append(pts, pts[1])
        BY <1>1, <1>4 DEF Outline
    <3>2. pts[1] \in Points
        BY <1>4
    <3> QED
        BY <3>1, <3>2, AppendProperties
  <2>2. /\ Len(more) = Len(pts) + 1 /\ more[Len(more)] = pts[1]
        /\ \A i \in 1..Len(pts) : more[i] = pts[i]
      BY <1>4, <2>1
  <2>3. PICK n \in Nat : n = Len(pts) /\ n >= 2 /\ Len(more) = n + 1
      BY <1>4, <2>2
  <2>4. PICK s \in Seq(Int), t \in Seq(Int) : s = Legs(pts) /\ t = Legs(more)
      BY LegsFacts
  <2>5. Len(s) = n - 1 /\ Len(t) = n
      BY <2>3, <2>4, LegsFacts
  <2>6. /\ \A i \in 1..(n - 1) : s[i] = Distance(pts[i], pts[i + 1])
        /\ \A i \in 1..n : t[i] = Distance(more[i], more[i + 1])
      BY <2>4, <2>5, LegsFacts
  <2>7. \A i \in 1..Len(s) : t[i] = s[i]
    <3> SUFFICES ASSUME NEW i \in 1..Len(s) PROVE t[i] = s[i]
        OBVIOUS
    <3>1. i \in 1..(n - 1) /\ i \in 1..n /\ i \in 1..Len(pts) /\ i + 1 \in 1..Len(pts)
        BY <2>3, <2>5
    <3>2. more[i] = pts[i] /\ more[i + 1] = pts[i + 1]
        BY <2>2, <3>1, Zenon
    <3> QED
        BY <2>6, <3>1, <3>2, Zenon
  <2>8. t[n] = Distance(pts[n], pts[1])
    <3>1. n \in 1..n /\ n \in 1..Len(pts)
        BY <2>3
    <3>2. t[n] = Distance(more[n], more[n + 1])
        BY <2>6, <3>1, Zenon
    <3>3. more[n] = pts[n] /\ more[n + 1] = pts[1]
        BY <2>2, <2>3, <3>1, Zenon
    <3> QED
        BY <3>2, <3>3, Zenon
  <2>9. Total(t) = Total(s) + t[Len(t)]
    <3>1. Len(t) = Len(s) + 1
        BY <2>3, <2>5
    <3> QED
        BY <2>7, <3>1, TotalExtended
  <2>10. Distance(pts[n], pts[1]) = Distance(pts[1], Last(pts))
    <3>1. Last(pts) = pts[n]
        BY <2>3 DEF Last
    <3>2. pts[1] \in Points /\ pts[n] \in Points
        BY <2>3
    <3> QED
        BY <3>1, <3>2, DistanceSymmetric
  <2>11. PathLength(more) = Total(t) /\ PathLength(pts) = Total(s)
      BY <2>4, LegsFacts, Zenon
  <2>12. PathLength(more) = PathLength(pts) + Distance(pts[1], Last(pts))
      BY <2>5, <2>8, <2>9, <2>10, <2>11, Zenon
  <2>13. PathLength(more) \in Int /\ PathLength(more) >= 0
      BY <1>2
  <2> QED
      BY <1>1, <1>4, <2>1, <2>12, <2>13, Zenon
<1> QED
    BY <1>1, <1>3, <1>4, Zenon

\* The samples along a stroke keep to its outline, and to its length.
LEMMA AlongPaced ==
    ASSUME NEW stroke \in TraceStrokes, NEW step \in Nat \ {0}
    PROVE  /\ Along(stroke, step) \in Seq(Points)
           /\ \E pace : Paced(Along(stroke, step), PathLength(Outline(stroke)), pace)
<1>1. PICK pts \in Seq(Points) : pts = Outline(stroke)
    BY OutlineFacts
<1>2. PICK legs \in Seq(Int) : legs = Legs(pts)
    BY LegsFacts
<1>3. PICK M \in Nat : M = Len(legs)
    OBVIOUS
<1>4. /\ PathLength(Outline(stroke)) = Total(legs)
      /\ \A i \in 1..M : legs[i] = Distance(pts[i], pts[i + 1]) /\ legs[i] \in Nat
      /\ \A i \in 1..M : pts[i] \in Points /\ pts[i + 1] \in Points
      /\ 1..Len(pts) - 1 = 1..M
  <2>1. \A i \in 1..M : /\ legs[i] = Distance(pts[i], pts[i + 1]) /\ legs[i] \in Nat
                        /\ i \in 1..Len(pts) /\ i + 1 \in 1..Len(pts)
      BY <1>2, <1>3, LegsFacts
  <2>2. PathLength(Outline(stroke)) = Total(legs)
      BY <1>1, <1>2, LegsFacts
  <2>3. \A i \in 1..M : pts[i] \in Points /\ pts[i + 1] \in Points
      BY <2>1, ElementOfSeq
  <2>4. 1..Len(pts) - 1 = 1..M
    <3>1. PICK l \in Nat : l = Len(pts)
        OBVIOUS
    <3>2. M = IF l = 0 THEN 0 ELSE l - 1
        BY <1>2, <1>3, <3>1, LegsFacts, Zenon
    <3>3. 1..l - 1 = 1..M
        BY <3>2, SMT
    <3> QED
        BY <3>1, <3>3, Zenon
  <2> QED
      BY <2>1, <2>2, <2>3, <2>4
<1> DEFINE part == [i \in 1..M |-> SamplesOf(pts[i], pts[i + 1], step)]
<1>5. Along(stroke, step) = FlattenSeq(part)
  <2>1. Along(stroke, step) = FlattenSeq([i \in 1..Len(pts) - 1 |->
                                            SamplesOf(pts[i], pts[i + 1], step)])
      BY <1>1 DEF Along, SamplesOf, SegmentSamples
  <2> QED
      BY <1>4, <2>1, Zenon
<1>6. \A i \in 1..M : Advances(pts[i], pts[i + 1], part[i])
  <2> SUFFICES ASSUME NEW i \in 1..M PROVE Advances(pts[i], pts[i + 1], part[i])
      OBVIOUS
  <2>1. part[i] = SamplesOf(pts[i], pts[i + 1], step)
      OBVIOUS
  <2>2. pts[i] \in Points /\ pts[i + 1] \in Points
      BY <1>4
  <2>3. Advances(pts[i], pts[i + 1], SamplesOf(pts[i], pts[i + 1], step))
      BY <2>2, SamplesAdvance
  <2> QED
      BY <2>1, <2>3, Zenon
<1>7. part \in Seq(Filled(Points)) /\ Len(part) = M
  <2>1. \A i \in 1..M : part[i] \in Filled(Points)
    <3> HIDE DEF part
    <3> QED
        BY <1>6 DEF Advances, Filled
  <2>2. part \in [1..M -> Filled(Points)]
      BY <2>1
  <2> QED
      BY <2>2
<1> HIDE DEF part
<1>8. part \in Seq(Seq(Points))
  <2>1. Filled(Points) \subseteq Seq(Points)
      BY DEF Filled
  <2> QED
      BY <1>7, <2>1, SeqMonotonic
<1>9. PICK out \in Seq(Points) : out = FlattenSeq(part) /\ \E off : Flat(part, out, off)
    BY <1>8, Flattened
<1>10. PICK off : out = FlattenSeq(part) /\ Flat(part, out, off)
    BY <1>9
<1>11. PICK hops \in Seq(Int) : hops = Legs(out)
    BY LegsFacts
<1>12. PICK L \in Nat : L = Len(out)
    OBVIOUS
<1>13. /\ Len(hops) = IF L = 0 THEN 0 ELSE L - 1
       /\ \A x \in 1..Len(hops) : hops[x] = Distance(out[x], out[x + 1]) /\ hops[x] \in Nat
    BY <1>11, <1>12, LegsFacts
<1>14. PICK gone : Sums(hops, gone)
    BY TotalSums
<1>15. PICK sum : Sums(legs, sum)
    BY TotalSums
<1>16. /\ sum \in [0..M -> Int] /\ sum[0] = 0
       /\ \A i \in 1..M : sum[i] = sum[i - 1] + legs[i]
       /\ \A i \in 0..M : 0 <= sum[i] /\ sum[i] <= Total(legs)
  <2>1. \A i \in 1..Len(legs) : legs[i] >= 0
      BY <1>3, <1>4
  <2>2. \A i \in 0..M : 0 <= sum[i] /\ sum[i] <= Total(legs)
      BY <1>3, <1>15, <2>1, SumsGrow
  <2> QED
      BY <1>3, <1>15, <2>2, Zenon DEF Sums
<1>17. /\ gone \in [0..Len(hops) -> Int] /\ gone[0] = 0
       /\ \A x \in 1..Len(hops) : gone[x] = gone[x - 1] + hops[x]
       /\ \A x \in 0..Len(hops) : 0 <= gone[x]
  <2>1. \A i \in 1..Len(hops) : hops[i] >= 0
      BY <1>13
  <2>2. \A i \in 0..Len(hops) : 0 <= gone[i]
      BY <1>14, <2>1, SumsGrow
  <2> QED
      BY <1>14, <2>2, Zenon DEF Sums
\* At every sample: no more than the legs before, and the distance from the last
\* vertex.
<1> DEFINE Within(x, i, k) == /\ At(part, off, x, i, k)
                              /\ gone[x - 1] <= sum[i - 1] + Distance(pts[i], out[x])
           U == {x \in 1..L : \E i, k : Within(x, i, k)}
<1>18. ASSUME NEW x, NEW i, NEW k, At(part, off, x, i, k)
       PROVE  /\ i \in 1..M /\ k \in 1..Len(part[i]) /\ out[x] = part[i][k]
              /\ pts[i] \in Points /\ pts[i + 1] \in Points /\ part[i] \in Seq(Points)
              /\ out[x] \in Points
  <2>1. i \in 1..M /\ k \in 1..Len(part[i]) /\ out[x] = part[i][k]
      BY <1>7, <1>10, <1>18, Zenon DEF At, Flat
  <2>2. pts[i] \in Points /\ pts[i + 1] \in Points /\ part[i] \in Seq(Points)
      BY <1>4, <1>6, <2>1 DEF Advances
  <2>3. part[i][k] \in Points
      BY <2>1, <2>2, ElementOfSeq
  <2> QED
      BY <2>1, <2>2, <2>3, Zenon
<1>19. L # 0 => 1 \in U
  <2> SUFFICES ASSUME L # 0 PROVE 1 \in U
      OBVIOUS
  <2>1. At(part, off, 1, 1, 1)
      BY <1>7, <1>10, <1>12, FirstPlace
  <2>2. gone[1 - 1] = 0 /\ sum[1 - 1] = 0
      BY <1>16, <1>17
  <2>3. Distance(pts[1], out[1]) \in Nat
      BY <1>18, <2>1, DistanceType
  <2>4. gone[1 - 1] <= sum[1 - 1] + Distance(pts[1], out[1])
      BY <2>2, <2>3
  <2>5. 1 \in 1..L
      BY <1>12
  <2> QED
      BY <2>1, <2>4, <2>5
<1>20. ASSUME NEW x \in 1..L, x \in U, x < L PROVE x + 1 \in U
  <2>1. PICK i, k : Within(x, i, k)
      BY <1>20
  <2>2. At(part, off, x, i, k)
      BY <2>1
  <2>3. x \in Nat /\ x < Len(out) /\ x + 1 \in 1..L /\ (x + 1) - 1 = x /\ x \in 1..Len(hops)
        /\ x - 1 \in 0..Len(hops) /\ x \in 0..Len(hops)
      BY <1>12, <1>13, <1>20
  <2>4. i \in 1..M /\ i - 1 \in 0..M /\ i \in 0..M /\ (i + 1) - 1 = i
    <3>1. i \in 1..M
        BY <1>18, <2>2
    <3> QED
        BY <3>1
  <2>5. PICK before \in Int, now \in Int, done \in Int, upto \in Int, leg \in Int :
            /\ before = gone[x - 1] /\ now = gone[x] /\ done = sum[i - 1] /\ upto = sum[i]
            /\ leg = legs[i]
    <3>1. gone[x - 1] \in Int /\ gone[x] \in Int
        BY <1>17, <2>3
    <3>2. sum[i - 1] \in Int /\ sum[i] \in Int
        BY <1>16, <2>4
    <3>3. legs[i] \in Int
        BY <1>4, <2>4
    <3> QED
        BY <3>1, <3>2, <3>3
  <2>6. upto = done + leg
      BY <1>16, <2>4, <2>5, Zenon
  <2>7. leg = Distance(pts[i], pts[i + 1])
      BY <1>4, <2>4, <2>5, Zenon
  <2>8. now = before + Distance(out[x], out[x + 1])
      BY <1>13, <1>17, <2>3, <2>5, Zenon
  <2>9. before <= done + Distance(pts[i], out[x])
      BY <2>1, <2>5, Zenon
  <2>10. Advances(pts[i], pts[i + 1], part[i]) /\ out[x] = part[i][k] /\ k \in 1..Len(part[i])
      BY <1>6, <1>18, <2>2, <2>4
  <2>11. pts[i] \in Points /\ pts[i + 1] \in Points /\ out[x] \in Points
      BY <1>18, <2>2
  <2>12. CASE At(part, off, x + 1, i, k + 1)
    <3>1. out[x + 1] = part[i][k + 1] /\ k + 1 \in 1..Len(part[i]) /\ out[x + 1] \in Points
        BY <1>18, <2>12
    <3>2. k < Len(part[i])
        BY <2>10, <3>1
    <3>3. Distance(pts[i], out[x]) + Distance(out[x], out[x + 1]) <= Distance(pts[i], out[x + 1])
        BY <2>10, <3>1, <3>2, Zenon DEF Advances
    <3>4. now <= done + Distance(pts[i], out[x + 1])
      <4>1. PICK d \in Nat, e \in Nat, f \in Nat :
                /\ d = Distance(pts[i], out[x]) /\ e = Distance(out[x], out[x + 1])
                /\ f = Distance(pts[i], out[x + 1])
          BY <2>11, <3>1, DistanceType
      <4>2. d + e <= f /\ before <= done + d /\ now = before + e
          BY <2>8, <2>9, <3>3, <4>1, Zenon
      <4>3. now <= done + f
          BY <4>2, SMT
      <4> QED
          BY <4>1, <4>3, Zenon
    <3>5. Within(x + 1, i, k + 1)
        BY <2>3, <2>5, <2>12, <3>4, Zenon
    <3> HIDE DEF Within
    <3> QED
        BY <2>3, <3>5
  <2>13. CASE k = Len(part[i]) /\ At(part, off, x + 1, i + 1, 1)
    <3>1. out[x + 1] = part[i + 1][1] /\ i + 1 \in 1..M /\ out[x + 1] \in Points
        BY <1>18, <2>13
    <3>2. out[x + 1] = pts[i + 1]
        BY <1>6, <3>1 DEF Advances
    <3>3. Distance(pts[i], out[x]) + Distance(out[x], out[x + 1]) <= Distance(pts[i], pts[i + 1])
        BY <2>10, <2>13, <3>2, Zenon DEF Advances
    <3>4. now <= upto + Distance(pts[i + 1], out[x + 1])
      <4>1. PICK d \in Nat, e \in Nat, f \in Nat :
                /\ d = Distance(pts[i], out[x]) /\ e = Distance(out[x], out[x + 1])
                /\ f = Distance(pts[i + 1], out[x + 1])
          BY <2>11, <3>1, DistanceType
      <4>2. d + e <= leg /\ before <= done + d /\ now = before + e
          BY <2>7, <2>8, <2>9, <3>3, <4>1, Zenon
      <4>3. now <= upto + f
          BY <2>6, <4>2, SMT
      <4> QED
          BY <4>1, <4>3, Zenon
    <3>5. Within(x + 1, i + 1, 1)
        BY <2>3, <2>4, <2>5, <2>13, <3>4, Zenon
    <3> HIDE DEF Within
    <3> QED
        BY <2>3, <3>5
  <2> HIDE DEF Within, U
  <2>14. At(part, off, x + 1, i, k + 1) \/ (k = Len(part[i]) /\ At(part, off, x + 1, i + 1, 1))
      BY <1>7, <1>10, <2>2, <2>3, NextPlace, Zenon
  <2> QED
      BY <2>12, <2>13, <2>14, Zenon
<1> HIDE DEF U
<1>21. \A x \in 1..L : x \in U
    BY <1>19, <1>20, FromOne
<1> DEFINE pace == [x \in 1..L |-> gone[x - 1]]
<1>22. ASSUME NEW x \in 1..L
       PROVE  pace[x] \in Int /\ 0 <= pace[x] /\ pace[x] <= Total(legs)
  <2>1. x - 1 \in 0..Len(hops) /\ pace[x] = gone[x - 1]
      BY <1>13
  <2> HIDE DEF pace
  <2>2. PICK i, k : Within(x, i, k)
      BY <1>21 DEF U
  <2>3. i \in 1..M /\ k \in 1..Len(part[i]) /\ out[x] = part[i][k]
      BY <1>18, <2>2
  <2>4. Distance(pts[i], out[x]) <= legs[i]
    <3>1. Distance(pts[i], part[i][k]) <= Distance(pts[i], pts[i + 1])
        BY <1>6, <2>3, Zenon DEF Advances
    <3> QED
        BY <1>4, <2>3, <3>1, Zenon
  <2>5. PICK before \in Int, done \in Int, upto \in Int, leg \in Int, d \in Nat, whole \in Int :
            /\ before = gone[x - 1] /\ done = sum[i - 1] /\ upto = sum[i] /\ leg = legs[i]
            /\ d = Distance(pts[i], out[x]) /\ whole = Total(legs)
    <3>1. gone[x - 1] \in Int
        BY <1>17, <2>1
    <3>2. i - 1 \in 0..M /\ i \in 0..M /\ M \in 0..M
        BY <2>3
    <3>3. sum[i - 1] \in Int /\ sum[i] \in Int /\ sum[M] \in Int
        BY <1>16, <3>2
    <3>4. legs[i] \in Int
        BY <1>4, <2>3
    <3>5. Total(legs) \in Int
        BY <1>3, <1>15, <3>3 DEF Sums
    <3>6. Distance(pts[i], out[x]) \in Nat
        BY <1>18, <2>2, DistanceType
    <3> QED
        BY <3>1, <3>3, <3>4, <3>5, <3>6
  <2>6. before <= done + d
      BY <2>2, <2>5, Zenon
  <2>7. upto = done + leg /\ upto <= whole /\ d <= leg /\ 0 <= before
    <3>1. i \in 0..M
        BY <2>3
    <3>2. upto = done + leg
        BY <1>16, <2>3, <2>5, Zenon
    <3>3. upto <= whole
        BY <1>16, <2>5, <3>1, Zenon
    <3>4. d <= leg
        BY <2>4, <2>5, Zenon
    <3>5. 0 <= before
        BY <1>17, <2>1, <2>5, Zenon
    <3> QED
        BY <3>2, <3>3, <3>4, <3>5
  <2>8. before <= whole
      BY <2>6, <2>7, SMT
  <2> QED
      BY <2>1, <2>5, <2>7, <2>8, Zenon
<1>23. ASSUME NEW x \in 1..L, x < L
       PROVE  pace[x] + Distance(out[x], out[x + 1]) <= pace[x + 1]
  <2>1. x + 1 \in 1..L /\ (x + 1) - 1 = x /\ x \in 1..Len(hops)
      BY <1>13, <1>23
  <2>2. pace[x] = gone[x - 1] /\ pace[x + 1] = gone[x]
      BY <2>1
  <2>3. pace[x + 1] \in Int
      BY <1>22, <2>1
  <2> HIDE DEF pace
  <2>4. pace[x + 1] = pace[x] + Distance(out[x], out[x + 1])
      BY <1>13, <1>17, <2>1, <2>2, Zenon
  <2> QED
      BY <2>3, <2>4
<1>24. pace \in [1..L -> Int]
    BY <1>22
<1> HIDE DEF pace
<1>25. Paced(out, Total(legs), pace)
    BY <1>12, <1>22, <1>23, <1>24, Zenon DEF Paced
<1> QED
    BY <1>4, <1>5, <1>10, <1>25, Zenon

Samples == [at : Points, contact : BOOLEAN, stroke : Nat]

\* Where the pen is lifted at the end of a stroke.
EndOf(stroke) == IF stroke.points = <<>> THEN Point(0, 0) ELSE Last(Outline(stroke))

\* The samples of the s-th stroke of a plan, of which `first` come before.
BlockAt(stroke, s, first, step, penUp, lifted, k) ==
    IF k <= Len(Along(stroke, step))
    THEN Sample(Along(stroke, step)[k], (first + k - 1) \notin lifted, s)
    ELSE Sample(EndOf(stroke), FALSE, s)

BlockOf(stroke, s, first, step, penUp, lifted) ==
    [k \in 1..(Len(Along(stroke, step)) + penUp) |->
        BlockAt(stroke, s, first, step, penUp, lifted, k)]

LEMMA EndType ==
    ASSUME NEW stroke \in TraceStrokes
    PROVE  EndOf(stroke) \in Points
<1>1. PICK pts \in Seq(Points) : pts = stroke.points
    BY DEF TraceStrokes
<1>2. CASE pts = <<>>
    BY <1>1, <1>2 DEF EndOf, Point, Points
<1>3. CASE pts # <<>>
  <2>1. PICK out \in Seq(Points) : out = Outline(stroke)
      BY OutlineFacts
  <2>2. out = pts \/ out = Append(pts, pts[1])
      BY <1>1, <2>1 DEF Outline
  <2>3. Len(out) >= 1
      BY <1>3, <2>2
  <2>4. Last(out) \in Points
      BY <2>3 DEF Last
  <2> QED
      BY <1>1, <1>3, <2>1, <2>4 DEF EndOf
<1> QED
    BY <1>2, <1>3

LEMMA BlockFacts ==
    ASSUME NEW stroke \in TraceStrokes, NEW s \in Nat, NEW first \in Nat, NEW lifted,
           NEW step \in Nat \ {0}, NEW penUp \in Nat \ {0}
    PROVE  /\ BlockOf(stroke, s, first, step, penUp, lifted) \in Filled(Samples)
           /\ Len(Along(stroke, step)) \in Nat
           /\ Len(BlockOf(stroke, s, first, step, penUp, lifted))
                = Len(Along(stroke, step)) + penUp
           /\ \A k \in 1..(Len(Along(stroke, step)) + penUp) :
                BlockOf(stroke, s, first, step, penUp, lifted)[k]
                    = BlockAt(stroke, s, first, step, penUp, lifted, k)
<1>1. PICK pts \in Seq(Points) : pts = Along(stroke, step)
    BY AlongPaced
<1>2. PICK n \in Nat : n = Len(pts)
    OBVIOUS
<1>3. PICK end \in Points : end = EndOf(stroke)
    BY EndType
<1>4. ASSUME NEW k \in 1..(n + penUp)
      PROVE  BlockAt(stroke, s, first, step, penUp, lifted, k) \in Samples
  <2>1. CASE k <= n
    <3>1. k \in 1..Len(pts)
        BY <1>2, <2>1
    <3>2. pts[k] \in Points
        BY <3>1, ElementOfSeq
    <3>3. BlockAt(stroke, s, first, step, penUp, lifted, k)
            = Sample(pts[k], (first + k - 1) \notin lifted, s)
        BY <1>1, <1>2, <2>1 DEF BlockAt
    <3> QED
        BY <3>2, <3>3 DEF Sample, Samples
  <2>2. CASE ~(k <= n)
    <3>1. BlockAt(stroke, s, first, step, penUp, lifted, k) = Sample(end, FALSE, s)
        BY <1>1, <1>2, <1>3, <2>2, Zenon DEF BlockAt
    <3> QED
        BY <3>1 DEF Sample, Samples
  <2> QED
      BY <2>1, <2>2
<1>5. PICK b : b = BlockOf(stroke, s, first, step, penUp, lifted)
    OBVIOUS
<1>6. b = [k \in 1..(n + penUp) |-> BlockAt(stroke, s, first, step, penUp, lifted, k)]
    BY <1>1, <1>2, <1>5, Zenon DEF BlockOf
<1>7. n + penUp \in Nat /\ n + penUp >= 1
    OBVIOUS
<1>8. b \in Seq(Samples) /\ Len(b) = n + penUp
  <2>1. b \in [1..(n + penUp) -> Samples]
      BY <1>4, <1>6
  <2> QED
      BY <1>7, <2>1
<1>9. \A k \in 1..(n + penUp) : b[k] = BlockAt(stroke, s, first, step, penUp, lifted, k)
    BY <1>6
<1>10. b \in Filled(Samples)
    BY <1>7, <1>8 DEF Filled
<1> QED
    BY <1>1, <1>2, <1>5, <1>8, <1>9, <1>10, Zenon

\* The samples of one stroke more, as Traced adds them.
AddStroke(strokes, step, penUp, lifted, sofar, s) ==
    LET pts == Along(strokes[s], step)
        drawn == [k \in DOMAIN pts |->
                    Sample(pts[k], (sofar.index + k - 1) \notin lifted, s)]
        last == IF strokes[s].points = <<>> THEN Point(0, 0) ELSE Last(Outline(strokes[s]))
        air == [k \in 1..penUp |-> Sample(last, FALSE, s)]
    IN  [samples |-> sofar.samples \o drawn \o air, index |-> sofar.index + Len(pts)]

Joined(a, b, c) == (a \o b) \o c = a \o (b \o c)

LEMMA JoinedAny ==
    ASSUME NEW S, NEW a \in Seq(S), NEW b \in Seq(S), NEW c \in Seq(S)
    PROVE  Joined(a, b, c)
BY ConcatAssociative DEF Joined

Drawing == [samples : Seq(Samples), index : Nat]

Added(stroke, s, sofar, step, penUp, lifted, next) ==
    /\ next \in Drawing
    /\ next.samples = sofar.samples \o BlockOf(stroke, s, sofar.index, step, penUp, lifted)

LEMMA AddStrokeFacts ==
    ASSUME NEW strokes \in Seq(TraceStrokes), NEW s \in 1..Len(strokes), NEW sofar \in Drawing,
           NEW lifted, NEW step \in Nat \ {0}, NEW penUp \in Nat \ {0}
    PROVE  Added(strokes[s], s, sofar, step, penUp, lifted,
                 AddStroke(strokes, step, penUp, lifted, sofar, s))
<1>1. PICK stroke \in TraceStrokes : stroke = strokes[s]
    BY ElementOfSeq
<1>2. PICK before \in Seq(Samples), first \in Nat : before = sofar.samples /\ first = sofar.index
    BY DEF Drawing
<1>3. PICK pts \in Seq(Points) : pts = Along(stroke, step)
    BY AlongPaced
<1>4. PICK n \in Nat : n = Len(pts) /\ DOMAIN pts = 1..n
    OBVIOUS
<1>5. PICK end \in Points : end = EndOf(stroke)
    BY EndType
<1>6. PICK drawn : drawn = [k \in 1..n |-> Sample(pts[k], (first + k - 1) \notin lifted, s)]
    OBVIOUS
<1>7. PICK air : air = [k \in 1..penUp |-> Sample(end, FALSE, s)]
    OBVIOUS
<1>8. AddStroke(strokes, step, penUp, lifted, sofar, s)
        = [samples |-> before \o drawn \o air, index |-> first + n]
    BY <1>1, <1>2, <1>3, <1>4, <1>5, <1>6, <1>7, Zenon DEF AddStroke, EndOf
<1>9. s \in Nat
    OBVIOUS
<1>10. drawn \in Seq(Samples) /\ Len(drawn) = n
  <2>1. \A k \in 1..n : Sample(pts[k], (first + k - 1) \notin lifted, s) \in Samples
    <3> SUFFICES ASSUME NEW k \in 1..n
                 PROVE  Sample(pts[k], (first + k - 1) \notin lifted, s) \in Samples
        OBVIOUS
    <3>1. pts[k] \in Points
        BY <1>4, ElementOfSeq
    <3> QED
        BY <1>9, <3>1 DEF Sample, Samples
  <2>2. drawn \in [1..n -> Samples]
      BY <1>6, <2>1
  <2> QED
      BY <2>2
<1>11. air \in Seq(Samples) /\ Len(air) = penUp
  <2>1. Sample(end, FALSE, s) \in Samples
      BY <1>9 DEF Sample, Samples
  <2>2. air \in [1..penUp -> Samples]
      BY <1>7, <2>1
  <2> QED
      BY <2>2
<1>12. PICK block \in Seq(Samples) :
        /\ block = BlockOf(stroke, s, first, step, penUp, lifted)
        /\ Len(block) = n + penUp
        /\ \A k \in 1..(n + penUp) : block[k] = BlockAt(stroke, s, first, step, penUp, lifted, k)
  <2>1. PICK b : b = BlockOf(stroke, s, first, step, penUp, lifted)
      OBVIOUS
  <2>2. b \in Filled(Samples) /\ Len(b) = Len(Along(stroke, step)) + penUp
      BY <1>9, <2>1, BlockFacts, SMTT(30)
  <2>3. \A k \in 1..(Len(Along(stroke, step)) + penUp) :
            b[k] = BlockAt(stroke, s, first, step, penUp, lifted, k)
      BY <1>9, <2>1, BlockFacts
  <2>4. b \in Seq(Samples)
      BY <2>2 DEF Filled
  <2>5. Len(Along(stroke, step)) = n
      BY <1>3, <1>4, Zenon
  <2>6. Len(b) = n + penUp
      BY <2>2, <2>5, Zenon
  <2>7. \A k \in 1..(n + penUp) : b[k] = BlockAt(stroke, s, first, step, penUp, lifted, k)
      BY <2>3, <2>5, Zenon
  <2> QED
      BY <2>1, <2>4, <2>6, <2>7, Zenon
<1>13. ASSUME NEW k \in 1..(n + penUp) PROVE (drawn \o air)[k] = block[k]
  <2>1. (drawn \o air)[k] = IF k <= n THEN drawn[k] ELSE air[k - n]
    <3>1. \A i \in 1..(Len(drawn) + Len(air)) :
              (drawn \o air)[i] = IF i <= Len(drawn) THEN drawn[i] ELSE air[i - Len(drawn)]
        BY <1>10, <1>11, ConcatProperties
    <3>2. Len(drawn) = n /\ Len(air) = penUp
        BY <1>10, <1>11, Zenon
    <3>3. \A i \in 1..(n + penUp) :
              (drawn \o air)[i] = IF i <= n THEN drawn[i] ELSE air[i - n]
        BY <3>1, <3>2, Zenon
    <3> QED
        BY <3>3
  <2>2. CASE k <= n
    <3>1. k \in 1..n
        BY <2>2
    <3>2. block[k] = Sample(pts[k], (first + k - 1) \notin lifted, s)
        BY <1>3, <1>4, <1>12, <2>2, Zenon DEF BlockAt
    <3> QED
        BY <1>6, <2>1, <2>2, <3>1, <3>2
  <2>3. CASE ~(k <= n)
    <3>1. k - n \in 1..penUp
        BY <2>3
    <3>2. block[k] = Sample(end, FALSE, s)
        BY <1>3, <1>4, <1>5, <1>12, <2>3, Zenon DEF BlockAt
    <3> QED
        BY <1>7, <2>1, <2>3, <3>1, <3>2
  <2> QED
      BY <2>2, <2>3
<1>14. drawn \o air = block
  <2>1. PICK both \in Seq(Samples) : both = drawn \o air /\ Len(both) = n + penUp
    <3>1. drawn \o air \in Seq(Samples) /\ Len(drawn \o air) = Len(drawn) + Len(air)
        BY <1>10, <1>11, ConcatProperties
    <3> QED
        BY <1>10, <1>11, <3>1, Zenon
  <2>2. \A k \in 1..Len(both) : both[k] = block[k]
      BY <1>13, <2>1
  <2> QED
      BY <1>12, <2>1, <2>2, SeqEqual
<1>15. before \o drawn \o air = before \o block
  <2>1. (before \o drawn) \o air = before \o (drawn \o air)
    <3>1. PICK x \in Seq(Samples), y \in Seq(Samples) : x = drawn /\ y = air
        BY <1>10, <1>11
    <3>2. Joined(before, x, y)
        BY JoinedAny
    <3> QED
        BY <3>1, <3>2, Zenon DEF Joined
  <2> QED
      BY <1>14, <2>1, Zenon
<1>16. before \o block \in Seq(Samples) /\ first + n \in Nat
    OBVIOUS
<1>17. AddStroke(strokes, step, penUp, lifted, sofar, s)
        = [samples |-> before \o block, index |-> first + n]
    BY <1>8, <1>15, Zenon
<1>18. [samples |-> before \o block, index |-> first + n] \in Drawing
    BY <1>16 DEF Drawing
<1>19. [samples |-> before \o block, index |-> first + n].samples = before \o block
    OBVIOUS
<1> QED
    BY <1>1, <1>2, <1>12, <1>17, <1>18, <1>19, Zenon DEF Added

\* The blocks of samples of a plan, laid end to end.
BlocksOf(strokes, step, penUp, lifted, first) ==
    [s \in 1..Len(strokes) |-> BlockOf(strokes[s], s, first[s], step, penUp, lifted)]

TracedBy(strokes, step, penUp, lifted, first, off) ==
    /\ first \in [1..Len(strokes) -> Nat]
    /\ Traced(strokes, step, penUp, lifted) \in Seq(Samples)
    /\ Flat(BlocksOf(strokes, step, penUp, lifted, first), Traced(strokes, step, penUp, lifted), off)

LEMMA BlocksFacts ==
    ASSUME NEW strokes \in Seq(TraceStrokes), NEW lifted, NEW first \in [1..Len(strokes) -> Nat],
           NEW step \in Nat \ {0}, NEW penUp \in Nat \ {0}
    PROVE  /\ BlocksOf(strokes, step, penUp, lifted, first) \in Seq(Filled(Samples))
           /\ Len(BlocksOf(strokes, step, penUp, lifted, first)) = Len(strokes)
           /\ \A s \in 1..Len(strokes) : BlocksOf(strokes, step, penUp, lifted, first)[s]
                                        = BlockOf(strokes[s], s, first[s], step, penUp, lifted)
<1>1. PICK N \in Nat : N = Len(strokes)
    OBVIOUS
<1>2. ASSUME NEW s \in 1..N
      PROVE  BlockOf(strokes[s], s, first[s], step, penUp, lifted) \in Filled(Samples)
  <2>1. strokes[s] \in TraceStrokes /\ first[s] \in Nat /\ s \in Nat
      BY <1>1, ElementOfSeq
  <2> QED
      BY <2>1, BlockFacts
<1>3. PICK b : b = BlocksOf(strokes, step, penUp, lifted, first)
    OBVIOUS
<1>4. b = [s \in 1..N |-> BlockOf(strokes[s], s, first[s], step, penUp, lifted)]
    BY <1>1, <1>3 DEF BlocksOf
<1>5. b \in [1..N -> Filled(Samples)]
    BY <1>2, <1>4
<1>6. b \in Seq(Filled(Samples)) /\ Len(b) = N
    BY <1>5
<1>7. \A s \in 1..N : b[s] = BlockOf(strokes[s], s, first[s], step, penUp, lifted)
    BY <1>4
<1> QED
    BY <1>1, <1>3, <1>6, <1>7, Zenon

LEMMA TracedSteps ==
    ASSUME NEW strokes \in Seq(TraceStrokes), NEW lifted, NEW step \in Nat \ {0},
           NEW penUp \in Nat \ {0}
    PROVE  \E first, off : TracedBy(strokes, step, penUp, lifted, first, off)
<1> DEFINE N == Len(strokes)
           none == [samples |-> <<>>, index |-> 0]
           seq == [s \in DOMAIN strokes |-> s]
           rec(g) == g = [u \in SUBSET DOMAIN seq |->
                            IF u = {} THEN none
                            ELSE AddStroke(strokes, step, penUp, lifted, g[u \ {Max(u)}], seq[Max(u)])]
           iter == CHOOSE g : rec(g)
<1>1. Traced(strokes, step, penUp, lifted) = iter[DOMAIN seq].samples
    BY DEF Traced, AddStroke, FoldLeft, MapThenFoldSet
<1>2. N \in Nat /\ DOMAIN seq = 1..N /\ \A s \in 1..N : seq[s] = s
    OBVIOUS
<1>3. none \in Drawing /\ none.samples = <<>>
  <2>1. <<>> \in Seq(Samples) /\ 0 \in Nat
      OBVIOUS
  <2> QED
      BY <2>1 DEF Drawing
<1> HIDE DEF none, seq
<1> DEFINE add(sofar, s) == AddStroke(strokes, step, penUp, lifted, sofar, s)
           f == [s \in 1..N |-> [sofar \in Drawing |-> add(sofar, s)]]
<1>4. \A s \in 1..N : \A sofar \in Drawing :
        Added(strokes[s], s, sofar, step, penUp, lifted, add(sofar, s))
    BY AddStrokeFacts
<1> HIDE DEF add, N
<1>5. f \in [1..N -> [Drawing -> Drawing]]
    BY <1>4 DEF Added
<1>6. \A s \in 1..N : \A sofar \in Drawing : f[s][sofar] = add(sofar, s)
    OBVIOUS
<1> HIDE DEF f
<1>7. FoldsUp(N, Drawing, none, f)
    BY <1>2, <1>3, <1>5, FoldRecursion, Zenon
<1>8. PICK g \in [SUBSET (1..N) -> Drawing] :
        \A u \in SUBSET (1..N) : g[u] = IF u = {} THEN none ELSE f[Max(u)][g[u \ {Max(u)}]]
    BY <1>7 DEF FoldsUp
<1>9. rec(g)
  <2>1. ASSUME NEW u \in SUBSET (1..N)
        PROVE  g[u] = IF u = {} THEN none ELSE add(g[u \ {Max(u)}], seq[Max(u)])
    <3>1. u # {} => Max(u) \in 1..N /\ g[u \ {Max(u)}] \in Drawing
        BY <1>2, MaxOf
    <3>2. g[u] = IF u = {} THEN none ELSE f[Max(u)][g[u \ {Max(u)}]]
        BY <1>8, Zenon
    <3> QED
        BY <1>2, <1>6, <3>1, <3>2, Zenon
  <2> QED
      BY <1>2, <2>1, Zenon DEF add
<1> HIDE DEF rec
<1>10. rec(iter)
    BY <1>9, Zenon
<1> HIDE DEF iter
<1>11. \A u \in SUBSET (1..N) :
        iter[u] = IF u = {} THEN none ELSE add(iter[u \ {Max(u)}], seq[Max(u)])
    BY <1>2, <1>10 DEF rec, add
<1>12. Folded(N, Drawing, none, f, iter[1..N])
  <2>1. iter[{}] = none
      BY <1>11
  <2>2. ASSUME NEW u \in SUBSET (1..N), u # {}, iter[u \ {Max(u)}] \in Drawing
        PROVE  iter[u] = f[Max(u)][iter[u \ {Max(u)}]]
    <3>1. Max(u) \in 1..N
        BY <1>2, <2>2, MaxOf
    <3>2. seq[Max(u)] = Max(u)
        BY <1>2, <3>1, Zenon
    <3>3. iter[u] = add(iter[u \ {Max(u)}], Max(u))
        BY <1>11, <2>2, <3>2, Zenon
    <3> QED
        BY <1>6, <2>2, <3>1, <3>3, Zenon
  <2> QED
      BY <1>2, <1>3, <1>5, <2>1, <2>2, FoldSteps
<1>13. PICK it \in [0..N -> Drawing] :
            /\ it[0] = none /\ it[N] = iter[1..N]
            /\ \A s \in 1..N : it[s] = f[s][it[s - 1]]
    BY <1>12 DEF Folded
<1>14. PICK first : first = [s \in 1..N |-> it[s - 1].index]
    OBVIOUS
<1>15. \A s \in 1..N : s - 1 \in 0..N /\ it[s - 1] \in Drawing
  <2>1. \A s \in 1..N : s - 1 \in 0..N
      BY <1>2
  <2> QED
      BY <1>13, <2>1
<1>16. first \in [1..N -> Nat] /\ \A s \in 1..N : first[s] = it[s - 1].index
    BY <1>14, <1>15 DEF Drawing
<1>17. PICK blocks : blocks = BlocksOf(strokes, step, penUp, lifted, first)
    OBVIOUS
<1>18. /\ blocks \in Seq(Seq(Samples)) /\ Len(blocks) = N
       /\ \A s \in 1..N : blocks[s] = BlockOf(strokes[s], s, first[s], step, penUp, lifted)
  <2>1. /\ blocks \in Seq(Filled(Samples)) /\ Len(blocks) = N
        /\ \A s \in 1..N : blocks[s] = BlockOf(strokes[s], s, first[s], step, penUp, lifted)
      BY <1>16, <1>17, BlocksFacts DEF N
  <2>2. Filled(Samples) \subseteq Seq(Samples)
      BY DEF Filled
  <2> QED
      BY <2>1, <2>2, SeqMonotonic
<1>19. PICK fl : fl = [n \in 0..N |-> it[n].samples]
    OBVIOUS
<1>20. fl \in [0..N -> Seq(Samples)] /\ fl[0] = <<>> /\ fl[N] = it[N].samples
  <2>1. 0 \in 0..N /\ N \in 0..N
      BY <1>2
  <2>2. fl \in [0..N -> Seq(Samples)]
      BY <1>13, <1>19 DEF Drawing
  <2>3. fl[0] = none.samples /\ fl[N] = it[N].samples
      BY <1>13, <1>19, <2>1
  <2> QED
      BY <1>3, <2>2, <2>3, Zenon
<1>21. ASSUME NEW s \in 1..N PROVE fl[s] = fl[s - 1] \o blocks[s]
  <2>1. s \in 0..N /\ s - 1 \in 0..N
      BY <1>2
  <2>2. fl[s] = it[s].samples /\ fl[s - 1] = it[s - 1].samples
      BY <1>19, <2>1
  <2>3. it[s] = add(it[s - 1], s)
      BY <1>6, <1>13, <1>15, Zenon
  <2>4. it[s].samples = it[s - 1].samples
                        \o BlockOf(strokes[s], s, it[s - 1].index, step, penUp, lifted)
      BY <1>4, <1>15, <2>3, Zenon DEF Added
  <2>5. blocks[s] = BlockOf(strokes[s], s, it[s - 1].index, step, penUp, lifted)
      BY <1>16, <1>18, Zenon
  <2> QED
      BY <2>2, <2>4, <2>5, Zenon
<1>22. PICK off : Flat(blocks, fl[N], off)
    BY <1>18, <1>20, <1>21, Concatenated
<1>23. Traced(strokes, step, penUp, lifted) = fl[N]
    BY <1>1, <1>2, <1>13, <1>20, Zenon
<1>24. fl[N] \in Seq(Samples)
  <2>1. N \in 0..N
      BY <1>2
  <2> QED
      BY <1>20, <2>1
<1>25. first \in [1..Len(strokes) -> Nat]
    BY <1>16 DEF N
<1>26. TracedBy(strokes, step, penUp, lifted, first, off)
    BY <1>17, <1>22, <1>23, <1>24, <1>25, Zenon DEF TracedBy
<1> QED
    BY <1>26

\* The sample at a place: k-th of stroke s.
Placed(strokes, step, penUp, lifted, first, off, x, s, k) ==
    /\ At(BlocksOf(strokes, step, penUp, lifted, first), off, x, s, k)
    /\ s \in 1..Len(strokes)
    /\ k \in 1..(Len(Along(strokes[s], step)) + penUp)
    /\ Traced(strokes, step, penUp, lifted)[x]
         = BlockAt(strokes[s], s, first[s], step, penUp, lifted, k)

LEMMA PlaceOf ==
    ASSUME NEW strokes \in Seq(TraceStrokes), NEW lifted, NEW step \in Nat \ {0},
           NEW penUp \in Nat \ {0}, NEW first, NEW off,
           TracedBy(strokes, step, penUp, lifted, first, off), NEW x, NEW s, NEW k,
           At(BlocksOf(strokes, step, penUp, lifted, first), off, x, s, k)
    PROVE  Placed(strokes, step, penUp, lifted, first, off, x, s, k)
<1>1. PICK blocks \in Seq(Filled(Samples)) :
        /\ blocks = BlocksOf(strokes, step, penUp, lifted, first)
        /\ Len(blocks) = Len(strokes)
        /\ \A i \in 1..Len(strokes) : blocks[i] = BlockOf(strokes[i], i, first[i], step, penUp, lifted)
    BY BlocksFacts DEF TracedBy
<1>2. s \in 1..Len(strokes) /\ k \in 1..Len(blocks[s])
      /\ Traced(strokes, step, penUp, lifted)[x] = blocks[s][k]
  <2>1. Flat(blocks, Traced(strokes, step, penUp, lifted), off)
      BY <1>1, Zenon DEF TracedBy
  <2>2. s \in 1..Len(blocks) /\ k \in 1..Len(blocks[s]) /\ x = off[s - 1] + k
      BY <1>1, Zenon DEF At
  <2> QED
      BY <1>1, <2>1, <2>2, Zenon DEF Flat
<1>3. blocks[s] = BlockOf(strokes[s], s, first[s], step, penUp, lifted)
    BY <1>1, <1>2, Zenon
<1>4. strokes[s] \in TraceStrokes /\ first[s] \in Nat /\ s \in Nat
  <2>1. strokes[s] \in TraceStrokes
      BY <1>2, ElementOfSeq
  <2> QED
      BY <1>2, <2>1 DEF TracedBy
<1>5. PICK stroke \in TraceStrokes, f \in Nat, t \in Nat : stroke = strokes[s] /\ f = first[s] /\ t = s
    BY <1>4
<1>6. /\ Len(BlockOf(stroke, t, f, step, penUp, lifted)) = Len(Along(stroke, step)) + penUp
      /\ \A i \in 1..(Len(Along(stroke, step)) + penUp) :
            BlockOf(stroke, t, f, step, penUp, lifted)[i]
                = BlockAt(stroke, t, f, step, penUp, lifted, i)
    BY BlockFacts
<1>7. k \in 1..(Len(Along(strokes[s], step)) + penUp)
    BY <1>2, <1>3, <1>5, <1>6, Zenon
<1>8. blocks[s][k] = BlockAt(strokes[s], s, first[s], step, penUp, lifted, k)
    BY <1>3, <1>5, <1>6, <1>7, Zenon
<1> QED
    BY <1>2, <1>7, <1>8, Zenon DEF Placed

LEMMA EveryPlace ==
    ASSUME NEW strokes \in Seq(TraceStrokes), NEW lifted, NEW step \in Nat \ {0},
           NEW penUp \in Nat \ {0}, NEW first, NEW off,
           TracedBy(strokes, step, penUp, lifted, first, off),
           NEW x \in 1..Len(Traced(strokes, step, penUp, lifted))
    PROVE  \E s, k : Placed(strokes, step, penUp, lifted, first, off, x, s, k)
<1>1. PICK blocks \in Seq(Filled(Samples)) : blocks = BlocksOf(strokes, step, penUp, lifted, first)
    BY BlocksFacts DEF TracedBy
<1>2. PICK out \in Seq(Samples) : out = Traced(strokes, step, penUp, lifted)
    BY DEF TracedBy
<1>3. Flat(blocks, out, off)
    BY <1>1, <1>2, Zenon DEF TracedBy
<1>4. \A y \in 1..Len(out) : \E i, k : At(blocks, off, y, i, k) /\ out[y] = blocks[i][k]
    BY <1>3, Places
<1>5. PICK s, k : At(blocks, off, x, s, k)
    BY <1>2, <1>4, Zenon
<1>6. At(BlocksOf(strokes, step, penUp, lifted, first), off, x, s, k)
    BY <1>1, <1>5, Zenon
<1>7. Placed(strokes, step, penUp, lifted, first, off, x, s, k)
    BY <1>6, PlaceOf
<1> QED
    BY <1>7

\* The sample after it: the next of its stroke, or the first of the next one
\* after the last in the air.
LEMMA PlaceAfter ==
    ASSUME NEW strokes \in Seq(TraceStrokes), NEW lifted, NEW step \in Nat \ {0},
           NEW penUp \in Nat \ {0}, NEW first, NEW off,
           TracedBy(strokes, step, penUp, lifted, first, off),
           NEW x \in 1..Len(Traced(strokes, step, penUp, lifted)),
           x < Len(Traced(strokes, step, penUp, lifted)),
           NEW s, NEW k, Placed(strokes, step, penUp, lifted, first, off, x, s, k)
    PROVE  \/ Placed(strokes, step, penUp, lifted, first, off, x + 1, s, k + 1)
           \/ /\ k = Len(Along(strokes[s], step)) + penUp
              /\ Placed(strokes, step, penUp, lifted, first, off, x + 1, s + 1, 1)
<1>1. PICK blocks \in Seq(Filled(Samples)) :
        /\ blocks = BlocksOf(strokes, step, penUp, lifted, first)
        /\ \A i \in 1..Len(strokes) : blocks[i] = BlockOf(strokes[i], i, first[i], step, penUp, lifted)
    BY BlocksFacts DEF TracedBy
<1>2. PICK out \in Seq(Samples) : out = Traced(strokes, step, penUp, lifted)
    BY DEF TracedBy
<1>3. Flat(blocks, out, off)
    BY <1>1, <1>2, Zenon DEF TracedBy
<1>4. x \in Nat /\ x < Len(out)
    BY <1>2
<1>5. At(blocks, off, x, s, k)
    BY <1>1, Zenon DEF Placed
<1>6. \/ At(blocks, off, x + 1, s, k + 1)
      \/ k = Len(blocks[s]) /\ At(blocks, off, x + 1, s + 1, 1)
    BY <1>3, <1>4, <1>5, NextPlace
<1>7. Len(blocks[s]) = Len(Along(strokes[s], step)) + penUp
  <2>1. s \in 1..Len(strokes)
      BY DEF Placed
  <2>2. strokes[s] \in TraceStrokes /\ first[s] \in Nat /\ s \in Nat
    <3>1. strokes[s] \in TraceStrokes
        BY <2>1, ElementOfSeq
    <3> QED
        BY <2>1, <3>1 DEF TracedBy
  <2>3. PICK stroke \in TraceStrokes, f \in Nat, t \in Nat :
            stroke = strokes[s] /\ f = first[s] /\ t = s
      BY <2>2
  <2>4. Len(BlockOf(stroke, t, f, step, penUp, lifted)) = Len(Along(stroke, step)) + penUp
      BY BlockFacts, SMTT(30)
  <2> QED
      BY <1>1, <2>1, <2>3, <2>4, Zenon
<1>8. CASE At(blocks, off, x + 1, s, k + 1)
  <2>1. At(BlocksOf(strokes, step, penUp, lifted, first), off, x + 1, s, k + 1)
      BY <1>1, <1>8, Zenon
  <2>2. Placed(strokes, step, penUp, lifted, first, off, x + 1, s, k + 1)
      BY <2>1, PlaceOf
  <2> QED
      BY <2>2
<1>9. CASE k = Len(blocks[s]) /\ At(blocks, off, x + 1, s + 1, 1)
  <2>1. At(BlocksOf(strokes, step, penUp, lifted, first), off, x + 1, s + 1, 1)
      BY <1>1, <1>9, Zenon
  <2>2. Placed(strokes, step, penUp, lifted, first, off, x + 1, s + 1, 1)
      BY <2>1, PlaceOf
  <2> QED
      BY <1>7, <1>9, <2>2, Zenon
<1> QED
    BY <1>6, <1>8, <1>9, Zenon

\* What is at a place: after the points of the stroke the pen is in the air.
LEMMA PlaceHolds ==
    ASSUME NEW strokes \in Seq(TraceStrokes), NEW lifted, NEW step \in Nat \ {0},
           NEW penUp \in Nat \ {0}, NEW first, NEW off, NEW x, NEW s, NEW k,
           Placed(strokes, step, penUp, lifted, first, off, x, s, k)
    PROVE  /\ s \in 1..Len(strokes) /\ Traced(strokes, step, penUp, lifted)[x].stroke = s
           /\ k \in Nat /\ k >= 1
           /\ Traced(strokes, step, penUp, lifted)[x].contact =>
                /\ k \in 1..Len(Along(strokes[s], step))
                /\ Traced(strokes, step, penUp, lifted)[x].at = Along(strokes[s], step)[k]
           /\ k \in 1..Len(Along(strokes[s], step)) /\ lifted = {} =>
                Traced(strokes, step, penUp, lifted)[x].contact
<1>1. PICK stroke \in TraceStrokes : stroke = strokes[s] /\ s \in 1..Len(strokes)
  <2>1. s \in 1..Len(strokes)
      BY DEF Placed
  <2> QED
      BY <2>1, ElementOfSeq
<1>2. PICK pts \in Seq(Points) : pts = Along(stroke, step)
    BY AlongPaced
<1>3. PICK n \in Nat : n = Len(pts)
    OBVIOUS
<1>4. PICK sample : sample = Traced(strokes, step, penUp, lifted)[x]
    OBVIOUS
<1>5. k \in 1..(n + penUp) /\ sample = BlockAt(stroke, s, first[s], step, penUp, lifted, k)
    BY <1>1, <1>2, <1>3, <1>4, Zenon DEF Placed
<1>6. CASE k <= n
  <2>1. sample = Sample(pts[k], (first[s] + k - 1) \notin lifted, s)
      BY <1>2, <1>3, <1>5, <1>6, Zenon DEF BlockAt
  <2>2. sample.stroke = s /\ sample.at = pts[k] /\ (lifted = {} => sample.contact)
      BY <2>1 DEF Sample
  <2>3. k \in 1..n /\ k \in Nat /\ k >= 1
      BY <1>5, <1>6
  <2> QED
      BY <1>1, <1>2, <1>3, <1>4, <2>2, <2>3, Zenon
<1>7. CASE ~(k <= n)
  <2>1. sample = Sample(EndOf(stroke), FALSE, s)
      BY <1>2, <1>3, <1>5, <1>7, Zenon DEF BlockAt
  <2>2. sample.stroke = s /\ ~sample.contact
      BY <2>1 DEF Sample
  <2>3. k \notin 1..n /\ k \in Nat /\ k >= 1
      BY <1>5, <1>7
  <2> QED
      BY <1>1, <1>2, <1>3, <1>4, <2>2, <2>3, Zenon
<1> QED
    BY <1>6, <1>7

\* The strokes come in their order, with the pen in the air between two of them.
InOrder(samples, count) ==
    /\ samples \in Seq(Samples)
    /\ \A x \in 1..Len(samples) : samples[x].stroke \in 1..count
    /\ \A x \in 1..Len(samples) : x < Len(samples) =>
        \/ samples[x + 1].stroke = samples[x].stroke
        \/ samples[x].stroke < samples[x + 1].stroke /\ ~samples[x].contact

\* The pen touches down once for each stroke at most.
OncePerStroke(samples) ==
    \A x \in 1..Len(samples) :
        (x < Len(samples) /\ samples[x + 1].stroke = samples[x].stroke
            /\ samples[x + 1].contact) => samples[x].contact

LEMMA TracedInOrder ==
    ASSUME NEW strokes \in Seq(TraceStrokes), NEW lifted, NEW step \in Nat \ {0},
           NEW penUp \in Nat \ {0}
    PROVE  /\ InOrder(Traced(strokes, step, penUp, lifted), Len(strokes))
           /\ lifted = {} => OncePerStroke(Traced(strokes, step, penUp, lifted))
<1> DEFINE samples == Traced(strokes, step, penUp, lifted)
<1>1. PICK first, off : TracedBy(strokes, step, penUp, lifted, first, off)
    BY TracedSteps
<1> DEFINE Is(x, s, k) == Placed(strokes, step, penUp, lifted, first, off, x, s, k)
<1>2. samples \in Seq(Samples)
    BY <1>1 DEF TracedBy
<1>3. \A x \in 1..Len(samples) : \E s, k : Is(x, s, k)
    BY <1>1, EveryPlace
<1>4. ASSUME NEW x, NEW s, NEW k, Is(x, s, k)
      PROVE  /\ s \in 1..Len(strokes) /\ samples[x].stroke = s /\ k \in Nat /\ k >= 1
             /\ samples[x].contact => k \in 1..Len(Along(strokes[s], step))
             /\ k \in 1..Len(Along(strokes[s], step)) /\ lifted = {} => samples[x].contact
    BY <1>4, PlaceHolds
<1>5. ASSUME NEW x \in 1..Len(samples), x < Len(samples), NEW s, NEW k, Is(x, s, k)
      PROVE  \/ Is(x + 1, s, k + 1)
             \/ k = Len(Along(strokes[s], step)) + penUp /\ Is(x + 1, s + 1, 1)
    BY <1>1, <1>5, PlaceAfter
<1>6. ASSUME NEW s \in 1..Len(strokes) PROVE Len(Along(strokes[s], step)) \in Nat
  <2>1. strokes[s] \in TraceStrokes
      BY ElementOfSeq
  <2>2. Along(strokes[s], step) \in Seq(Points)
      BY <2>1, AlongPaced
  <2> QED
      BY <2>2
<1> HIDE DEF samples, Is
<1>7. ASSUME NEW x \in 1..Len(samples) PROVE samples[x].stroke \in 1..Len(strokes)
    BY <1>3, <1>4, Zenon
<1>8. ASSUME NEW x \in 1..Len(samples), x < Len(samples)
      PROVE  /\ \/ samples[x + 1].stroke = samples[x].stroke
                \/ samples[x].stroke < samples[x + 1].stroke /\ ~samples[x].contact
             /\ (samples[x + 1].stroke = samples[x].stroke /\ samples[x + 1].contact
                    /\ lifted = {}) => samples[x].contact
  <2>1. PICK s, k : Is(x, s, k)
      BY <1>3
  <2>2. /\ s \in 1..Len(strokes) /\ samples[x].stroke = s /\ k \in Nat /\ k >= 1
        /\ samples[x].contact => k \in 1..Len(Along(strokes[s], step))
        /\ k \in 1..Len(Along(strokes[s], step)) /\ lifted = {} => samples[x].contact
      BY <1>4, <2>1
  <2>3. PICK n \in Nat : n = Len(Along(strokes[s], step))
      BY <1>6, <2>2
  <2>4. CASE Is(x + 1, s, k + 1)
    <3>1. samples[x + 1].stroke = s /\ (samples[x + 1].contact => k + 1 \in 1..n)
        BY <1>4, <2>3, <2>4, Zenon
    <3>2. k + 1 \in 1..n => k \in 1..n
        BY <2>2
    <3> QED
        BY <2>2, <2>3, <3>1, <3>2, Zenon
  <2>5. CASE k = n + penUp /\ Is(x + 1, s + 1, 1)
    <3>1. samples[x + 1].stroke = s + 1
        BY <1>4, <2>5, Zenon
    <3>2. ~samples[x].contact
      <4>1. k \notin 1..n
          BY <2>5
      <4> QED
          BY <2>2, <2>3, <4>1, Zenon
    <3>3. s < s + 1 /\ s # s + 1
        BY <2>2
    <3> QED
        BY <2>2, <3>1, <3>2, <3>3, Zenon
  <2>6. \/ Is(x + 1, s, k + 1)
        \/ k = Len(Along(strokes[s], step)) + penUp /\ Is(x + 1, s + 1, 1)
      BY <1>5, <1>8, <2>1, Zenon
  <2>7. Is(x + 1, s, k + 1) \/ (k = n + penUp /\ Is(x + 1, s + 1, 1))
      BY <2>3, <2>6, Zenon
  <2> QED
      BY <2>4, <2>5, <2>7, Zenon
<1>9. InOrder(samples, Len(strokes))
    BY <1>2, <1>7, <1>8, Zenon DEF InOrder
<1>10. lifted = {} => OncePerStroke(samples)
    BY <1>8, Zenon DEF OncePerStroke
<1> QED
    BY <1>9, <1>10 DEF samples

\* The strokes of later samples are not earlier ones.
LEMMA NeverEarlier ==
    ASSUME NEW samples, NEW count \in Nat, InOrder(samples, count)
    PROVE  \A i, j \in 1..Len(samples) : i <= j => samples[i].stroke <= samples[j].stroke
<1>1. PICK L \in Nat : L = Len(samples)
    BY DEF InOrder
<1>2. \A x \in 1..L : samples[x].stroke \in 1..count
    BY <1>1 DEF InOrder
<1>3. \A x \in 1..L : x < L => \/ samples[x + 1].stroke = samples[x].stroke
                               \/ samples[x].stroke < samples[x + 1].stroke
    BY <1>1 DEF InOrder
<1> DEFINE U == {n \in 0..L : \A i \in 1..n : samples[i].stroke <= samples[n].stroke}
<1>4. 0 \in U
    BY <1>1
<1>5. ASSUME NEW n \in 0..L, n \in U, n < L PROVE n + 1 \in U
  <2>1. n + 1 \in 1..L /\ n + 1 \in 0..L
      BY <1>5
  <2>2. samples[n + 1].stroke \in Nat
      BY <1>2, <2>1
  <2>3. ASSUME NEW i \in 1..(n + 1) PROVE samples[i].stroke <= samples[n + 1].stroke
    <3>1. CASE i = n + 1
        BY <2>2, <3>1
    <3>2. CASE i # n + 1
      <4>1. i \in 1..n /\ n \in 1..L /\ i \in 1..L
          BY <1>5, <3>2
      <4>2. samples[i].stroke <= samples[n].stroke
          BY <1>5, <4>1
      <4>3. samples[n].stroke \in Nat /\ samples[i].stroke \in Nat
          BY <1>2, <4>1
      <4>4. \/ samples[n + 1].stroke = samples[n].stroke
            \/ samples[n].stroke < samples[n + 1].stroke
          BY <1>3, <1>5, <4>1
      <4> QED
          BY <2>2, <4>2, <4>3, <4>4
    <3> QED
        BY <3>1, <3>2
  <2> QED
      BY <2>1, <2>3
<1> HIDE DEF U
<1>6. \A n \in 0..L : n \in U
    BY <1>4, <1>5, UpTo
<1>7. ASSUME NEW i \in 1..L, NEW j \in 1..L, i <= j
      PROVE  samples[i].stroke <= samples[j].stroke
  <2>1. j \in 0..L /\ i \in 1..j
      BY <1>7
  <2>2. j \in U
      BY <1>6, <2>1
  <2> QED
      BY <2>1, <2>2 DEF U
<1> QED
    BY <1>1, <1>7

\* Where the pen touches down for a stroke.
StartsOf(samples, s) == {i \in DOMAIN samples : Starts(samples, i) /\ samples[i].stroke = s}

LEMMA PiecesAreStarts ==
    ASSUME NEW samples, NEW count \in Nat, InOrder(samples, count), NEW s
    PROVE  /\ IsFiniteSet(StartsOf(samples, s))
           /\ Pieces(samples, s) = Cardinality(StartsOf(samples, s))
           /\ OncePerStroke(samples) => Cardinality(StartsOf(samples, s)) <= 1
<1>1. PICK L \in Nat : L = Len(samples) /\ DOMAIN samples = 1..L
    BY DEF InOrder
<1>2. IsFiniteSet(1..L)
    BY FS_Interval
<1>3. StartsOf(samples, s) \in SUBSET (1..L)
    BY <1>1 DEF StartsOf
<1>4. IsFiniteSet(StartsOf(samples, s))
    BY <1>2, <1>3, FS_Subset
<1>5. ASSUME NEW i \in 1..L, i # 1
      PROVE  /\ i - 1 \in 1..L
             /\ samples[i - 1].stroke = samples[i].stroke \/ ~samples[i - 1].contact
  <2>1. PICK j \in 1..L : j = i - 1 /\ j + 1 = i /\ j < L
      BY <1>5
  <2>2. samples[j + 1].stroke = samples[j].stroke \/ ~samples[j].contact
      BY <1>1, <2>1 DEF InOrder
  <2> QED
      BY <2>1, <2>2
<1>6. Pieces(samples, s) = Cardinality(StartsOf(samples, s))
  <2> DEFINE P == {i \in DOMAIN samples : samples[i].stroke = s /\ samples[i].contact
                        /\ (i = 1 \/ ~samples[i - 1].contact \/ samples[i - 1].stroke # s)}
  <2>1. P = StartsOf(samples, s)
    <3>1. ASSUME NEW i \in 1..L
          PROVE  (samples[i].stroke = s /\ samples[i].contact
                    /\ (i = 1 \/ ~samples[i - 1].contact \/ samples[i - 1].stroke # s))
                 <=> (Starts(samples, i) /\ samples[i].stroke = s)
        BY <1>5 DEF Starts
    <3> QED
        BY <1>1, <3>1, Zenon DEF StartsOf
  <2> QED
      BY <2>1, Zenon DEF Pieces
<1>7. ASSUME OncePerStroke(samples) PROVE Cardinality(StartsOf(samples, s)) <= 1
  <2>1. CASE StartsOf(samples, s) = {}
      BY <2>1, FS_EmptySet
  <2>2. CASE StartsOf(samples, s) # {}
    <3>1. PICK i : i \in StartsOf(samples, s)
        BY <2>2
    <3>2. ASSUME NEW a \in StartsOf(samples, s), NEW b \in StartsOf(samples, s), a < b
          PROVE  FALSE
      <4>1. a \in 1..L /\ b \in 1..L /\ b # 1
          BY <1>3, <3>2
      <4>2. PICK c \in 1..L : c = b - 1 /\ c + 1 = b /\ c < L /\ a <= c
          BY <3>2, <4>1
      <4>3. samples[a].stroke = s /\ samples[b].stroke = s /\ samples[b].contact
            /\ ~samples[c].contact
          BY <4>1, <4>2 DEF StartsOf, Starts
      <4>4. samples[c].stroke # s
          BY <1>1, <1>7, <4>2, <4>3, Zenon DEF OncePerStroke
      <4>5. samples[a].stroke <= samples[c].stroke /\ samples[c].stroke <= samples[b].stroke
        <5>1. c <= b
            BY <4>2
        <5> QED
            BY <1>1, <4>1, <4>2, <5>1, NeverEarlier
      <4>6. samples[c].stroke \in Nat /\ s \in Nat
          BY <1>1, <4>1, <4>3 DEF InOrder
      <4> QED
          BY <4>3, <4>4, <4>5, <4>6
    <3>3. StartsOf(samples, s) = {i}
      <4>1. ASSUME NEW j \in StartsOf(samples, s) PROVE j = i
        <5>1. i \in 1..L /\ j \in 1..L
            BY <1>3, <3>1, <4>1
        <5> QED
            BY <3>1, <3>2, <5>1
      <4> QED
          BY <3>1, <4>1
    <3>4. Cardinality({i}) = 1
        BY FS_Singleton, Zenon
    <3>5. PICK n \in Nat : n = Cardinality(StartsOf(samples, s)) /\ n = 1
        BY <3>3, <3>4
    <3> QED
        BY <3>5
  <2> QED
      BY <2>1, <2>2
<1> QED
    BY <1>4, <1>6, <1>7

\* The pieces beyond one of each stroke, and the strokes without any.
Extra(samples, count) == [s \in 1..count |-> Larger(0, Pieces(samples, s) - 1)]
Untouched(samples, count) == {s \in 1..count : Pieces(samples, s) = 0}

BreaksCounted(samples, count) ==
    /\ SegmentCount(samples) \in Nat
    /\ Total(Extra(samples, count)) \in Nat
    /\ SegmentCount(samples) - count <= Total(Extra(samples, count))
    /\ Cardinality(Untouched(samples, count)) \in Nat
    /\ count - SegmentCount(samples) <= Cardinality(Untouched(samples, count))
    /\ OncePerStroke(samples) => SegmentCount(samples) <= count

\* Stroke by stroke: the pieces up to it are as many as the strokes, without
\* those not touched, and the extra ones.
LEMMA CountBreaks ==
    ASSUME NEW samples, NEW count \in Nat, InOrder(samples, count)
    PROVE  BreaksCounted(samples, count)
<1>1. PICK L \in Nat : L = Len(samples) /\ DOMAIN samples = 1..L
    BY DEF InOrder
<1>2. \A x \in 1..L : samples[x].stroke \in 1..count
    BY <1>1 DEF InOrder
<1> DEFINE upTo(n) == {i \in 1..L : Starts(samples, i) /\ samples[i].stroke <= n}
           c(n) == Cardinality(upTo(n))
           none(n) == {s \in 1..n : Pieces(samples, s) = 0}
           z(n) == Cardinality(none(n))
           p(s) == Pieces(samples, s)
<1>3. ASSUME NEW n \in 0..count
      PROVE  /\ IsFiniteSet(upTo(n)) /\ IsFiniteSet(none(n)) /\ c(n) \in Nat /\ z(n) \in Nat
  <2>1. IsFiniteSet(1..L) /\ IsFiniteSet(1..n)
    <3>1. 1 \in Int /\ L \in Int /\ n \in Int
        OBVIOUS
    <3> QED
        BY <3>1, FS_Interval
  <2>2. upTo(n) \in SUBSET (1..L) /\ none(n) \in SUBSET (1..n)
      OBVIOUS
  <2> HIDE DEF upTo, none
  <2>3. IsFiniteSet(upTo(n)) /\ IsFiniteSet(none(n))
      BY <2>1, <2>2, FS_Subset
  <2> QED
      BY <2>3, FS_CardinalityType
<1>4. \A s \in 1..count : /\ p(s) \in Nat /\ p(s) = Cardinality(StartsOf(samples, s))
                          /\ IsFiniteSet(StartsOf(samples, s))
                          /\ OncePerStroke(samples) => p(s) <= 1
  <2> SUFFICES ASSUME NEW s \in 1..count
               PROVE  /\ p(s) \in Nat /\ p(s) = Cardinality(StartsOf(samples, s))
                      /\ IsFiniteSet(StartsOf(samples, s))
                      /\ OncePerStroke(samples) => p(s) <= 1
      OBVIOUS
  <2>1. /\ IsFiniteSet(StartsOf(samples, s)) /\ p(s) = Cardinality(StartsOf(samples, s))
        /\ OncePerStroke(samples) => Cardinality(StartsOf(samples, s)) <= 1
      BY PiecesAreStarts
  <2>2. Cardinality(StartsOf(samples, s)) \in Nat
      BY <2>1, FS_CardinalityType
  <2> QED
      BY <2>1, <2>2, Zenon
<1>5. c(0) = 0 /\ z(0) = 0
  <2>1. upTo(0) = {} /\ none(0) = {}
      BY <1>2
  <2> QED
      BY <2>1, FS_EmptySet
<1>6. ASSUME NEW n \in 1..count
      PROVE  /\ c(n) = c(n - 1) + p(n)
             /\ z(n) = z(n - 1) + (IF p(n) = 0 THEN 1 ELSE 0)
  <2>1. n - 1 \in 0..count /\ n \in 0..count
      OBVIOUS
  <2>2. c(n) = c(n - 1) + p(n)
    <3>1. upTo(n) = upTo(n - 1) \cup StartsOf(samples, n)
      <4>1. ASSUME NEW i \in 1..L
            PROVE  samples[i].stroke <= n <=> samples[i].stroke <= n - 1 \/ samples[i].stroke = n
          BY <1>2
      <4> QED
          BY <1>1, <4>1 DEF StartsOf
    <3>2. upTo(n - 1) \cap StartsOf(samples, n) = {}
        BY <1>1 DEF StartsOf
    <3>3. IsFiniteSet(upTo(n - 1)) /\ IsFiniteSet(StartsOf(samples, n))
        BY <1>3, <1>4, <2>1
    <3> HIDE DEF upTo
    <3>4. Cardinality(upTo(n - 1) \cup StartsOf(samples, n))
            = Cardinality(upTo(n - 1)) + Cardinality(StartsOf(samples, n))
              - Cardinality(upTo(n - 1) \cap StartsOf(samples, n))
        BY <3>3, FS_Union
    <3>5. Cardinality(upTo(n - 1) \cap StartsOf(samples, n)) = 0
        BY <3>2, FS_EmptySet
    <3>6. PICK a \in Nat, b \in Nat : a = c(n - 1) /\ b = p(n)
      <4>1. c(n - 1) \in Nat /\ p(n) \in Nat
          BY <1>3, <1>4, <2>1
      <4> QED
          BY <4>1, Zenon
    <3>7. c(n) = a + b - 0
        BY <1>4, <3>1, <3>4, <3>5, <3>6, Zenon
    <3>8. a + b - 0 = a + b
        OBVIOUS
    <3> QED
        BY <3>6, <3>7, <3>8, Zenon
  <2>3. CASE p(n) = 0
    <3>1. none(n) = none(n - 1) \cup {n} /\ n \notin none(n - 1)
        BY <2>3
    <3>2. IsFiniteSet(none(n - 1))
        BY <1>3, <2>1
    <3> HIDE DEF none
    <3>3. Cardinality(none(n - 1) \cup {n}) = Cardinality(none(n - 1)) + 1
        BY <3>1, <3>2, FS_AddElement
    <3> QED
        BY <2>2, <2>3, <3>1, <3>3
  <2>4. CASE p(n) # 0
    <3>1. none(n) = none(n - 1)
        BY <2>4
    <3>2. z(n) = z(n - 1) /\ z(n - 1) \in Nat
        BY <1>3, <2>1, <3>1
    <3> QED
        BY <2>2, <2>4, <3>2
  <2> QED
      BY <2>3, <2>4
<1>7. upTo(count) = {i \in DOMAIN samples : Starts(samples, i)}
  <2>1. \A i \in 1..L : samples[i].stroke <= count
      BY <1>2
  <2> QED
      BY <1>1, <2>1
<1>8. SegmentCount(samples) = c(count) /\ Untouched(samples, count) = none(count)
    BY <1>7 DEF SegmentCount, Untouched
<1>9. PICK extra \in Seq(Int) :
        /\ extra = Extra(samples, count) /\ Len(extra) = count
        /\ \A s \in 1..count : extra[s] = (IF p(s) = 0 THEN 0 ELSE p(s) - 1)
  <2> HIDE DEF p
  <2>1. PICK e : e = [s \in 1..count |-> Larger(0, p(s) - 1)]
      OBVIOUS
  <2>2. \A s \in 1..count : Larger(0, p(s) - 1) = (IF p(s) = 0 THEN 0 ELSE p(s) - 1)
      BY <1>4 DEF Larger
  <2>3. \A s \in 1..count : (IF p(s) = 0 THEN 0 ELSE p(s) - 1) \in Int
      BY <1>4
  <2>4. e \in [1..count -> Int]
      BY <2>1, <2>2, <2>3
  <2>5. e \in Seq(Int) /\ Len(e) = count
      BY <2>4
  <2>6. e = Extra(samples, count)
      BY <2>1 DEF Extra, p
  <2> QED
      BY <2>1, <2>2, <2>5, <2>6
<1> HIDE DEF upTo, c, none, z, p
<1>10. PICK sum : Sums(extra, sum)
    BY TotalSums
<1>11. /\ sum \in [0..count -> Int] /\ sum[0] = 0 /\ Total(extra) = sum[count]
       /\ \A n \in 1..count : sum[n] = sum[n - 1] + extra[n]
    BY <1>9, <1>10, Zenon DEF Sums
<1> DEFINE T == {n \in 0..count : /\ 0 <= sum[n] /\ c(n) - n <= sum[n] /\ n - c(n) <= z(n)
                                  /\ OncePerStroke(samples) => c(n) <= n}
<1>12. 0 \in T
    BY <1>5, <1>11
<1>13. ASSUME NEW n \in 0..count, n \in T, n < count PROVE n + 1 \in T
  <2>1. PICK m \in 1..count : m = n + 1 /\ m - 1 = n /\ m \in 0..count
      BY <1>13
  <2>2. PICK q \in Nat : q = p(m) /\ (OncePerStroke(samples) => q <= 1)
      BY <1>4
  <2>3. /\ c(m) = c(n) + q /\ z(m) = z(n) + (IF q = 0 THEN 1 ELSE 0)
        /\ sum[m] = sum[n] + (IF q = 0 THEN 0 ELSE q - 1)
      BY <1>6, <1>9, <1>11, <2>1, <2>2, Zenon
  <2>4. c(n) \in Nat /\ z(n) \in Nat /\ sum[n] \in Int
      BY <1>3, <1>11
  <2>5. /\ 0 <= sum[n] /\ c(n) - n <= sum[n] /\ n - c(n) <= z(n)
        /\ OncePerStroke(samples) => c(n) <= n
      BY <1>13
  <2>6. 0 <= sum[m] /\ c(m) - m <= sum[m] /\ m - c(m) <= z(m)
    <3>1. CASE q = 0
        BY <2>1, <2>3, <2>4, <2>5, <3>1
    <3>2. CASE q # 0
        BY <2>1, <2>3, <2>4, <2>5, <3>2, SMTT(30)
    <3> QED
        BY <3>1, <3>2
  <2>7. OncePerStroke(samples) => c(m) <= m
      BY <2>1, <2>2, <2>3, <2>4, <2>5
  <2> QED
      BY <2>1, <2>6, <2>7
<1> HIDE DEF T
<1>14. \A n \in 0..count : n \in T
    BY <1>12, <1>13, UpTo
<1>15. /\ 0 <= sum[count] /\ c(count) - count <= sum[count] /\ count - c(count) <= z(count)
       /\ OncePerStroke(samples) => c(count) <= count
  <2>1. count \in 0..count
      OBVIOUS
  <2> QED
      BY <1>14, <2>1 DEF T
<1>16. c(count) \in Nat /\ z(count) \in Nat /\ sum[count] \in Nat
    BY <1>3, <1>11, <1>15
<1>17. Cardinality(Untouched(samples, count)) = z(count)
    BY <1>8 DEF z
<1> QED
    BY <1>8, <1>9, <1>11, <1>15, <1>16, <1>17, Zenon DEF BreaksCounted

-----------------------------------------------------------------------------
(* The drifting trace differs in its points alone.                           *)

\* One sample more, as Drifted adds it.
AddDrifted(sofar, sample) ==
    LET d == sofar.drift + (IF sample.contact THEN 3 ELSE 0)
        moved == IF sample.contact
                 THEN [sample EXCEPT !.at = Point(@.x + d \div 2, @.y + d \div 4)]
                 ELSE sample
    IN  [drift |-> d, samples |-> Append(sofar.samples, moved)]

Drifting == [drift : Nat, samples : Seq(Samples)]

Moved(sofar, sample, next) ==
    /\ next \in Drifting
    /\ \E moved \in Samples : /\ moved.contact = sample.contact /\ moved.stroke = sample.stroke
                              /\ next.samples = Append(sofar.samples, moved)

LEMMA AddDriftedFacts ==
    ASSUME NEW sofar \in Drifting, NEW sample \in Samples
    PROVE  Moved(sofar, sample, AddDrifted(sofar, sample))
<1>1. PICK before \in Seq(Samples), d0 \in Nat : before = sofar.samples /\ d0 = sofar.drift
    BY DEF Drifting
<1>2. PICK d \in Nat : d = d0 + (IF sample.contact THEN 3 ELSE 0)
    OBVIOUS
<1>3. PICK moved \in Samples :
        /\ moved = IF sample.contact
                   THEN [sample EXCEPT !.at = Point(@.x + d \div 2, @.y + d \div 4)]
                   ELSE sample
        /\ moved.contact = sample.contact /\ moved.stroke = sample.stroke
  <2>1. PICK q \in Points, c \in BOOLEAN, s \in Nat :
            /\ q = sample.at /\ c = sample.contact /\ s = sample.stroke
            /\ sample = [at |-> q, contact |-> c, stroke |-> s]
      BY DEF Samples
  <2>2. PICK r \in Points : r = Point(q.x + d \div 2, q.y + d \div 4)
    <3>1. q.x \in Int /\ q.y \in Int /\ d \div 2 \in Int /\ d \div 4 \in Int
        BY DEF Points
    <3>2. q.x + d \div 2 \in Int /\ q.y + d \div 4 \in Int
        BY <3>1
    <3> QED
        BY <3>2 DEF Point, Points
  <2>3. [sample EXCEPT !.at = Point(@.x + d \div 2, @.y + d \div 4)]
          = [at |-> r, contact |-> c, stroke |-> s]
      BY <2>1, <2>2
  <2>4. [at |-> r, contact |-> c, stroke |-> s] \in Samples
      BY DEF Samples
  <2>5. CASE c = TRUE
      BY <2>1, <2>3, <2>4, <2>5
  <2>6. CASE c = FALSE
      BY <2>1, <2>6
  <2> QED
      BY <2>5, <2>6
<1>4. AddDrifted(sofar, sample) = [drift |-> d, samples |-> Append(before, moved)]
    BY <1>1, <1>2, <1>3, Zenon DEF AddDrifted
<1>5. Append(before, moved) \in Seq(Samples)
    OBVIOUS
<1>6. /\ [drift |-> d, samples |-> Append(before, moved)] \in Drifting
      /\ [drift |-> d, samples |-> Append(before, moved)].samples = Append(before, moved)
    BY <1>5 DEF Drifting
<1> QED
    BY <1>1, <1>3, <1>4, <1>6, Zenon DEF Moved

\* The same strokes, with the pen down at the same samples.
SameMarks(some, other) ==
    /\ some \in Seq(Samples) /\ Len(some) = Len(other)
    /\ \A x \in 1..Len(other) : /\ some[x].contact = other[x].contact
                                /\ some[x].stroke = other[x].stroke

LEMMA DriftedMarks ==
    ASSUME NEW samples \in Seq(Samples)
    PROVE  SameMarks(Drifted(samples), samples)
<1> DEFINE N == Len(samples)
           none == [drift |-> 0, samples |-> <<>>]
           rec(g) == g = [u \in SUBSET DOMAIN samples |->
                            IF u = {} THEN none
                            ELSE AddDrifted(g[u \ {Max(u)}], samples[Max(u)])]
           iter == CHOOSE g : rec(g)
<1>1. Drifted(samples) = iter[DOMAIN samples].samples
    BY DEF Drifted, AddDrifted, FoldLeft, MapThenFoldSet
<1>2. N \in Nat /\ DOMAIN samples = 1..N /\ \A n \in 1..N : samples[n] \in Samples
    OBVIOUS
<1>3. none \in Drifting /\ none.samples = <<>>
  <2>1. <<>> \in Seq(Samples) /\ 0 \in Nat
      OBVIOUS
  <2> QED
      BY <2>1 DEF Drifting
<1> HIDE DEF none, N
<1> DEFINE f == [n \in 1..N |-> [sofar \in Drifting |-> AddDrifted(sofar, samples[n])]]
<1>4. \A n \in 1..N : \A sofar \in Drifting :
        Moved(sofar, samples[n], AddDrifted(sofar, samples[n]))
    BY <1>2, AddDriftedFacts
<1>5. f \in [1..N -> [Drifting -> Drifting]]
    BY <1>4 DEF Moved
<1>6. \A n \in 1..N : \A sofar \in Drifting : f[n][sofar] = AddDrifted(sofar, samples[n])
    OBVIOUS
<1> HIDE DEF f
<1>7. FoldsUp(N, Drifting, none, f)
    BY <1>2, <1>3, <1>5, FoldRecursion, Zenon
<1>8. PICK g \in [SUBSET (1..N) -> Drifting] :
        \A u \in SUBSET (1..N) : g[u] = IF u = {} THEN none ELSE f[Max(u)][g[u \ {Max(u)}]]
    BY <1>7 DEF FoldsUp
<1>9. rec(g)
  <2>1. ASSUME NEW u \in SUBSET (1..N)
        PROVE  g[u] = IF u = {} THEN none ELSE AddDrifted(g[u \ {Max(u)}], samples[Max(u)])
    <3>1. u # {} => Max(u) \in 1..N /\ g[u \ {Max(u)}] \in Drifting
        BY <1>2, MaxOf
    <3>2. g[u] = IF u = {} THEN none ELSE f[Max(u)][g[u \ {Max(u)}]]
        BY <1>8, Zenon
    <3> QED
        BY <1>6, <3>1, <3>2, Zenon
  <2> QED
      BY <1>2, <2>1, Zenon
<1> HIDE DEF rec
<1>10. rec(iter)
    BY <1>9, Zenon
<1> HIDE DEF iter
<1>11. \A u \in SUBSET (1..N) :
        iter[u] = IF u = {} THEN none ELSE AddDrifted(iter[u \ {Max(u)}], samples[Max(u)])
    BY <1>2, <1>10 DEF rec
<1>12. Folded(N, Drifting, none, f, iter[1..N])
  <2>1. iter[{}] = none
      BY <1>11
  <2>2. ASSUME NEW u \in SUBSET (1..N), u # {}, iter[u \ {Max(u)}] \in Drifting
        PROVE  iter[u] = f[Max(u)][iter[u \ {Max(u)}]]
    <3>1. Max(u) \in 1..N
        BY <1>2, <2>2, MaxOf
    <3> QED
        BY <1>6, <1>11, <2>2, <3>1, Zenon
  <2> QED
      BY <1>2, <1>3, <1>5, <2>1, <2>2, FoldSteps
<1>13. PICK it \in [0..N -> Drifting] :
            /\ it[0] = none /\ it[N] = iter[1..N]
            /\ \A n \in 1..N : it[n] = f[n][it[n - 1]]
    BY <1>12 DEF Folded
<1> DEFINE Same(n) ==
                /\ Len(it[n].samples) = n
                /\ \A x \in 1..n : /\ it[n].samples[x].contact = samples[x].contact
                                   /\ it[n].samples[x].stroke = samples[x].stroke
           T == {n \in 0..N : Same(n)}
<1>14. 0 \in T
  <2>1. it[0].samples = <<>>
      BY <1>3, <1>13
  <2>2. Same(0)
      BY <2>1
  <2> QED
      BY <1>2, <2>2
<1>15. ASSUME NEW n \in 0..N, n \in T, n < N PROVE n + 1 \in T
  <2>1. PICK m \in 1..N : m = n + 1 /\ m - 1 = n /\ m \in 0..N
      BY <1>2, <1>15
  <2>2. Moved(it[n], samples[m], it[m])
    <3>1. it[n] \in Drifting
        BY <1>13
    <3>2. it[m] = AddDrifted(it[n], samples[m])
        BY <1>6, <1>13, <2>1, <3>1, Zenon
    <3> QED
        BY <1>4, <3>1, <3>2, Zenon
  <2>3. PICK moved \in Samples :
            /\ moved.contact = samples[m].contact /\ moved.stroke = samples[m].stroke
            /\ it[m].samples = Append(it[n].samples, moved)
      BY <2>2 DEF Moved
  <2>4. PICK before \in Seq(Samples) : before = it[n].samples
      BY <1>13 DEF Drifting
  <2>5. /\ Len(before) = n
        /\ \A x \in 1..n : /\ before[x].contact = samples[x].contact
                           /\ before[x].stroke = samples[x].stroke
      BY <1>15, <2>4
  <2>6. PICK after \in Seq(Samples) : after = it[m].samples /\ after = Append(before, moved)
    <3>1. Append(before, moved) \in Seq(Samples)
        OBVIOUS
    <3> QED
        BY <2>3, <2>4, <3>1, Zenon
  <2>7. Len(after) = m /\ after[m] = moved /\ \A x \in 1..n : after[x] = before[x]
      BY <2>1, <2>5, <2>6
  <2>8. ASSUME NEW x \in 1..m
        PROVE  after[x].contact = samples[x].contact /\ after[x].stroke = samples[x].stroke
    <3>1. CASE x = m
        BY <2>3, <2>7, <3>1, Zenon
    <3>2. CASE x # m
      <4>1. x \in 1..n
          BY <2>1, <3>2
      <4> QED
          BY <2>5, <2>7, <4>1, Zenon
    <3> QED
        BY <3>1, <3>2
  <2>9. Same(m)
      BY <2>6, <2>7, <2>8, Zenon
  <2> HIDE DEF Same
  <2> QED
      BY <2>1, <2>9
<1> HIDE DEF T
<1>16. \A n \in 0..N : n \in T
    BY <1>2, <1>14, <1>15, UpTo
<1>17. N \in 0..N
    BY <1>2
<1>18. Same(N) /\ it[N].samples \in Seq(Samples)
  <2>1. Same(N)
      BY <1>16, <1>17 DEF T
  <2>2. it[N].samples \in Seq(Samples)
      BY <1>13, <1>17 DEF Drifting
  <2> QED
      BY <2>1, <2>2
<1>19. Drifted(samples) = it[N].samples
    BY <1>1, <1>2, <1>13, Zenon
<1> QED
    BY <1>18, <1>19, Zenon DEF SameMarks, N

\* Such a trace has its strokes in the same order.
LEMMA MarksInOrder ==
    ASSUME NEW samples, NEW count \in Nat, InOrder(samples, count),
           NEW other, SameMarks(other, samples)
    PROVE  /\ InOrder(other, count)
           /\ OncePerStroke(samples) => OncePerStroke(other)
<1>1. PICK L \in Nat : L = Len(samples) /\ L = Len(other)
    BY DEF InOrder, SameMarks
<1>2. \A x \in 1..L : other[x].contact = samples[x].contact /\ other[x].stroke = samples[x].stroke
    BY <1>1 DEF SameMarks
<1>3. \A x \in 1..L : x < L => x + 1 \in 1..L
    BY <1>1
<1>4. \A x \in 1..L : samples[x].stroke \in 1..count
    BY <1>1 DEF InOrder
<1>5. \A x \in 1..L : x < L =>
        \/ samples[x + 1].stroke = samples[x].stroke
        \/ samples[x].stroke < samples[x + 1].stroke /\ ~samples[x].contact
    BY <1>1, Zenon DEF InOrder
<1>6. \A x \in 1..L : x < L =>
        \/ other[x + 1].stroke = other[x].stroke
        \/ other[x].stroke < other[x + 1].stroke /\ ~other[x].contact
  <2> SUFFICES ASSUME NEW x \in 1..L, x < L
               PROVE  \/ other[x + 1].stroke = other[x].stroke
                      \/ other[x].stroke < other[x + 1].stroke /\ ~other[x].contact
      OBVIOUS
  <2>1. /\ other[x + 1].stroke = samples[x + 1].stroke /\ other[x].stroke = samples[x].stroke
        /\ other[x].contact = samples[x].contact
      BY <1>2, <1>3, Zenon
  <2> QED
      BY <1>5, <2>1, Zenon
<1>7. InOrder(other, count)
    BY <1>1, <1>2, <1>4, <1>6, Zenon DEF InOrder, SameMarks
<1>8. ASSUME OncePerStroke(samples) PROVE OncePerStroke(other)
  <2> SUFFICES ASSUME NEW x \in 1..L, x < L, other[x + 1].stroke = other[x].stroke,
                      other[x + 1].contact
               PROVE  other[x].contact
      BY <1>1, Zenon DEF OncePerStroke
  <2>1. /\ other[x + 1].stroke = samples[x + 1].stroke /\ other[x].stroke = samples[x].stroke
        /\ other[x].contact = samples[x].contact /\ other[x + 1].contact = samples[x + 1].contact
      BY <1>2, <1>3, Zenon
  <2> QED
      BY <1>1, <1>8, <2>1, Zenon DEF OncePerStroke
<1> QED
    BY <1>7, <1>8

-----------------------------------------------------------------------------
(* What is drawn of a plan.                                                   *)

\* The way between two samples that follow each other, if the pen is down at both.
DrawnLegs(samples) ==
    [i \in 1..Len(samples) - 1 |->
        IF samples[i].contact /\ samples[i + 1].contact
        THEN Distance(samples[i].at, samples[i + 1].at) ELSE 0]

LEMMA DrawnLegsFacts ==
    ASSUME NEW samples \in Seq(Samples)
    PROVE  /\ DrawnLegs(samples) \in Seq(Int) /\ DrawnLength(samples) = Total(DrawnLegs(samples))
           /\ Len(DrawnLegs(samples)) = IF Len(samples) = 0 THEN 0 ELSE Len(samples) - 1
           /\ \A i \in 1..Len(DrawnLegs(samples)) :
                /\ DrawnLegs(samples)[i] = IF samples[i].contact /\ samples[i + 1].contact
                                           THEN Distance(samples[i].at, samples[i + 1].at) ELSE 0
                /\ DrawnLegs(samples)[i] \in Nat
<1>1. PICK n \in Nat : n = IF Len(samples) = 0 THEN 0 ELSE Len(samples) - 1
  <2>1. PICK l \in Nat : l = Len(samples)
      OBVIOUS
  <2>2. (IF l = 0 THEN 0 ELSE l - 1) \in Nat
      BY SMT
  <2> QED
      BY <2>1, <2>2
<1>2. 1..Len(samples) - 1 = 1..n /\ \A i \in 1..n : i \in 1..Len(samples) /\ i + 1 \in 1..Len(samples)
    BY <1>1
<1> DEFINE leg(i) == IF samples[i].contact /\ samples[i + 1].contact
                     THEN Distance(samples[i].at, samples[i + 1].at) ELSE 0
<1>3. \A i \in 1..n : leg(i) \in Nat
  <2> SUFFICES ASSUME NEW i \in 1..n PROVE leg(i) \in Nat
      OBVIOUS
  <2>1. samples[i] \in Samples /\ samples[i + 1] \in Samples
      BY <1>2, ElementOfSeq
  <2>2. samples[i].at \in Points /\ samples[i + 1].at \in Points
      BY <2>1 DEF Samples
  <2>3. Distance(samples[i].at, samples[i + 1].at) \in Nat
      BY <2>2, DistanceType
  <2> QED
      BY <2>3
<1>4. DrawnLegs(samples) = [i \in 1..n |-> leg(i)]
    BY <1>2 DEF DrawnLegs
<1>5. DrawnLength(samples) = Total(DrawnLegs(samples))
    BY DEF DrawnLength, DrawnLegs
<1> HIDE DEF leg
<1>6. DrawnLegs(samples) \in [1..n -> Int]
    BY <1>3, <1>4
<1>7. DrawnLegs(samples) \in Seq(Int) /\ Len(DrawnLegs(samples)) = n
    BY <1>6
<1>8. \A i \in 1..n : DrawnLegs(samples)[i] = leg(i)
    BY <1>4
<1>9. \A i \in 1..Len(DrawnLegs(samples)) :
        DrawnLegs(samples)[i] = leg(i) /\ DrawnLegs(samples)[i] \in Nat
    BY <1>3, <1>7, <1>8
<1>10. Len(DrawnLegs(samples)) = IF Len(samples) = 0 THEN 0 ELSE Len(samples) - 1
    BY <1>1, <1>7, Zenon
<1> USE DEF leg
<1> QED
    BY <1>5, <1>7, <1>9, <1>10

\* The lengths of the outlines of a plan, which PlannedLength adds up.
OutlineLengths(strokes) == [s \in 1..Len(strokes) |-> PathLength(Outline(strokes[s]))]

LEMMA PlannedFacts ==
    ASSUME NEW strokes \in Seq(TraceStrokes)
    PROVE  /\ OutlineLengths(strokes) \in Seq(Int)
           /\ Len(OutlineLengths(strokes)) = Len(strokes)
           /\ \A s \in 1..Len(strokes) :
                /\ OutlineLengths(strokes)[s] = PathLength(Outline(strokes[s]))
                /\ OutlineLengths(strokes)[s] \in Int /\ OutlineLengths(strokes)[s] >= 0
           /\ PlannedLength(strokes) = Total(OutlineLengths(strokes))
<1>1. PICK N \in Nat : N = Len(strokes) /\ DOMAIN strokes = 1..N
    OBVIOUS
<1> DEFINE long(s) == PathLength(Outline(strokes[s]))
           planned(s) == LET pts == strokes[s].points
                         IN  PathLength(pts) + (IF strokes[s].closed /\ Len(pts) >= 2
                                                THEN Distance(pts[1], Last(pts)) ELSE 0)
<1>2. ASSUME NEW s \in 1..N
      PROVE  long(s) \in Int /\ long(s) >= 0 /\ long(s) = planned(s)
  <2>1. strokes[s] \in TraceStrokes
      BY <1>1, ElementOfSeq
  <2> QED
      BY <2>1, OutlineFacts
<1>3. PlannedLength(strokes) = Total([s \in 1..N |-> planned(s)])
    BY <1>1 DEF PlannedLength
<1>4. OutlineLengths(strokes) = [s \in 1..N |-> long(s)]
    BY <1>1 DEF OutlineLengths
<1> HIDE DEF long, planned
<1>5. [s \in 1..N |-> planned(s)] = [s \in 1..N |-> long(s)]
    BY <1>2
<1>6. OutlineLengths(strokes) \in [1..N -> Int]
    BY <1>2, <1>4
<1>7. OutlineLengths(strokes) \in Seq(Int) /\ Len(OutlineLengths(strokes)) = N
    BY <1>6
<1>8. \A s \in 1..N : OutlineLengths(strokes)[s] = long(s)
    BY <1>4
<1> QED
    BY <1>1, <1>2, <1>3, <1>4, <1>5, <1>7, <1>8, Zenon DEF long

\* How far along its stroke each sample is at the least.
PaceOf(stroke, step) ==
    CHOOSE pace : Paced(Along(stroke, step), PathLength(Outline(stroke)), pace)

LEMMA PaceFacts ==
    ASSUME NEW stroke \in TraceStrokes, NEW step \in Nat \ {0}
    PROVE  Paced(Along(stroke, step), PathLength(Outline(stroke)), PaceOf(stroke, step))
<1>1. \E pace : Paced(Along(stroke, step), PathLength(Outline(stroke)), pace)
    BY AlongPaced
<1> QED
    BY <1>1, Zenon DEF PaceOf

\* Up to each sample no more is drawn than the strokes before it are long, and
\* the way along its own (DrawnLengthMm, PlannedLengthMm).
LEMMA DrawnUpTo ==
    ASSUME NEW strokes \in Seq(TraceStrokes), NEW lifted, NEW step \in Nat \ {0},
           NEW penUp \in Nat \ {0}
    PROVE  DrawnLength(Traced(strokes, step, penUp, lifted)) <= PlannedLength(strokes)
<1>1. PICK first, off : TracedBy(strokes, step, penUp, lifted, first, off)
    BY TracedSteps
<1>2. PICK samples \in Seq(Samples) : samples = Traced(strokes, step, penUp, lifted)
    BY <1>1 DEF TracedBy
<1>3. PICK N \in Nat, L \in Nat : N = Len(strokes) /\ L = Len(samples)
    OBVIOUS
<1> DEFINE Is(x, s, k) == Placed(strokes, step, penUp, lifted, first, off, x, s, k)
           along(s) == Along(strokes[s], step)
           pace(s) == PaceOf(strokes[s], step)
<1>4. \A x \in 1..L : \E s, k : Is(x, s, k)
    BY <1>1, <1>2, <1>3, EveryPlace
<1>5. ASSUME NEW x, NEW s, NEW k, Is(x, s, k)
      PROVE  /\ s \in 1..N /\ k \in Nat /\ k >= 1
             /\ samples[x].contact => k \in 1..Len(along(s)) /\ samples[x].at = along(s)[k]
  <2>1. /\ s \in 1..Len(strokes) /\ k \in Nat /\ k >= 1
        /\ Traced(strokes, step, penUp, lifted)[x].contact =>
            /\ k \in 1..Len(Along(strokes[s], step))
            /\ Traced(strokes, step, penUp, lifted)[x].at = Along(strokes[s], step)[k]
      BY <1>5, PlaceHolds
  <2> QED
      BY <1>2, <1>3, <2>1, Zenon
<1>6. ASSUME NEW x \in 1..L, x < L, NEW s, NEW k, Is(x, s, k)
      PROVE  \/ Is(x + 1, s, k + 1)
             \/ k = Len(along(s)) + penUp /\ Is(x + 1, s + 1, 1)
    BY <1>1, <1>2, <1>3, <1>6, PlaceAfter
<1>7. PICK lens \in Seq(Int) :
        /\ lens = OutlineLengths(strokes) /\ Len(lens) = N /\ PlannedLength(strokes) = Total(lens)
        /\ \A s \in 1..N : lens[s] = PathLength(Outline(strokes[s])) /\ lens[s] >= 0
  <2>1. OutlineLengths(strokes) \in Seq(Int) /\ Len(OutlineLengths(strokes)) = N
        /\ PlannedLength(strokes) = Total(OutlineLengths(strokes))
      BY <1>3, PlannedFacts
  <2>2. \A s \in 1..N : /\ OutlineLengths(strokes)[s] = PathLength(Outline(strokes[s]))
                        /\ OutlineLengths(strokes)[s] >= 0
      BY <1>3, PlannedFacts
  <2> QED
      BY <2>1, <2>2, Zenon
<1>8. ASSUME NEW s \in 1..N
      PROVE  along(s) \in Seq(Points) /\ Paced(along(s), lens[s], pace(s))
  <2>1. PICK stroke \in TraceStrokes : stroke = strokes[s]
      BY <1>3, ElementOfSeq
  <2>2. Along(stroke, step) \in Seq(Points)
      BY AlongPaced
  <2>3. Paced(Along(stroke, step), PathLength(Outline(stroke)), PaceOf(stroke, step))
      BY PaceFacts
  <2> QED
      BY <1>7, <2>1, <2>2, <2>3, Zenon
<1>9. PICK hops \in Seq(Int) :
        /\ hops = DrawnLegs(samples) /\ DrawnLength(samples) = Total(hops)
        /\ Len(hops) = IF L = 0 THEN 0 ELSE L - 1
  <2>1. DrawnLegs(samples) \in Seq(Int) /\ DrawnLength(samples) = Total(DrawnLegs(samples))
        /\ Len(DrawnLegs(samples)) = IF L = 0 THEN 0 ELSE L - 1
      BY <1>3, DrawnLegsFacts
  <2> QED
      BY <2>1, Zenon
<1>10. \A x \in 1..L : x < L =>
        /\ hops[x] = IF samples[x].contact /\ samples[x + 1].contact
                     THEN Distance(samples[x].at, samples[x + 1].at) ELSE 0
        /\ hops[x] \in Nat
  <2>1. \A x \in 1..Len(hops) :
            /\ hops[x] = IF samples[x].contact /\ samples[x + 1].contact
                         THEN Distance(samples[x].at, samples[x + 1].at) ELSE 0
            /\ hops[x] \in Nat
      BY <1>9, DrawnLegsFacts
  <2>2. \A x \in 1..L : x < L => x \in 1..Len(hops)
      BY <1>9
  <2> QED
      BY <2>1, <2>2
<1>11. PICK drawn : Sums(hops, drawn)
    BY TotalSums
<1>12. PICK sum : Sums(lens, sum)
    BY TotalSums
<1>13. /\ sum \in [0..N -> Int] /\ sum[0] = 0 /\ Total(lens) = sum[N]
       /\ \A s \in 1..N : sum[s] = sum[s - 1] + lens[s]
       /\ \A s \in 0..N : 0 <= sum[s] /\ sum[s] <= Total(lens)
  <2>1. \A s \in 1..Len(lens) : lens[s] >= 0
      BY <1>7
  <2>2. \A s \in 0..N : 0 <= sum[s] /\ sum[s] <= Total(lens)
      BY <1>7, <1>12, <2>1, SumsGrow
  <2> QED
      BY <1>7, <1>12, <2>2, Zenon DEF Sums
<1>14. /\ drawn \in [0..Len(hops) -> Int] /\ drawn[0] = 0 /\ Total(hops) = drawn[Len(hops)]
       /\ \A x \in 1..Len(hops) : drawn[x] = drawn[x - 1] + hops[x]
    BY <1>11, Zenon DEF Sums
<1> HIDE DEF Is, along, pace
<1> DEFINE Within(x, s, k) ==
                /\ Is(x, s, k)
                /\ drawn[x - 1] <= sum[s - 1] + lens[s]
                /\ k \in 1..Len(along(s)) => drawn[x - 1] <= sum[s - 1] + pace(s)[k]
           U == {x \in 1..L : \E s, k : Within(x, s, k)}
\* What the numbers at a place are.
<1>15. ASSUME NEW s \in 1..N
       PROVE  /\ s - 1 \in 0..N /\ s \in 0..N /\ sum[s - 1] \in Int /\ sum[s] \in Int
              /\ lens[s] \in Int /\ lens[s] >= 0 /\ sum[s] = sum[s - 1] + lens[s]
              /\ Len(along(s)) \in Nat
              /\ \A k \in 1..Len(along(s)) :
                    /\ pace(s)[k] \in Int /\ 0 <= pace(s)[k] /\ pace(s)[k] <= lens[s]
                    /\ along(s)[k] \in Points
  <2>1. s - 1 \in 0..N /\ s \in 0..N
      OBVIOUS
  <2>2. sum[s - 1] \in Int /\ sum[s] \in Int /\ sum[s] = sum[s - 1] + lens[s]
      BY <1>13, <2>1
  <2>3. lens[s] \in Int /\ lens[s] >= 0
      BY <1>7
  <2>4. Len(along(s)) \in Nat /\ \A k \in 1..Len(along(s)) : along(s)[k] \in Points
      BY <1>8
  <2>5. \A k \in 1..Len(along(s)) :
            pace(s)[k] \in Int /\ 0 <= pace(s)[k] /\ pace(s)[k] <= lens[s]
    <3>1. Paced(along(s), lens[s], pace(s))
        BY <1>8
    <3> QED
        BY <3>1 DEF Paced
  <2> QED
      BY <2>1, <2>2, <2>3, <2>4, <2>5, Zenon
\* Where a stroke begins with what is drawn before it.
<1>16. ASSUME NEW x, NEW s, NEW k, Is(x, s, k), drawn[x - 1] <= sum[s - 1], drawn[x - 1] \in Int
       PROVE  Within(x, s, k)
  <2>1. s \in 1..N
      BY <1>5, <1>16
  <2>2. PICK d \in Int, b \in Int, l \in Int : d = drawn[x - 1] /\ b = sum[s - 1] /\ l = lens[s]
                                                /\ d <= b /\ l >= 0
    <3>1. sum[s - 1] \in Int /\ lens[s] \in Int /\ lens[s] >= 0
        BY <1>15, <2>1
    <3> QED
        BY <1>16, <3>1, Zenon
  <2>3. d <= b + l
      BY <2>2, SMTT(30)
  <2>4. ASSUME k \in 1..Len(along(s)) PROVE drawn[x - 1] <= sum[s - 1] + pace(s)[k]
    <3>1. PICK p \in Int : p = pace(s)[k] /\ 0 <= p
        BY <1>15, <2>1, <2>4
    <3>2. d <= b + p
        BY <2>2, <3>1
    <3> QED
        BY <2>2, <3>1, <3>2, Zenon
  <2> QED
      BY <1>16, <2>2, <2>3, <2>4, Zenon
<1>17. L # 0 => 1 \in U
  <2> SUFFICES ASSUME L # 0 PROVE 1 \in U
      OBVIOUS
  <2>1. 1 \in 1..L /\ 1 - 1 = 0
      OBVIOUS
  <2>2. PICK s, k : Is(1, s, k)
      BY <1>4, <2>1
  <2>3. s \in 1..N
      BY <1>5, <2>2
  <2>4. drawn[1 - 1] <= sum[s - 1] /\ drawn[1 - 1] \in Int
    <3>1. 0 <= sum[s - 1]
        BY <1>13, <1>15, <2>3
    <3> QED
        BY <1>14, <2>1, <3>1
  <2>5. Within(1, s, k)
    <3> HIDE DEF Within
    <3> QED
        BY <1>16, <2>2, <2>4
  <2> HIDE DEF Within
  <2> QED
      BY <2>1, <2>5
<1>18. ASSUME NEW x \in 1..L, x \in U, x < L PROVE x + 1 \in U
  <2>1. PICK s, k : Within(x, s, k)
      BY <1>18
  <2>2. /\ Is(x, s, k) /\ drawn[x - 1] <= sum[s - 1] + lens[s]
        /\ k \in 1..Len(along(s)) => drawn[x - 1] <= sum[s - 1] + pace(s)[k]
      BY <2>1
  <2> HIDE DEF Within
  <2>3. x + 1 \in 1..L /\ (x + 1) - 1 = x /\ x \in 1..Len(hops) /\ x - 1 \in 0..Len(hops)
        /\ x \in 0..Len(hops)
      BY <1>9, <1>18
  <2>4. PICK n \in Nat : n = Len(along(s))
      BY <1>5, <1>15, <2>2
  <2>5. s \in 1..N /\ k \in Nat /\ k >= 1
        /\ (samples[x].contact => k \in 1..n /\ samples[x].at = along(s)[k])
      BY <1>5, <2>2, <2>4, Zenon
  <2>6. PICK d0 \in Int, d1 \in Int, h \in Nat, b \in Int, l \in Int :
            /\ d0 = drawn[x - 1] /\ d1 = drawn[x] /\ h = hops[x] /\ b = sum[s - 1] /\ l = lens[s]
            /\ l >= 0
    <3>1. drawn[x - 1] \in Int /\ drawn[x] \in Int
        BY <1>14, <2>3
    <3>2. hops[x] \in Nat
        BY <1>10, <1>18
    <3>3. sum[s - 1] \in Int /\ lens[s] \in Int /\ lens[s] >= 0
        BY <1>15, <2>5
    <3> QED
        BY <3>1, <3>2, <3>3
  <2>7. d1 = d0 + h
      BY <1>14, <2>3, <2>6, Zenon
  <2>8. d0 <= b + l /\ (k \in 1..n => d0 <= b + pace(s)[k])
      BY <2>2, <2>4, <2>6, Zenon
  <2>9. h = IF samples[x].contact /\ samples[x + 1].contact
            THEN Distance(samples[x].at, samples[x + 1].at) ELSE 0
      BY <1>10, <1>18, <2>6, Zenon
  <2>10. CASE Is(x + 1, s, k + 1)
    <3>1. samples[x + 1].contact => k + 1 \in 1..n /\ samples[x + 1].at = along(s)[k + 1]
        BY <1>5, <2>4, <2>10, Zenon
    <3>2. k + 1 \in 1..n => k \in 1..n /\ k < n
        BY <2>4, <2>5
    <3>3. ASSUME k + 1 \in 1..n PROVE d1 <= b + pace(s)[k + 1] /\ pace(s)[k + 1] <= l
      <4>1. k \in 1..n /\ k < n
          BY <3>2, <3>3
      <4>2. PICK p \in Int, q \in Int, d \in Nat :
                /\ p = pace(s)[k] /\ q = pace(s)[k + 1] /\ q <= l
                /\ d = Distance(along(s)[k], along(s)[k + 1])
        <5>1. pace(s)[k] \in Int /\ along(s)[k] \in Points
            BY <1>15, <2>4, <2>5, <4>1
        <5>2. pace(s)[k + 1] \in Int /\ pace(s)[k + 1] <= l /\ along(s)[k + 1] \in Points
            BY <1>15, <2>4, <2>5, <2>6, <3>3
        <5>3. Distance(along(s)[k], along(s)[k + 1]) \in Nat
            BY <5>1, <5>2, DistanceType
        <5> QED
            BY <5>1, <5>2, <5>3
      <4>3. p + d <= q
        <5>1. Paced(along(s), lens[s], pace(s))
            BY <1>8, <2>5
        <5>2. pace(s)[k] + Distance(along(s)[k], along(s)[k + 1]) <= pace(s)[k + 1]
            BY <2>4, <4>1, <5>1, Zenon DEF Paced
        <5> QED
            BY <4>2, <5>2, Zenon
      <4>4. d0 <= b + p
          BY <2>8, <4>1, <4>2, Zenon
      <4>5. h = 0 \/ h = d
          BY <2>5, <2>9, <3>1, <4>2, Zenon
      <4>6. d1 <= b + q
          BY <2>7, <4>3, <4>4, <4>5
      <4> QED
          BY <4>2, <4>6, Zenon
    <3>4. d1 <= b + l
      <4>1. CASE k + 1 \in 1..n
        <5>1. PICK q \in Int : q = pace(s)[k + 1] /\ q <= l
          <6>1. pace(s)[k + 1] \in Int
              BY <1>15, <2>4, <2>5, <4>1
          <6> QED
              BY <3>3, <4>1, <6>1
        <5>2. d1 <= b + q
            BY <3>3, <4>1, <5>1, Zenon
        <5> QED
            BY <5>1, <5>2
      <4>2. CASE k + 1 \notin 1..n
        <5>1. h = 0
            BY <2>9, <3>1, <4>2, Zenon
        <5> QED
            BY <2>7, <2>8, <5>1
      <4> QED
          BY <4>1, <4>2
    <3>5. Within(x + 1, s, k + 1)
        BY <2>3, <2>4, <2>6, <2>10, <3>3, <3>4, Zenon DEF Within
    <3> QED
        BY <2>3, <3>5
  <2>11. CASE k = n + penUp /\ Is(x + 1, s + 1, 1)
    <3>1. k \notin 1..n
        BY <2>11
    <3>2. h = 0
        BY <2>5, <2>9, <3>1, Zenon
    <3>3. (s + 1) - 1 = s /\ sum[s] = b + l /\ sum[s] \in Int
      <4>1. (s + 1) - 1 = s
          BY <2>5
      <4>2. sum[s] = sum[s - 1] + lens[s] /\ sum[s] \in Int
          BY <1>15, <2>5
      <4> QED
          BY <2>6, <4>1, <4>2, Zenon
    <3>4. d1 <= sum[s]
        BY <2>7, <2>8, <3>2, <3>3
    <3>5. drawn[(x + 1) - 1] <= sum[(s + 1) - 1] /\ drawn[(x + 1) - 1] \in Int
        BY <2>3, <2>6, <3>3, <3>4, Zenon
    <3>6. Within(x + 1, s + 1, 1)
        BY <1>16, <2>11, <3>5
    <3> QED
        BY <2>3, <3>6
  <2>12. \/ Is(x + 1, s, k + 1)
         \/ k = Len(along(s)) + penUp /\ Is(x + 1, s + 1, 1)
      BY <1>6, <1>18, <2>2
  <2>13. Is(x + 1, s, k + 1) \/ (k = n + penUp /\ Is(x + 1, s + 1, 1))
      BY <2>4, <2>12, Zenon
  <2> HIDE DEF U
  <2> QED
      BY <2>10, <2>11, <2>13, Zenon
<1> HIDE DEF U
<1>19. \A x \in 1..L : x \in U
    BY <1>17, <1>18, FromOne
<1>20. Total(hops) <= Total(lens)
  <2>1. CASE L = 0
    <3>1. Total(hops) = 0
        BY <1>9, <1>14, <2>1
    <3>2. 0 \in 0..N
        OBVIOUS
    <3>3. 0 <= Total(lens)
        BY <1>13, <3>2
    <3> QED
        BY <3>1, <3>3
  <2>2. CASE L # 0
    <3>1. L \in 1..L /\ Len(hops) = L - 1
        BY <1>9, <2>2
    <3>2. PICK s, k : Within(L, s, k)
        BY <1>19, <3>1 DEF U
    <3>3. Is(L, s, k) /\ drawn[L - 1] <= sum[s - 1] + lens[s]
        BY <3>2
    <3>4. s \in 1..N
        BY <1>5, <3>3
    <3>5. sum[s] = sum[s - 1] + lens[s] /\ s \in 0..N
        BY <1>15, <3>4
    <3>6. PICK a \in Int, b \in Int, t \in Int : a = Total(hops) /\ b = sum[s] /\ t = Total(lens)
      <4>1. Total(hops) \in Int
        <5>1. Len(hops) \in 0..Len(hops)
            BY <3>1
        <5>2. drawn \in [0..Len(hops) -> Int] /\ Total(hops) = drawn[Len(hops)]
            BY <1>14, Zenon
        <5>3. drawn[Len(hops)] \in Int
            BY <5>1, <5>2, Zenon
        <5> QED
            BY <5>2, <5>3, Zenon
      <4>2. Total(lens) \in Int /\ sum[s] \in Int
        <5>1. N \in 0..N
            OBVIOUS
        <5> QED
            BY <1>13, <3>5, <5>1
      <4> QED
          BY <4>1, <4>2
    <3>7. a <= b
        BY <1>14, <3>1, <3>3, <3>5, <3>6, Zenon
    <3>8. b <= t
        BY <1>13, <3>5, <3>6, Zenon
    <3>9. a <= t
        BY <3>7, <3>8
    <3> QED
        BY <3>6, <3>9, Zenon
  <2> QED
      BY <2>1, <2>2
<1> QED
    BY <1>2, <1>7, <1>9, <1>20, Zenon

-----------------------------------------------------------------------------
(* The plans and the traces of trace_cli.                                    *)

LEMMA LoadType ==
    ASSUME NEW rows \in Seq(RowSet)
    PROVE  Load(rows) \in Seq(TraceStrokes)
<1>1. PICK it : ReadBy(rows, it)
    BY LoadSteps
<1>2. PICK read \in Seq(ReadStrokes) : Load(rows) = Strokes(read)
  <2>1. Len(rows) \in 0..Len(rows)
      OBVIOUS
  <2>2. it[Len(rows)] \in Seq(ReadStrokes)
      BY <1>1, <2>1 DEF ReadBy
  <2> QED
      BY <1>1, <2>2 DEF ReadBy
<1>3. PICK n \in Nat : n = Len(read) /\ DOMAIN read = 1..n
    OBVIOUS
<1>4. \A s \in 1..n : [points |-> read[s].points, closed |-> read[s].closed] \in TraceStrokes
  <2> SUFFICES ASSUME NEW s \in 1..n
               PROVE  [points |-> read[s].points, closed |-> read[s].closed] \in TraceStrokes
      OBVIOUS
  <2>1. read[s] \in ReadStrokes
      BY <1>3, ElementOfSeq
  <2> QED
      BY <2>1 DEF ReadStrokes, TraceStrokes
<1>5. PICK out : out = Strokes(read)
    OBVIOUS
<1>6. out = [s \in 1..n |-> [points |-> read[s].points, closed |-> read[s].closed]]
    BY <1>3, <1>5 DEF Strokes
<1>7. out \in [1..n -> TraceStrokes]
    BY <1>4, <1>6
<1>8. out \in Seq(TraceStrokes)
    BY <1>7
<1> QED
    BY <1>2, <1>5, <1>8, Zenon

\* The strokes of MakeDummyPlan, of a border and a circle at these places.
SheetPlan(near, right, bottom, cx, cy) ==
    <<[points |-> <<Point(near, near), Point(right, near),
                    Point(right, bottom), Point(near, bottom)>>, closed |-> TRUE],
      [points |-> <<Point(near, near), Point(right, bottom)>>, closed |-> FALSE],
      [points |-> Circle(Point(cx, cy), 500), closed |-> TRUE]>>

LEMMA SheetPlanType ==
    ASSUME NEW near \in Int, NEW right \in Int, NEW bottom \in Int, NEW cx \in Int, NEW cy \in Int
    PROVE  SheetPlan(near, right, bottom, cx, cy) \in Seq(TraceStrokes)
<1>1. \A x \in Int, y \in Int : Point(x, y) \in Points
    BY DEF Point, Points
<1>2. PICK p1 \in Points, p2 \in Points, p3 \in Points, p4 \in Points :
        /\ p1 = Point(near, near) /\ p2 = Point(right, near)
        /\ p3 = Point(right, bottom) /\ p4 = Point(near, bottom)
    BY <1>1
<1>3. <<p1, p2, p3, p4>> \in Seq(Points) /\ <<p1, p3>> \in Seq(Points)
    OBVIOUS
<1>4. PICK circle \in Seq(Points) : circle = Circle(Point(cx, cy), 500)
  <2>1. Point(cx, cy) \in Points /\ 500 \in Nat \ {0}
      BY <1>1
  <2> QED
      BY <2>1, CircleFacts
<1>5. \A pts \in Seq(Points), c \in BOOLEAN : [points |-> pts, closed |-> c] \in TraceStrokes
    BY DEF TraceStrokes
<1>6. PICK a \in TraceStrokes, b \in TraceStrokes, d \in TraceStrokes :
        /\ a = [points |-> <<p1, p2, p3, p4>>, closed |-> TRUE]
        /\ b = [points |-> <<p1, p3>>, closed |-> FALSE]
        /\ d = [points |-> circle, closed |-> TRUE]
    BY <1>3, <1>5
<1>7. <<a, b, d>> \in Seq(TraceStrokes)
    OBVIOUS
<1>8. SheetPlan(near, right, bottom, cx, cy) = <<a, b, d>>
    BY <1>2, <1>4, <1>6, ZenonT(40) DEF SheetPlan
<1> QED
    BY <1>7, <1>8, Zenon

LEMMA DummyPlanType == MakeDummyPlan(Sheet) \in Seq(TraceStrokes)
<1>1. /\ Sheet.margin * 1000 \in Int
      /\ (Sheet.paperW - Sheet.margin) * 1000 \in Int
      /\ (Sheet.paperH - Sheet.margin) * 1000 \in Int
      /\ Sheet.paperW * 500 \in Int /\ Sheet.paperH * 500 \in Int
    BY DrawingAssumption
<1>2. PICK near \in Int, right \in Int, bottom \in Int, cx \in Int, cy \in Int :
        /\ near = Sheet.margin * 1000
        /\ right = (Sheet.paperW - Sheet.margin) * 1000
        /\ bottom = (Sheet.paperH - Sheet.margin) * 1000
        /\ cx = Sheet.paperW * 500 /\ cy = Sheet.paperH * 500
    BY <1>1
<1>3. MakeDummyPlan(Sheet)
        = SheetPlan(Sheet.margin * 1000, (Sheet.paperW - Sheet.margin) * 1000,
                    (Sheet.paperH - Sheet.margin) * 1000,
                    Sheet.paperW * 500, Sheet.paperH * 500)
    BY Zenon DEF MakeDummyPlan, SheetPlan
<1>4. MakeDummyPlan(Sheet) = SheetPlan(near, right, bottom, cx, cy)
    BY <1>2, <1>3
<1>5. SheetPlan(near, right, bottom, cx, cy) \in Seq(TraceStrokes)
    BY SheetPlanType
<1> QED
    BY <1>4, <1>5

\* How a trace may follow a plan: drawn along it, or with a drift.
Follows(samples, strokes, case) ==
    \/ /\ case # "drift"
       /\ \E lifted : /\ samples = Traced(strokes, StepMm, PenUp, lifted)
                      /\ case = "ideal" => lifted = {}
    \/ case = "drift" /\ samples = Drifted(Traced(strokes, StepMm, PenUp, {}))

LEMMA FollowsFacts ==
    ASSUME NEW strokes \in Seq(TraceStrokes), NEW samples, NEW case,
           Follows(samples, strokes, case)
    PROVE  /\ InOrder(samples, Len(strokes))
           /\ case \in {"ideal", "drift"} => OncePerStroke(samples)
           /\ case # "drift" => DrawnLength(samples) <= PlannedLength(strokes)
<1>1. StepMm \in Nat \ {0} /\ PenUp \in Nat \ {0}
    BY DrawingAssumption
<1>2. ASSUME NEW lifted
      PROVE  /\ InOrder(Traced(strokes, StepMm, PenUp, lifted), Len(strokes))
             /\ lifted = {} => OncePerStroke(Traced(strokes, StepMm, PenUp, lifted))
             /\ DrawnLength(Traced(strokes, StepMm, PenUp, lifted)) <= PlannedLength(strokes)
    BY <1>1, TracedInOrder, DrawnUpTo
<1>3. CASE case # "drift"
  <2>1. PICK lifted : /\ samples = Traced(strokes, StepMm, PenUp, lifted)
                      /\ case = "ideal" => lifted = {}
      BY <1>3 DEF Follows
  <2> QED
      BY <1>2, <1>3, <2>1
<1>4. CASE case = "drift"
  <2>1. PICK ideal : ideal = Traced(strokes, StepMm, PenUp, {})
      OBVIOUS
  <2>2. InOrder(ideal, Len(strokes)) /\ OncePerStroke(ideal) /\ samples = Drifted(ideal)
      BY <1>2, <1>4, <2>1 DEF Follows
  <2>3. ideal \in Seq(Samples)
      BY <2>2 DEF InOrder
  <2>4. SameMarks(samples, ideal)
      BY <2>2, <2>3, DriftedMarks
  <2>5. Len(strokes) \in Nat
      OBVIOUS
  <2>6. InOrder(samples, Len(strokes)) /\ OncePerStroke(samples)
      BY <2>2, <2>4, <2>5, MarksInOrder
  <2> QED
      BY <1>4, <2>6
<1> QED
    BY <1>3, <1>4

\* What the summary of a trace must be of the trace it was made from.
Honest(r, strokes, samples, case) ==
    /\ r.breaks <= Total([s \in DOMAIN strokes |-> Larger(0, Pieces(samples, s) - 1)])
    /\ r.missing <= Cardinality({s \in DOMAIN strokes : Pieces(samples, s) = 0})
    /\ case \in {"ideal", "drift"} => r.breaks = 0
    /\ case # "drift" => r.drawn <= r.planned

LEMMA SummaryFacts ==
    ASSUME NEW strokes \in Seq(TraceStrokes), NEW samples, NEW case,
           Follows(samples, strokes, case)
    PROVE  Honest(Summary(samples, strokes), strokes, samples, case)
<1>1. PICK N \in Nat : N = Len(strokes) /\ DOMAIN strokes = 1..N
    OBVIOUS
<1>2. /\ InOrder(samples, N)
      /\ case \in {"ideal", "drift"} => OncePerStroke(samples)
      /\ case # "drift" => DrawnLength(samples) <= PlannedLength(strokes)
    BY <1>1, FollowsFacts
<1>3. BreaksCounted(samples, N)
    BY <1>2, CountBreaks
<1>4. PICK c \in Nat, e \in Nat, u \in Nat :
        /\ c = SegmentCount(samples) /\ e = Total(Extra(samples, N))
        /\ u = Cardinality(Untouched(samples, N))
        /\ c - N <= e /\ N - c <= u /\ (OncePerStroke(samples) => c <= N)
    BY <1>3 DEF BreaksCounted
<1>5. /\ Larger(0, c - N) <= e /\ Larger(0, N - c) <= u
      /\ OncePerStroke(samples) => Larger(0, c - N) = 0
    BY <1>4 DEF Larger
<1>6. PICK r : r = Summary(samples, strokes)
    OBVIOUS
<1>7. /\ r.breaks = Larger(0, c - N) /\ r.missing = Larger(0, N - c)
      /\ r.drawn = DrawnLength(samples) /\ r.planned = PlannedLength(strokes)
  <2>1. r = [breaks |-> Larger(0, c - N), missing |-> Larger(0, N - c),
             drawn |-> DrawnLength(samples), planned |-> PlannedLength(strokes)]
      BY <1>1, <1>4, <1>6, Zenon DEF Summary
  <2> QED
      BY <2>1
<1>8. e = Total([s \in DOMAIN strokes |-> Larger(0, Pieces(samples, s) - 1)])
    BY <1>1, <1>4, Zenon DEF Extra
<1>9. u = Cardinality({s \in DOMAIN strokes : Pieces(samples, s) = 0})
    BY <1>1, <1>4, Zenon DEF Untouched
<1>10. /\ r.breaks <= e /\ r.missing <= u
       /\ case \in {"ideal", "drift"} => r.breaks = 0
       /\ case # "drift" => r.drawn <= r.planned
    BY <1>2, <1>5, <1>7, Zenon
<1> QED
    BY <1>6, <1>8, <1>9, <1>10, Zenon DEF Honest

TraceHonest == BreaksAreReal /\ DrawnWithinPlan

\* The plan of a run of trace_cli, and how its trace follows it.
LEMMA PlanType ==
    ASSUME MapsGood, FileOk, NEW fromFile \in BOOLEAN, NEW dummy \in BOOLEAN,
           fromFile => Readable(csv), PlanOf(fromFile, dummy).given
    PROVE  PlanOf(fromFile, dummy).strokes \in Seq(TraceStrokes)
<1>1. CASE fromFile
  <2>1. csvMap.unit \in Nat \ {0} /\ csvMap.strokes \in Seq(GoodStrokes)
      BY Zenon DEF MapsGood, GoodMap
  <2>2. Rows(csvMap) \in Seq(RowSet)
      BY <2>1, PrintedFacts
  <2>3. csv = Rows(csvMap) \/ csv \in Cut(Rows(csvMap))
      BY <1>1, Zenon DEF Readable, FileOk
  <2>4. \A i \in DOMAIN csv : csv[i].fields >= 4
      BY <1>1, Zenon DEF Readable
  <2>5. csv \in Seq(RowSet)
    <3>1. StartOf(csv, Rows(csvMap))
        BY <2>2, <2>3, <2>4, CutFacts
    <3> QED
        BY <3>1 DEF StartOf
  <2>6. Load(csv) \in Seq(TraceStrokes)
      BY <2>5, LoadType
  <2>7. PlanOf(fromFile, dummy).strokes = Load(csv)
      BY <1>1 DEF PlanOf
  <2> QED
      BY <2>6, <2>7, Zenon
<1>2. CASE ~fromFile
  <2>1. PlanOf(fromFile, dummy)
          = [NoPlan EXCEPT !.given = dummy,
                           !.strokes = IF dummy THEN MakeDummyPlan(Sheet) ELSE <<>>]
      BY <1>2, Zenon DEF PlanOf
  <2>2. /\ PlanOf(fromFile, dummy).given = dummy
        /\ PlanOf(fromFile, dummy).strokes = IF dummy THEN MakeDummyPlan(Sheet) ELSE <<>>
      BY <2>1 DEF NoPlan
  <2>3. PlanOf(fromFile, dummy).strokes = MakeDummyPlan(Sheet)
      BY <2>2
  <2> QED
      BY <2>3, DummyPlanType, Zenon
<1> QED
    BY <1>1, <1>2

LEMMA TraceFollows ==
    ASSUME NEW dummy \in BOOLEAN, NEW strokes, NEW some \in Traces(dummy, strokes),
           strokes = some.follows
    PROVE  Follows(some.samples, strokes, some.case)
<1>1. CASE dummy
  <2>1. PICK case \in Cases :
            some = [samples |-> MakeDummyTrace(case, strokes, StepMm, PenUp, Block),
                    follows |-> strokes, case |-> case]
      BY <1>1 DEF Traces
  <2>2. some.samples = MakeDummyTrace(case, strokes, StepMm, PenUp, Block) /\ some.case = case
      BY <2>1
  <2>3. CASE case = "ideal"
    <3>1. some.samples = Traced(strokes, StepMm, PenUp, {})
        BY <2>2, <2>3 DEF MakeDummyTrace
    <3> QED
        BY <2>2, <2>3, <3>1 DEF Follows
  <2>4. CASE case = "weak-force"
    <3>1. some.samples = Traced(strokes, StepMm, PenUp, Lifted(strokes, StepMm, Block))
        BY <2>2, <2>4 DEF MakeDummyTrace
    <3> QED
        BY <2>2, <2>4, <3>1 DEF Follows
  <2>5. CASE case = "drift"
    <3>1. some.samples = Drifted(Traced(strokes, StepMm, PenUp, {}))
        BY <2>2, <2>5 DEF MakeDummyTrace
    <3> QED
        BY <2>2, <2>5, <3>1 DEF Follows
  <2> QED
      BY <2>3, <2>4, <2>5 DEF Cases
<1>2. CASE ~dummy
  <2>1. PICK drawn \in {Printed(csvMap), MakeDummyPlan(Sheet)}, lifted \in LiftedSets :
            some = [samples |-> Traced(drawn, StepMm, PenUp, lifted), follows |-> drawn,
                    case |-> "simulated"]
      BY <1>2 DEF Traces
  <2>2. /\ some.samples = Traced(drawn, StepMm, PenUp, lifted) /\ some.follows = drawn
        /\ some.case = "simulated"
      BY <2>1
  <2>3. some.samples = Traced(strokes, StepMm, PenUp, lifted)
      BY <2>2
  <2>4. some.case # "drift" /\ some.case # "ideal"
      BY <2>2
  <2> QED
      BY <2>3, <2>4, Zenon DEF Follows
<1> QED
    BY <1>1, <1>2

LEMMA TraceInvariant == Spec => []TraceHonest
<1>1. Init => TraceHonest
  <2>1. NoPlan.given = FALSE
      BY DEF NoPlan
  <2> QED
      BY <2>1 DEF Init, TraceHonest, BreaksAreReal, DrawnWithinPlan
<1>2. FilesGood /\ TraceHonest /\ [Next]_toolVars => TraceHonest'
  <2> SUFFICES ASSUME FilesGood, TraceHonest, [Next]_toolVars PROVE TraceHonest'
      OBVIOUS
  <2>1. MapsGood /\ FileOk
      BY DEF FilesGood
  <2>2. ASSUME UNCHANGED <<plan, trace, report>> PROVE TraceHonest'
      BY <2>2 DEF TraceHonest, BreaksAreReal, DrawnWithinPlan
  <2>3. ASSUME NEW fromFile \in BOOLEAN, NEW dummy \in BOOLEAN, TraceCli(fromFile, dummy)
        PROVE  TraceHonest'
    <3>1. CASE UNCHANGED <<plan, trace, report>>
        BY <2>2, <3>1
    <3>2. ASSUME fromFile => Readable(csv), plan' = PlanOf(fromFile, dummy),
                 trace' \in Traces(dummy, plan'.strokes),
                 report' = IF plan'.given THEN Summary(trace'.samples, plan'.strokes)
                           ELSE [NoReport EXCEPT !.drawn = DrawnLength(trace'.samples)]
          PROVE  TraceHonest'
      <4>1. CASE ~(plan'.given /\ plan'.strokes = trace'.follows)
          BY <4>1 DEF TraceHonest, BreaksAreReal, DrawnWithinPlan
      <4>2. CASE plan'.given /\ plan'.strokes = trace'.follows
        <5>1. plan'.strokes \in Seq(TraceStrokes)
            BY <2>1, <3>2, <4>2, PlanType
        <5>2. Follows(trace'.samples, plan'.strokes, trace'.case)
            BY <3>2, <4>2, TraceFollows
        <5>3. report' = Summary(trace'.samples, plan'.strokes)
            BY <3>2, <4>2
        <5>4. Honest(report', plan'.strokes, trace'.samples, trace'.case)
          <6>1. PICK strokes, samples, case :
                  /\ strokes = plan'.strokes /\ samples = trace'.samples
                  /\ case = trace'.case
              OBVIOUS
          <6>2. strokes \in Seq(TraceStrokes) /\ Follows(samples, strokes, case)
              BY <5>1, <5>2, <6>1, Zenon
          <6>3. Honest(Summary(samples, strokes), strokes, samples, case)
              BY <6>2, SummaryFacts
          <6> QED
              BY <5>3, <6>1, <6>3, Zenon
        <5>5. BreaksAreReal'
            BY <5>4, Zenon DEF BreaksAreReal, Honest
        <5>6. DrawnWithinPlan'
            BY <5>4, Zenon DEF DrawnWithinPlan, Honest
        <5> QED
            BY <5>5, <5>6 DEF TraceHonest
      <4> QED
          BY <4>1, <4>2
    <3> QED
        BY <2>3, <3>1, <3>2 DEF TraceCli
  <2>4. ASSUME NEW p \in ParamSets, StrokeMapCli(p) PROVE TraceHonest'
      BY <2>2, <2>4 DEF StrokeMapCli, traceVars
  <2>5. ASSUME NEW p \in ParamSets, NEW size \in Sizes, NEW polylines \in Lines,
               LibraryCall(p, size, polylines)
        PROVE  TraceHonest'
      BY <2>2, <2>5 DEF LibraryCall, traceVars
  <2>6. CASE UNCHANGED toolVars
      BY <2>2, <2>6 DEF toolVars, traceVars
  <2> QED
      BY <2>3, <2>4, <2>5, <2>6 DEF Next
<1> QED
    BY <1>1, <1>2, FilesInvariant, PTL DEF Spec

\* The breaks the summary reports of a drawing of its own plan are there, and the
\* strokes it misses were never touched; with the pen down throughout it reports
\* none (SegmentCount, RenderSummary): whatever the plan, the step, and the
\* samples at which the pen left the paper.
THEOREM BreaksReal == Spec => []BreaksAreReal
<1>1. TraceHonest => BreaksAreReal
    BY DEF TraceHonest
<1> QED
    BY <1>1, TraceInvariant, PTL

\* A pen that keeps to its plan never draws more than the plan is long, although
\* the samples of a segment are rounded one by one (DrawnLengthMm,
\* PlannedLengthMm).
THEOREM DrawnWithin == Spec => []DrawnWithinPlan
<1>1. TraceHonest => DrawnWithinPlan
    BY DEF TraceHonest
<1> QED
    BY <1>1, TraceInvariant, PTL
=============================================================================
