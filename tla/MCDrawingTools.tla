--------------------------- MODULE MCDrawingTools ---------------------------
(* Small sheets, a wide and a tall image, lines that close, nearly close or  *)
(* stay open, and pens that lift inside a stroke or over a whole one.        *)
EXTENDS DrawingTools

MCParamSets ==
    {[paperW |-> 4, paperH |-> 4, margin |-> 1, step |-> 2],
     [paperW |-> 6, paperH |-> 4, margin |-> 1, step |-> 2],
     [paperW |-> 2, paperH |-> 4, margin |-> 1, step |-> 1]}
MCSheet == [paperW |-> 4, paperH |-> 5, margin |-> 1]
MCSizes == {[w |-> 2, h |-> 3], [w |-> 5, h |-> 2]}
MCLines ==
    {<<<<Point(0, 0), Point(1, 0), Point(0, 0)>>, <<Point(1, 1)>>>>,
     <<<<Point(0, 0), Point(1, 2), Point(1, 1)>>, <<Point(0, 0), Point(1, 0)>>>>}
MCLiftedSets == {{2}, 1..3, 0..9, 4..14}
MCCutAt == {0, 3, 6, 11, 18}
=============================================================================
