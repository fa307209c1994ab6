--------------------------- MODULE MCModelRelease ---------------------------
(* Four columns of two profiles on a slope, in a line, two columns held out; *)
(* a record short enough for floods to run past its end; the old release is  *)
(* installed, and the output directory is new or reused.                     *)
EXTENDS ModelRelease

MCColumn    == 1 .. 4
MCProfileOf == <<"riverine", "forest", "riverine", "forest">>
MCElev      == <<7, 6, 4, 4>>
MCSlope     == <<1, 2, 2, 3>>
MCCrossing  == <<0, 0, 1, 1>>
MCEdges     == {<<1, 2, 3>>, <<2, 3, 5>>, <<3, 4, 7>>}
MCLead      == [h \in TRAINED_HEADS |-> IF h \in {"FI", "LS", "CY"} THEN 1 ELSE 0]
MCMargin    == [h \in TRAINED_HEADS |-> IF h \in {"PO", "HW"} THEN 3 ELSE 2]
MCDurations == [h \in TRAINED_HEADS |-> IF h = "FL" THEN {1, 2} ELSE {2}]
MCLags      == [h \in TRAINED_HEADS |-> IF h = "FL" THEN {1, 2} ELSE IF h = "PO" THEN {0, 1} ELSE {1}]
MCHorizons  ==
    [h \in HEADS |-> CASE h = "UF" -> {0, 1} [] h = "HW" -> {3} [] h = "CY" -> {2} [] h = "GL" -> {0} [] OTHER -> {0, 2}]
MCScore     == 1 .. 3
MCValSamples ==
    {[pos |-> p, neg |-> n] : p \in [MCScore -> 0 .. 1], n \in [MCScore -> 0 .. 1]}
MCTrainSamples ==
    {[pos |-> <<0, 1, 2>>, neg |-> <<2, 1, 0>>], [pos |-> <<0, 0, 1>>, neg |-> <<3, 0, 0>>]}
=============================================================================
