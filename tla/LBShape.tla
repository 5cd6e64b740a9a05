------------------------------- MODULE LBShape -------------------------------
(***************************************************************************)
(* getLBShape of src/ingress/sharable_helpers.go: the LB shape and the    *)
(* flexible-shape bandwidth bounds NewIngressLBSpec reads from the         *)
(* ingress annotations, with the process defaults main.go may override.   *)
(*                                                                         *)
(* An annotation is Absent (the empty string), NotInt (a value            *)
(* strconv.Atoi refuses, including one outside the 64-bit range) or the   *)
(* integer Atoi returns.  A shape name is a string; ToLower is the        *)
(* strings.ToLower table of the names in use.                              *)
(***************************************************************************)
EXTENDS Integers

CONSTANTS
    DefaultLBShape,           \* ingress.DefaultLBShape (--default-lb-shape)
    DefaultFlexShapeMinMbps,  \* ingress.DefaultFlexShapeMinMbps
    DefaultFlexShapeMaxMbps,  \* ingress.DefaultFlexShapeMaxMbps
    ToLower,                  \* strings.ToLower on shape names
    Absent, NotInt, ShapeError, NoBound

FlexibleShapeName == "flexible"
FlexShapeAbsoluteMinMbps == 10
FlexShapeAbsoluteMaxMbps == 8192

(* The shape annotation, or the default; any casing of "flexible" is     *)
(* normalised to the lower-case name LBaaS requires.                      *)
ShapeName(shapeAnn) ==
    LET s == IF shapeAnn = Absent THEN DefaultLBShape ELSE shapeAnn
    IN  IF ToLower[s] = FlexibleShapeName THEN FlexibleShapeName ELSE s

(* Faulty variant: max is not raised to min after the clamps.            *)
GetLBShapeNoMaxFix(shapeAnn, minAnn, maxAnn) ==
    LET shape == ShapeName(shapeAnn)
        both  == minAnn = Absent /\ maxAnn = Absent
        minS  == IF both THEN DefaultFlexShapeMinMbps ELSE minAnn
        maxS  == IF both THEN DefaultFlexShapeMaxMbps ELSE maxAnn
        lo(x) == IF x < FlexShapeAbsoluteMinMbps THEN FlexShapeAbsoluteMinMbps ELSE x
        hi(x) == IF x > FlexShapeAbsoluteMaxMbps THEN FlexShapeAbsoluteMaxMbps ELSE x
    IN  CASE shape # FlexibleShapeName -> [shape |-> shape, min |-> NoBound, max |-> NoBound]
          [] Absent \in {minS, maxS} \/ NotInt \in {minS, maxS} -> ShapeError
          [] OTHER -> [shape |-> shape, min |-> hi(lo(minS)), max |-> hi(lo(maxS))]

(* getLBShape: a non-flexible shape has no bounds.  For "flexible" both  *)
(* annotations absent take the defaults, one absent or a non-integer is  *)
(* an error; then each bound is raised to 10, lowered to 8192, and max   *)
(* is raised to min, in that order.                                       *)
GetLBShape(shapeAnn, minAnn, maxAnn) ==
    LET shape == ShapeName(shapeAnn)
        both  == minAnn = Absent /\ maxAnn = Absent
        minS  == IF both THEN DefaultFlexShapeMinMbps ELSE minAnn
        maxS  == IF both THEN DefaultFlexShapeMaxMbps ELSE maxAnn
        lo(x) == IF x < FlexShapeAbsoluteMinMbps THEN FlexShapeAbsoluteMinMbps ELSE x
        hi(x) == IF x > FlexShapeAbsoluteMaxMbps THEN FlexShapeAbsoluteMaxMbps ELSE x
        mn    == hi(lo(minS))
        mx    == hi(lo(maxS))
    IN  CASE shape # FlexibleShapeName -> [shape |-> shape, min |-> NoBound, max |-> NoBound]
          [] Absent \in {minS, maxS} \/ NotInt \in {minS, maxS} -> ShapeError
          [] OTHER -> [shape |-> shape, min |-> mn, max |-> IF mx < mn THEN mn ELSE mx]
=============================================================================
