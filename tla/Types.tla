-------------------------------- MODULE Types --------------------------------
(***************************************************************************)
(* The types of src/src/set/types.h: how set.c makes them from what is     *)
(* written, compares and combines them, and which LLVM type                *)
(* src/src/llvm/llvm-ir/types.c gives them.                                *)
(*                                                                         *)
(* Scales are powers of two: a scale is its exponent here, so that         *)
(* check_scale_factor allows MinScale (1/4) to MaxScale (8), and a list of *)
(* factors multiplies to the number of doublings minus that of halvings.   *)
(* A chain of references is their number and the object of the type at its *)
(* end, which several pointers may share.  Boxes are left out: createBox   *)
(* does not come to the end of a box.                                      *)
(***************************************************************************)
EXTENDS Integers, Sequences, FiniteSets

CONSTANT TypeName  \* names that a typedef may give

PrimitiveType == {"Int", "Float", "Char"}
Sign          == {"Unsigned", "Signed"}
MinScale      == -2
MaxScale      == 3
Scale         == MinScale .. MaxScale

\* Objects of struct Type that are no references.
PrimitiveKind(p) == [kind |-> "Primitive", primitive |-> p]
CompositeKind(s, f, p) ==
  [kind |-> "Composite", sign |-> s, scale |-> f, primitive |-> p]
IsComposite(t) == t.kind = "Composite"
Type == {PrimitiveKind(p) : p \in PrimitiveType} \cup
        [kind : {"Composite"}, sign : Sign, scale : Scale, primitive : PrimitiveType]

\* What the parser makes of a written type.
Factor    == {"half", "short", "double", "long"}
NoSign    == "none"
TypeNode(n) == [refs    : 0 .. 1,
                sign    : {"unsigned", "signed", NoSign},
                factors : UNION {[1 .. k -> Factor] : k \in 0 .. n},
                kind    : {"int", "float"} \cup TypeName]

-----------------------------------------------------------------------------
(* From a written type to an object.                                       *)

\* sign_from_string, with the default of set_impl_composite_type.
SignOf(node) == IF node.sign = "unsigned" THEN "Unsigned" ELSE "Signed"

\* primitive_from_string
PrimitiveNamed == [int |-> "Int", float |-> "Float"]

\* merge_scale_list with scale_factor_from.
MergeScaleList(factors) ==
  Cardinality({k \in DOMAIN factors : factors[k] \in {"double", "long"}})
    - Cardinality({k \in DOMAIN factors : factors[k] \in {"half", "short"}})

\* Mutant of CheckScaleFactor: the bounds of the comment in types.h.
CheckScaleFactorEighth(f) == MinScale - 1 <= f /\ f <= MaxScale

\* check_scale_factor
CheckScaleFactor(f) == MinScale <= f /\ f <= MaxScale

\* set_get_type_impl on a type that is no declared name: the object it makes,
\* or Refused.
Refused == [kind |-> "refused"]
NewType(node) ==
  IF node.kind \notin DOMAIN PrimitiveNamed THEN Refused
  ELSE IF node.sign = NoSign /\ node.factors = <<>>
    THEN PrimitiveKind(PrimitiveNamed[node.kind])
  ELSE IF CheckScaleFactor(MergeScaleList(node.factors))
    THEN CompositeKind(SignOf(node), MergeScaleList(node.factors), PrimitiveNamed[node.kind])
  ELSE Refused

-----------------------------------------------------------------------------
(* Two types.                                                              *)

\* Mutant of CompareBase: composites of one size, as isScaleEqual would not
\* tell them apart after a wrong conversion of the scale to int.
CompareBaseAnyScale(l, r) ==
  \/ ~IsComposite(l) /\ ~IsComposite(r) /\ l.primitive = r.primitive
  \/ IsComposite(l) /\ ~IsComposite(r)
       /\ l.sign = "Signed" /\ l.primitive = r.primitive
  \/ IsComposite(l) /\ IsComposite(r) /\ l.sign = r.sign /\ l.primitive = r.primitive

\* compareTypes without references: not symmetric.
CompareBase(l, r) ==
  \/ ~IsComposite(l) /\ ~IsComposite(r) /\ l.primitive = r.primitive
  \/ IsComposite(l) /\ ~IsComposite(r)
       /\ l.scale = 0 /\ l.sign = "Signed" /\ l.primitive = r.primitive
  \/ IsComposite(l) /\ IsComposite(r) /\ l = r

\* The numbers of the two enumerations, for MAX.
Rank == [Int |-> 0, Float |-> 1, Char |-> 2, Unsigned |-> 0, Signed |-> 1]
MaxEnum(x, y)  == IF Rank[x] >= Rank[y] THEN x ELSE y
MaxScaleOf(x, y) == IF x >= y THEN x ELSE y

\* Mutant of TypeFromOperands: the scale of the left operand.
TypeFromOperandsLeft(l, r) ==
  IF IsComposite(l) /\ IsComposite(r) THEN
    CompositeKind(MaxEnum(l.sign, r.sign), l.scale, MaxEnum(l.primitive, r.primitive))
  ELSE IF ~IsComposite(l) /\ ~IsComposite(r) THEN
    PrimitiveKind(MaxEnum(l.primitive, r.primitive))
  ELSE LET c == IF IsComposite(l) THEN l ELSE r IN
    CompositeKind("Signed", MaxScaleOf(0, c.scale), MaxEnum("Int", c.primitive))

\* createTypeFromOperands: of a primitive operand next to a composite one,
\* the primitive is not asked.
TypeFromOperands(l, r) ==
  IF IsComposite(l) /\ IsComposite(r) THEN
    CompositeKind(MaxEnum(l.sign, r.sign), MaxScaleOf(l.scale, r.scale),
                  MaxEnum(l.primitive, r.primitive))
  ELSE IF ~IsComposite(l) /\ ~IsComposite(r) THEN
    PrimitiveKind(MaxEnum(l.primitive, r.primitive))
  ELSE LET c == IF IsComposite(l) THEN l ELSE r IN
    CompositeKind("Signed", MaxScaleOf(0, c.scale), MaxEnum("Int", c.primitive))

-----------------------------------------------------------------------------
(* LLVM types.                                                             *)

IntType(f)   == [llvm |-> "int", bits |-> 8 * 2 ^ (f + 2)]
FloatType(f) == [llvm |-> "float", bits |-> 8 * 2 ^ (f + 2)]
BoolType     == [llvm |-> "int", bits |-> 1]
PtrType      == [llvm |-> "ptr", bits |-> 64]
NoLlvmType   == [llvm |-> "none", bits |-> 0]

\* impl_primtive_type
PrimitiveLlvmType(p) == IF p = "Float" THEN FloatType(0) ELSE IntType(0)

\* get_type_impl without references, with impl_composite_type.  There are no
\* floats of 8 or 256 bits and no unsigned ones; a composite of Char ends the
\* compiler.
LlvmTypeOf(t) ==
  IF ~IsComposite(t) THEN PrimitiveLlvmType(t.primitive)
  ELSE IF t.primitive = "Int" THEN IntType(t.scale)
  ELSE IF t.primitive = "Float" /\ t.sign = "Signed" /\ t.scale \in -1 .. 2
    THEN FloatType(t.scale)
  ELSE NoLlvmType

\* is_integral, is_floating_point and is_type_signed.
IsIntegral(t)      == t.primitive = "Int"
IsFloatingPoint(t) == t.primitive = "Float"
IsTypeSigned(t)    == IsComposite(t) => t.sign = "Signed"
=============================================================================
