-------------------------- MODULE ExpressionsProofs --------------------------
(***************************************************************************)
(* The types that semantic analysis makes stay within their limits, and    *)
(* the values that code generation makes have those types, for programs of *)
(* any length with any written types.                                      *)
(***************************************************************************)
EXTENDS Expressions, FiniteSetTheorems, WellFoundedInduction, TLAPS

-----------------------------------------------------------------------------
(* Types.                                                                  *)

\* The scale of a list of factors is an integer.
LEMMA MergedScale == \A f \in Seq(Factor) : MergeScaleList(f) \in Int
<1> TAKE f \in Seq(Factor)
<1>1. IsFiniteSet(DOMAIN f)
  <2>1. DOMAIN f = 1 .. Len(f) /\ Len(f) \in Nat
    OBVIOUS
  <2> QED
    BY <2>1, FS_Interval
<1>2. ASSUME NEW S \in SUBSET DOMAIN f PROVE Cardinality(S) \in Nat
  BY <1>1, FS_Subset, FS_CardinalityType
<1> DEFINE D == {k \in DOMAIN f : f[k] \in {"double", "long"}}
           H == {k \in DOMAIN f : f[k] \in {"half", "short"}}
<1>3. Cardinality(D) \in Nat /\ Cardinality(H) \in Nat
  BY <1>2
<1> QED
  BY <1>3 DEF MergeScaleList

\* What set_get_type_impl makes of a written type that it does not refuse.
LEMMA NewTypeIsType ==
  ASSUME NEW node, node.factors \in Seq(Factor), NewType(node) # Refused
  PROVE  NewType(node) \in Type
<1>1. PrimitiveNamed["int"] = "Int" /\ PrimitiveNamed["float"] = "Float"
      /\ DOMAIN PrimitiveNamed = {"int", "float"}
  BY DEF PrimitiveNamed
<1>2. MergeScaleList(node.factors) \in Int
  BY MergedScale
<1>3. PrimitiveNamed[node.kind] \in PrimitiveType
  BY <1>1 DEF NewType, PrimitiveType
<1> QED
  BY <1>2, <1>3 DEF NewType, Type, PrimitiveKind, CompositeKind, SignOf, Sign,
                    CheckScaleFactor, Scale, MinScale, MaxScale

\* Objects of struct Type are primitive or composite.
LEMMA TypeCases ==
  ASSUME NEW t \in Type
  PROVE  /\ t.primitive \in PrimitiveType
         /\ IsComposite(t) =>
              t.sign \in Sign /\ t.scale \in Scale
              /\ t = CompositeKind(t.sign, t.scale, t.primitive)
         /\ ~IsComposite(t) => t = PrimitiveKind(t.primitive)
BY DEF Type, PrimitiveKind, CompositeKind, IsComposite

LEMMA MadeTypes ==
  /\ \A p \in PrimitiveType : PrimitiveKind(p) \in Type
  /\ \A s \in Sign, f \in Scale, p \in PrimitiveType : CompositeKind(s, f, p) \in Type
BY DEF Type, PrimitiveKind, CompositeKind

\* The type of an operation is one of the operands' kinds, at the larger scale.
LEMMA Combined ==
  ASSUME NEW l \in Type, NEW r \in Type
  PROVE  TypeFromOperands(l, r) \in Type
<1>1. /\ \A x, y \in Sign : MaxEnum(x, y) \in Sign
      /\ \A x, y \in PrimitiveType : MaxEnum(x, y) \in PrimitiveType
      /\ \A x, y \in Scale : MaxScaleOf(x, y) \in Scale
  BY DEF MaxEnum, MaxScaleOf
<1>2. 0 \in Scale /\ "Signed" \in Sign /\ "Int" \in PrimitiveType
  BY DEF Scale, MinScale, MaxScale, Sign, PrimitiveType
<1> QED
  BY <1>1, <1>2, TypeCases, MadeTypes DEF TypeFromOperands

-----------------------------------------------------------------------------
(* Numbers.                                                                *)

\* A set of numbers with a bound has a greatest one.
LEMMA Greatest ==
  ASSUME NEW n \in Nat, NEW S \in SUBSET (0 .. n), S # {}
  PROVE  \E k \in S : \A l \in S : l <= k
<1> DEFINE R == OpToRel(<, Nat)
           T == {n - x : x \in S}
<1>1. IsWellFoundedOn(R, Nat)
  BY NatLessThanWellFounded
<1> HIDE DEF R
<1>2. T \subseteq Nat /\ T # {}
  <2>1. \A x \in S : n - x \in Nat
    OBVIOUS
  <2> QED
    BY <2>1
<1>3. PICK m \in T : \A y \in T : <<y, m>> \notin R
  <2> HIDE DEF T
  <2> QED
    BY <1>1, <1>2, WFMin
<1>4. \A y \in T : ~(y < m)
  BY <1>2, <1>3 DEF OpToRel, R
<1>5. PICK k \in S : m = n - k
  OBVIOUS
<1>6. ASSUME NEW l \in S PROVE l <= k
  <2>1. ~(n - l < n - k)
    BY <1>4, <1>5
  <2>2. n \in Int /\ l \in Int /\ k \in Int
    OBVIOUS
  <2> HIDE DEF T
  <2> QED
    BY <2>1, <2>2
<1> QED
  BY <1>6

-----------------------------------------------------------------------------
(* The inductive invariant: every pointer leads into the heap.             *)

LeadsInto(p, n) == p.refs \in Nat /\ p.base \in 1 .. n
MayLeadInto(p, n) == p = NoPointer \/ LeadsInto(p, n)

Heap       == types \in Seq(Type) /\ Len(types) >= 1
TypedefsOK == /\ typedefs = [n \in TypeName |-> typedefs[n]]
              /\ \A n \in TypeName : MayLeadInto(typedefs[n], Len(types))
VarsOK     == /\ vars = [v \in Var |-> vars[v]]
              /\ \A v \in Var : MayLeadInto(vars[v], Len(types))
OperandsOK == /\ \E S : operands \in Seq(S)
              /\ \A k \in 1 .. Len(operands) : LeadsInto(operands[k].result, Len(types))
StoresOK   == \A s \in stores : LeadsInto(s.to, Len(types))

IInv == /\ Heap
        /\ TypedefsOK /\ VarsOK /\ OperandsOK /\ StoresOK
        /\ phase \in {"open", "refused", "crashed"}

\* Nothing is declared.
LEMMA EmptyProgram ==
  /\ MinScale \in Scale /\ CompositeKind("Unsigned", MinScale, "Int") \in Type
  /\ \A n \in Nat : MayLeadInto(NoPointer, n)
BY MadeTypes DEF Scale, MinScale, MaxScale, Sign, PrimitiveType, MayLeadInto

LEMMA InitIInv == Init => IInv
<1> SUFFICES ASSUME Init PROVE IInv
  OBVIOUS
<1>1. Heap
  BY EmptyProgram DEF Init, Heap
<1>2. TypedefsOK /\ VarsOK
  BY EmptyProgram DEF Init, TypedefsOK, VarsOK, MayLeadInto
<1>3. OperandsOK
  <2>1. operands \in Seq({})
    BY DEF Init
  <2> QED
    BY <2>1 DEF Init, OperandsOK
<1> QED
  BY <1>1, <1>2, <1>3 DEF Init, IInv, StoresOK

\* A program that is refused leaves the heap of the first.
LEMMA FailStep == \A p \in {"refused", "crashed"} : IInv /\ Fail(p) => IInv'
<1> SUFFICES ASSUME NEW p \in {"refused", "crashed"}, IInv, Fail(p) PROVE IInv'
  OBVIOUS
<1>1. Heap'
  BY DEF IInv, Heap, Fail
<1>2. TypedefsOK' /\ VarsOK'
  BY EmptyProgram DEF Fail, TypedefsOK, VarsOK, MayLeadInto
<1>3. OperandsOK'
  <2>1. operands' \in Seq({})
    BY DEF Fail
  <2> QED
    BY <2>1 DEF Fail, OperandsOK
<1> QED
  BY <1>1, <1>2, <1>3 DEF Fail, IInv, StoresOK

\* The heap grows, or an object of it changes, and the pointers into it stay.
LEMMA GrowingHeap ==
  ASSUME IInv, Heap', Len(types') >= Len(types)
  PROVE  /\ UNCHANGED typedefs => TypedefsOK'
         /\ UNCHANGED vars => VarsOK'
         /\ UNCHANGED stores => StoresOK'
         /\ UNCHANGED operands => OperandsOK'
<1>1. \A p : LeadsInto(p, Len(types)) => LeadsInto(p, Len(types'))
  BY DEF LeadsInto, IInv, Heap
<1>2. UNCHANGED operands => OperandsOK'
  BY <1>1 DEF IInv, OperandsOK
<1> QED
  BY <1>1, <1>2 DEF IInv, TypedefsOK, VarsOK, StoresOK, MayLeadInto

-----------------------------------------------------------------------------
(* The stack.                                                              *)

\* Operands have types in the heap.
LEMMA TopOK ==
  ASSUME IInv
  PROVE  /\ \A k \in {1, 2} : Len(operands) >= k =>
              /\ DOMAIN Top(k) = 1 .. k /\ Len(Top(k)) = k
              /\ \A l \in 1 .. k : LeadsInto(Top(k)[l].result, Len(types))
         /\ Len(operands) >= 1 => Top(1) = <<Top(1)[1]>>
<1>1. PICK S : operands \in Seq(S)
  BY DEF IInv, OperandsOK
<1>2. ASSUME NEW k \in {1, 2}, Len(operands) >= k
      PROVE  /\ DOMAIN Top(k) = 1 .. k /\ Len(Top(k)) = k
             /\ \A l \in 1 .. k : Top(k)[l] = operands[Len(operands) - k + l]
  <2>1. Len(operands) - k + 1 \in 1 .. Len(operands) + 1 /\ Len(operands) \in Nat
    BY <1>1, <1>2
  <2>2. Len(operands) - (Len(operands) - k + 1) + 1 = k
    BY <2>1
  <2> QED
    BY <1>1, <1>2, <2>1, <2>2 DEF Top
<1>3. ASSUME NEW k \in {1, 2}, Len(operands) >= k
      PROVE  \A l \in 1 .. k : LeadsInto(Top(k)[l].result, Len(types))
  <2> TAKE l \in 1 .. k
  <2>1. Len(operands) - k + l \in 1 .. Len(operands)
    BY <1>1, <1>3
  <2> QED
    BY <1>2, <1>3, <2>1 DEF IInv, OperandsOK
<1>4. ASSUME Len(operands) >= 1 PROVE Top(1) = <<Top(1)[1]>>
  <2>1. DOMAIN Top(1) = 1 .. 1 /\ Top(1) = [l \in DOMAIN Top(1) |-> Top(1)[l]]
    BY <1>1, <1>2, <1>4 DEF Top
  <2> QED
    BY <2>1
<1> QED
  BY <1>2, <1>3, <1>4

LEMMA BaseIsType ==
  ASSUME IInv, NEW e, LeadsInto(e.result, Len(types))
  PROVE  BaseOf(e) \in Type
BY DEF IInv, Heap, LeadsInto, BaseOf

\* The k operands on top are replaced by one with a type in the heap, which
\* may have grown.
LEMMA PushStep ==
  ASSUME IInv, Heap', Len(types') >= Len(types),
         NEW k \in Nat, k <= Len(operands),
         NEW e, LeadsInto(e.result, Len(types')), Push(k, e)
  PROVE  IInv'
<1>1. PICK S : operands \in Seq(S)
  BY DEF IInv, OperandsOK
<1>2. /\ operands' \in Seq(S \cup {e})
      /\ Len(operands') = Len(operands) - k + 1
      /\ operands'[Len(operands')] = e
      /\ \A l \in 1 .. Len(operands) - k : operands'[l] = operands[l]
  <2>1. /\ Rest(k) \in Seq(S) /\ Len(Rest(k)) = Len(operands) - k
        /\ \A l \in 1 .. Len(operands) - k : Rest(k)[l] = operands[l]
    BY <1>1 DEF Rest
  <2>2. Rest(k) \in Seq(S \cup {e}) /\ e \in S \cup {e}
    BY <2>1
  <2>3. operands' = Append(Rest(k), e)
    BY DEF Push
  <2> DEFINE r == Rest(k)
  <2>4. Len(r) \in Nat /\ Len(r) = Len(operands) - k
    BY <2>1
  <2> HIDE DEF r
  <2>5. /\ operands' \in Seq(S \cup {e}) /\ Len(operands') = Len(r) + 1
        /\ operands'[Len(r) + 1] = e
        /\ \A l \in 1 .. Len(r) : operands'[l] = r[l]
    BY <2>2, <2>3, <2>4 DEF r
  <2> QED
    BY <2>1, <2>4, <2>5 DEF r
<1>3. \A p : LeadsInto(p, Len(types)) => LeadsInto(p, Len(types'))
  BY DEF LeadsInto, IInv, Heap
<1>4. OperandsOK'
  <2>1. ASSUME NEW l \in 1 .. Len(operands')
        PROVE  LeadsInto(operands'[l].result, Len(types'))
    <3>1. l \in 1 .. Len(operands) - k \/ l = Len(operands')
      BY <1>1, <1>2
    <3>2. CASE l \in 1 .. Len(operands) - k
      <4>1. l \in 1 .. Len(operands)
        BY <1>1, <3>2
      <4>2. LeadsInto(operands[l].result, Len(types))
        BY <4>1 DEF IInv, OperandsOK
      <4>3. operands'[l] = operands[l]
        BY <1>2, <3>2
      <4> QED
        BY <1>3, <4>2, <4>3
    <3> QED
      BY <1>2, <3>1, <3>2
  <2> QED
    BY <1>2, <2>1 DEF OperandsOK
<1> QED
  BY <1>4, GrowingHeap DEF IInv, Push, heapUsers

\* A new object is the last of the heap.
LEMMA AllocateOK ==
  ASSUME IInv, NEW t \in Type, Allocate(t)
  PROVE  Heap' /\ Len(types') >= Len(types) /\ LeadsInto(Fresh, Len(types'))
BY DEF IInv, Heap, Allocate, LeadsInto, Fresh, Pointer

LEMMA ExpressionResult == \A p, d, c : Expression(p, d, c).result = p
BY DEF Expression

\* The end of every operation whose result has a type of the heap.
LEMMA OperationStep ==
  ASSUME IInv, NEW op, NEW k \in {1, 2}, k <= Len(operands),
         NEW t, (\A l \in DOMAIN Top(k) : IsScalar(Top(k)[l])) => t \in Type,
         NEW class, Operation(op, Top(k), t, class)
  PROVE  IInv'
<1>1. CASE \E l \in DOMAIN Top(k) : ~IsScalar(Top(k)[l])
  BY <1>1, FailStep DEF Operation
<1>2. CASE ~ \E l \in DOMAIN Top(k) : ~IsScalar(Top(k)[l])
  <2>1. t \in Type /\ Allocate(t)
    BY <1>2 DEF Operation
  <2>2. PICK d : Push(Len(Top(k)), Expression(Fresh, d, class))
    BY <1>2 DEF Operation
  <2>3. Len(Top(k)) = k
    BY TopOK
  <2>4. LeadsInto(Expression(Fresh, d, class).result, Len(types'))
    BY <2>1, AllocateOK, ExpressionResult
  <2> QED
    BY <2>1, <2>2, <2>3, <2>4, AllocateOK, PushStep
<1> QED
  BY <1>1, <1>2

-----------------------------------------------------------------------------
(* Operators.                                                              *)

\* Leaves: a new object, or one that is there.
LEMMA LeafStep ==
  ASSUME IInv
  PROVE  /\ \A p \in PrimitiveType : Constant(p) => IInv'
         /\ StringConstant => IInv'
         /\ \A v \in Var : Variable(v) \/ AddressOf(v) => IInv'
<1>1. 0 \in Nat /\ 0 <= Len(operands)
  BY DEF IInv, OperandsOK
<1>2. ASSUME NEW p \in PrimitiveType, Constant(p) PROVE IInv'
  <2>1. PrimitiveKind(p) \in Type
    BY MadeTypes
  <2>2. Allocate(PrimitiveKind(p))
        /\ Push(0, Expression(Fresh, ConstantData(p), "plain"))
    BY <1>2 DEF Constant
  <2> QED
    BY <1>1, <2>1, <2>2, AllocateOK, ExpressionResult, PushStep
<1>3. UNCHANGED types => Heap' /\ Len(types') >= Len(types)
  BY DEF IInv, Heap
<1>4. ASSUME StringConstant PROVE IInv'
  <2>1. LeadsInto(StringLiteralType, Len(types'))
    BY <1>4 DEF StringConstant, IInv, Heap, LeadsInto, StringLiteralType, Pointer,
                ShortShortUnsignedInt
  <2>2. UNCHANGED types /\ Push(0, Expression(StringLiteralType, StringData, "plain"))
    BY <1>4 DEF StringConstant
  <2> QED
    BY <1>1, <1>3, <2>1, <2>2, ExpressionResult, PushStep
<1>5. ASSUME NEW v \in Var, Variable(v) PROVE IInv'
  <2>1. UNCHANGED types /\ LeadsInto(vars[v], Len(types'))
    BY <1>5 DEF Variable, IInv, VarsOK, MayLeadInto
  <2>2. PICK c : Push(0, Expression(vars[v], LoadData(v), c))
    BY <1>5 DEF Variable
  <2> QED
    BY <1>1, <1>3, <2>1, <2>2, ExpressionResult, PushStep
<1>6. ASSUME NEW v \in Var, AddressOf(v) PROVE IInv'
  <2> DEFINE p == Pointer(vars[v].refs + 1, vars[v].base)
  <2>1. UNCHANGED types /\ LeadsInto(p, Len(types'))
    BY <1>6 DEF AddressOf, IInv, VarsOK, MayLeadInto, LeadsInto, Pointer
  <2>2. PICK c : Push(0, Expression(p, PtrType, c))
    BY <1>6 DEF AddressOf
  <2> HIDE DEF p
  <2> QED
    BY <1>1, <1>3, <2>1, <2>2, ExpressionResult, PushStep
<1> QED
  BY <1>2, <1>4, <1>5, <1>6

\* Operators of two operands.
LEMMA BinaryStep ==
  ASSUME IInv
  PROVE  /\ Arithmetic \/ Relational \/ Bool => IInv'
         /\ \A p \in PrimitiveType : Bit(p) => IInv'
<1>1. ASSUME Len(operands) >= 2
      PROVE  BaseOf(Top(2)[1]) \in Type /\ BaseOf(Top(2)[2]) \in Type
  BY <1>1, TopOK, BaseIsType
<1>2. ASSUME NEW op, NEW t \in Type, NEW class, Len(operands) >= 2,
             Operation(op, Top(2), t, class)
      PROVE  IInv'
  <2>1. 2 <= Len(operands)
    BY <1>2 DEF IInv, OperandsOK
  <2> QED
    BY <1>2, <2>1, OperationStep
<1>3. ASSUME Len(operands) >= 2
      PROVE  TypeFromOperands(BaseOf(Top(2)[1]), BaseOf(Top(2)[2])) \in Type
  BY <1>1, <1>3, Combined
<1>4. PrimitiveKind("Int") \in Type
  BY MadeTypes DEF PrimitiveType
<1>5. ASSUME Arithmetic PROVE IInv'
  <2> DEFINE t == TypeFromOperands(BaseOf(Top(2)[1]), BaseOf(Top(2)[2]))
  <2>1. Len(operands) >= 2
        /\ (Fail("refused") \/ \E c : Operation("arithmetic", Top(2), t, c))
    BY <1>5 DEF Arithmetic
  <2> HIDE DEF t
  <2> QED
    BY <1>2, <1>3, <2>1, FailStep DEF t
<1>6. ASSUME Relational PROVE IInv'
  <2>1. Len(operands) >= 2
        /\ \E c : Operation("relational", Top(2), PrimitiveKind("Int"), c)
    BY <1>6 DEF Relational
  <2> QED
    BY <1>2, <1>4, <2>1
<1>7. ASSUME Bool PROVE IInv'
  <2> DEFINE t == TypeFromOperands(BaseOf(Top(2)[1]), BaseOf(Top(2)[2]))
  <2>1. Len(operands) >= 2
        /\ (Fail("refused") \/ \E c : Operation("logical", Top(2), t, c))
    BY <1>7 DEF Bool
  <2> HIDE DEF t
  <2> QED
    BY <1>2, <1>3, <2>1, FailStep DEF t
<1>8. ASSUME NEW p \in PrimitiveType, Bit(p) PROVE IInv'
  <2> DEFINE l == BaseOf(Top(2)[1])
             r == BaseOf(Top(2)[2])
             t == IF IsComposite(l) /\ IsComposite(r)
                  THEN CompositeKind(MaxEnum(l.sign, r.sign), l.scale, p)
                  ELSE PrimitiveKind("Int")
  <2>1. Len(operands) >= 2
        /\ (Fail("refused") \/ \E c : Operation("bitwise", Top(2), t, c))
    BY <1>8 DEF Bit
  <2>2. \A x, y \in Sign : MaxEnum(x, y) \in Sign
    BY DEF MaxEnum
  <2>3. t \in Type
    BY <1>1, <1>4, <2>1, <2>2, TypeCases, MadeTypes
  <2> HIDE DEF t
  <2> QED
    BY <1>2, <2>1, <2>3, FailStep
<1> QED
  BY <1>5, <1>6, <1>7, <1>8

\* A negation writes a sign into an object, which stays a type.
LEMMA NegateStep == IInv /\ Negate => IInv'
<1> SUFFICES ASSUME IInv, Negate PROVE IInv'
  OBVIOUS
<1> DEFINE e == Top(1)[1]
<1>1. 1 <= Len(operands) /\ LeadsInto(e.result, Len(types)) /\ BaseOf(e) \in Type
  <2>1. Len(operands) >= 1 /\ 1 <= Len(operands)
    BY DEF Negate, IInv, OperandsOK
  <2> QED
    BY <2>1, TopOK, BaseIsType
<1>2. CASE Fail("refused") \/ Fail("crashed")
  BY <1>2, FailStep
<1>3. CASE ~(Fail("refused") \/ Fail("crashed"))
  <2>1. types' = types \/ (types' = [types EXCEPT ![e.result.base].sign = "Signed"]
                             /\ IsComposite(BaseOf(e)))
    BY <1>3 DEF Negate
  <2>2. Heap' /\ Len(types') = Len(types)
    <3>1. CASE types' = types
      BY <3>1 DEF IInv, Heap
    <3>2. CASE types' # types
      <4> DEFINE u == [BaseOf(e) EXCEPT !.sign = "Signed"]
      <4>1. u = CompositeKind("Signed", BaseOf(e).scale, BaseOf(e).primitive)
        BY <1>1, <2>1, <3>2, TypeCases DEF CompositeKind
      <4>2. u \in Type
        BY <1>1, <2>1, <3>2, <4>1, TypeCases, MadeTypes DEF Sign
      <4>3. types' = [types EXCEPT ![e.result.base] = u]
        BY <2>1, <3>2 DEF BaseOf
      <4> HIDE DEF u
      <4> QED
        BY <1>1, <4>2, <4>3 DEF IInv, Heap, LeadsInto
    <3> QED
      BY <3>1, <3>2
  <2>3. PICK d, c : Push(1, Expression(e.result, d, c))
    BY <1>3 DEF Negate
  <2>4. LeadsInto(Expression(e.result, d, c).result, Len(types'))
        /\ Len(types') >= Len(types)
    BY <1>1, <2>2, ExpressionResult DEF IInv, Heap
  <2> QED
    BY <1>1, <2>2, <2>3, <2>4, PushStep
<1> QED
  BY <1>2, <1>3

\* The other operators of one operand, and the index.
LEMMA UnaryStep == IInv /\ (BoolNot \/ BitNot \/ Deref) => IInv'
<1> SUFFICES ASSUME IInv, BoolNot \/ BitNot \/ Deref PROVE IInv'
  OBVIOUS
<1> DEFINE e == Top(1)[1]
<1>1. Len(operands) >= 1 /\ 1 <= Len(operands)
  <2>1. Len(operands) \in Nat
    BY DEF IInv, OperandsOK
  <2>2. Len(operands) >= 1 \/ Len(operands) >= 2
    BY DEF BoolNot, BitNot, Deref
  <2> QED
    BY <2>1, <2>2
<1>2. BaseOf(e) \in Type /\ Top(1) = <<e>>
  BY <1>1, TopOK, BaseIsType
<1>3. ASSUME NEW op, NEW t \in Type, NEW c, Operation(op, <<e>>, t, c) PROVE IInv'
  BY <1>1, <1>2, <1>3, OperationStep
<1>4. CASE BoolNot
  <2>1. Fail("refused") \/ \E c : Operation("logical", <<e>>, BaseOf(e), c)
    BY <1>4 DEF BoolNot
  <2> QED
    BY <1>2, <1>3, <2>1, FailStep
<1>5. CASE BitNot
  <2> DEFINE t == IF IsComposite(BaseOf(e))
                  THEN CompositeKind(BaseOf(e).sign, BaseOf(e).scale, "Int")
                  ELSE PrimitiveKind("Int")
  <2>1. \/ \E p \in {"refused", "crashed"} : Fail(p)
        \/ \E c : Operation("bitwise", <<e>>, t, c)
    BY <1>5 DEF BitNot
  <2>2. t \in Type
    BY <1>2, TypeCases, MadeTypes DEF PrimitiveType
  <2> HIDE DEF t
  <2> QED
    BY <1>3, <2>1, <2>2, FailStep
<1>6. CASE Deref
  <2> DEFINE r == Top(2)[2].result
             p == Pointer(r.refs - 1, r.base)
  <2>1. CASE Fail("refused")
    BY <2>1, FailStep
  <2>2. CASE ~Fail("refused")
    <3>1. Len(operands) >= 2 /\ 2 <= Len(operands) /\ UNCHANGED types
          /\ \E d, c : Push(2, Expression(p, d, c))
      BY <1>6, <2>2 DEF Deref, IInv, OperandsOK
    <3>2. r.refs # 0 /\ LeadsInto(r, Len(types))
      <4>1. ~IsScalar(Top(2)[2])
        BY <1>6, <2>2 DEF Deref
      <4>2. 2 \in 1 .. 2
        OBVIOUS
      <4>3. LeadsInto(Top(2)[2].result, Len(types))
        BY <3>1, <4>2, TopOK
      <4> QED
        BY <4>1, <4>3 DEF IsScalar
    <3>3. LeadsInto(p, Len(types')) /\ Heap' /\ Len(types') >= Len(types)
      BY <3>1, <3>2 DEF LeadsInto, Pointer, IInv, Heap
    <3> HIDE DEF p, r
    <3> QED
      BY <3>1, <3>3, ExpressionResult, PushStep
  <2> QED
    BY <2>1, <2>2
<1> QED
  BY <1>4, <1>5, <1>6

-----------------------------------------------------------------------------
(* Written types.                                                          *)

\* A heap with room for a written type, and the pointer to it.
LEMMA TypeImplOK ==
  ASSUME NEW h \in Seq(Type), NEW node \in Nodes \cup TypedefNodes, IsType(node),
         \A n \in TypeName : MayLeadInto(typedefs[n], Len(h))
  PROVE  /\ HeapWith(h, node) \in Seq(Type)
         /\ Len(HeapWith(h, node)) >= Len(h)
         /\ LeadsInto(TypeImpl(h, node), Len(HeapWith(h, node)))
<1>1. node.refs \in Nat /\ node.factors \in Seq(Factor)
  BY NodesAssumption
<1>2. CASE IsDeclared(node)
  <2>1. LeadsInto(typedefs[node.kind], Len(h))
    BY <1>2 DEF IsDeclared, MayLeadInto
  <2> QED
    BY <1>1, <1>2, <2>1 DEF HeapWith, TypeImpl, LeadsInto, Pointer
<1>3. CASE ~IsDeclared(node)
  <2>1. NewType(node) \in Type
    BY <1>1, <1>3, NewTypeIsType DEF IsType
  <2> QED
    BY <1>1, <1>3, <2>1 DEF HeapWith, TypeImpl, LeadsInto, Pointer
<1> QED
  BY <1>2, <1>3

LEMMA TypeImplHere ==
  ASSUME IInv, NEW node \in Nodes \cup TypedefNodes, IsType(node),
         types' = HeapWith(types, node)
  PROVE  Heap' /\ Len(types') >= Len(types) /\ LeadsInto(TypeImpl(types, node), Len(types'))
<1>1. types \in Seq(Type) /\ Len(types) \in Nat /\ Len(types) >= 1
      /\ \A n \in TypeName : MayLeadInto(typedefs[n], Len(types))
  BY DEF IInv, Heap, TypedefsOK
<1>2. types' \in Seq(Type) /\ Len(types') >= Len(types)
      /\ LeadsInto(TypeImpl(types, node), Len(types'))
  BY <1>1, TypeImplOK
<1> QED
  BY <1>1, <1>2 DEF Heap

LEMMA CastStep ==
  ASSUME IInv, NEW node \in Nodes, TypeCast(node) \/ CreateTransmute(node)
  PROVE  IInv'
<1>1. CASE Fail("refused")
  BY <1>1, FailStep
<1>2. CASE ~Fail("refused")
  <2>1. IsType(node) /\ types' = HeapWith(types, node) /\ 1 <= Len(operands)
    BY <1>2 DEF TypeCast, CreateTransmute, IInv, OperandsOK
  <2>2. \E d, c : Push(1, Expression(TypeImpl(types, node), d, c))
    BY <1>2 DEF TypeCast, CreateTransmute
  <2> QED
    BY <2>1, <2>2, TypeImplHere, ExpressionResult, PushStep
<1> QED
  BY <1>1, <1>2

-----------------------------------------------------------------------------
(* Declarations and statements.                                            *)

\* The end of a statement keeps what is pointed to.
LEMMA KeptOK ==
  ASSUME IInv
  PROVE  /\ Kept \in Seq(Type) /\ Len(Kept) >= 1
         /\ \A n \in TypeName : MayLeadInto(typedefs[n], Len(Kept))
         /\ \A v \in Var : MayLeadInto(vars[v], Len(Kept))
         /\ \A s \in stores : LeadsInto(s.to, Len(Kept))
         /\ Len(Kept) \in 1 .. Len(types) /\ \A b \in 1 .. Len(Kept) : Kept[b] = types[b]
<1> DEFINE used == {typedefs[n].base : n \in TypeName} \cup {vars[v].base : v \in Var}
                     \cup {s.to.base : s \in stores} \cup {ShortShortUnsignedInt}
           last == CHOOSE k \in used : \A l \in used : l <= k
<1>1. types \in Seq(Type) /\ Len(types) \in Nat /\ Len(types) >= 1
  BY DEF IInv, Heap
<1>2. used \in SUBSET (0 .. Len(types)) /\ used # {} /\ 1 \in used
  <2>1. \A p : MayLeadInto(p, Len(types)) => p.base \in 0 .. Len(types)
    BY <1>1 DEF MayLeadInto, LeadsInto, NoPointer, Pointer
  <2>2. \A n \in TypeName : typedefs[n].base \in 0 .. Len(types)
    BY <2>1 DEF IInv, TypedefsOK
  <2>3. \A v \in Var : vars[v].base \in 0 .. Len(types)
    BY <2>1 DEF IInv, VarsOK
  <2>4. \A s \in stores : s.to.base \in 0 .. Len(types)
    BY <2>1 DEF IInv, StoresOK, MayLeadInto
  <2> QED
    BY <1>1, <2>2, <2>3, <2>4 DEF ShortShortUnsignedInt
<1>3. last \in used /\ \A l \in used : l <= last
  <2> HIDE DEF used
  <2>1. \E k \in used : \A l \in used : l <= k
    BY <1>1, <1>2, Greatest
  <2> QED
    BY <2>1
<1>4. Kept = SubSeq(types, 1, last)
  BY DEF Kept
<1>5. last \in 1 .. Len(types)
  <2> HIDE DEF used, last
  <2> QED
    BY <1>1, <1>2, <1>3
<1>6. Kept \in Seq(Type) /\ Len(Kept) = last
  <2> HIDE DEF used, last
  <2> QED
    BY <1>1, <1>4, <1>5
<1>7. ASSUME NEW p, MayLeadInto(p, Len(types)), p.base \in used
      PROVE  MayLeadInto(p, Len(Kept))
  <2> HIDE DEF used, last
  <2> QED
    BY <1>1, <1>3, <1>5, <1>6, <1>7 DEF MayLeadInto, LeadsInto
<1>8. ASSUME NEW s \in stores PROVE LeadsInto(s.to, Len(Kept))
  <2>1. s.to.base \in used /\ LeadsInto(s.to, Len(types))
    BY DEF IInv, StoresOK
  <2> HIDE DEF used, last
  <2> QED
    BY <1>1, <1>3, <1>5, <1>6, <2>1 DEF LeadsInto
<1>9. \A n \in TypeName : MayLeadInto(typedefs[n], Len(Kept))
  <2> TAKE n \in TypeName
  <2>1. typedefs[n].base \in used /\ MayLeadInto(typedefs[n], Len(types))
    BY DEF IInv, TypedefsOK
  <2> QED
    BY <1>7, <2>1
<1>10. \A v \in Var : MayLeadInto(vars[v], Len(Kept))
  <2> TAKE v \in Var
  <2>1. vars[v].base \in used /\ MayLeadInto(vars[v], Len(types))
    BY DEF IInv, VarsOK
  <2> QED
    BY <1>7, <2>1
<1>11. Len(Kept) >= 1
  <2> HIDE DEF used, last
  <2> QED
    BY <1>1, <1>5, <1>6
<1>12. Len(Kept) \in 1 .. Len(types) /\ \A b \in 1 .. Len(Kept) : Kept[b] = types[b]
  <2> HIDE DEF used, last
  <2> QED
    BY <1>1, <1>4, <1>5, <1>6
<1> QED
  BY <1>6, <1>8, <1>9, <1>10, <1>11, <1>12

\* createTypeDef and createDecl add an object and the pointers to it.
LEMMA DeclareStep ==
  ASSUME IInv,
         \/ \E n \in TypeName, node \in TypedefNodes : TypeDef(n, node)
         \/ \E vs \in SUBSET Var \ {{}}, node \in Nodes : Decl(vs, node)
  PROVE  IInv'
<1>1. ASSUME NEW n \in TypeName, NEW node \in TypedefNodes, TypeDef(n, node), IsType(node)
      PROVE  IInv'
  <2>1. Heap' /\ Len(types') >= Len(types) /\ LeadsInto(TypeImpl(types, node), Len(types'))
    BY <1>1, TypeImplHere DEF TypeDef
  <2>2. TypedefsOK'
    <3>1. \A m \in TypeName : MayLeadInto(typedefs[m], Len(types'))
      BY <2>1 DEF IInv, Heap, TypedefsOK, MayLeadInto, LeadsInto
    <3>2. typedefs' = [typedefs EXCEPT ![n] = TypeImpl(types, node)]
      BY <1>1 DEF TypeDef
    <3> QED
      BY <2>1, <3>1, <3>2 DEF IInv, TypedefsOK, MayLeadInto
  <2> QED
    BY <1>1, <2>1, <2>2, GrowingHeap DEF IInv, TypeDef
<1>2. ASSUME NEW vs \in SUBSET Var, NEW node \in Nodes, Decl(vs, node), IsType(node)
      PROVE  IInv'
  <2>1. Heap' /\ Len(types') >= Len(types) /\ LeadsInto(TypeImpl(types, node), Len(types'))
    BY <1>2, TypeImplHere DEF Decl
  <2>2. VarsOK'
    <3>1. \A v \in Var : MayLeadInto(vars[v], Len(types'))
      BY <2>1 DEF IInv, Heap, VarsOK, MayLeadInto, LeadsInto
    <3>2. vars' = [v \in Var |-> IF v \in vs THEN TypeImpl(types, node) ELSE vars[v]]
      BY <1>2 DEF Decl
    <3> QED
      BY <2>1, <3>1, <3>2 DEF VarsOK, MayLeadInto
  <2> QED
    BY <1>2, <2>1, <2>2, GrowingHeap DEF IInv, Decl
<1>3. CASE Fail("refused")
  BY <1>3, FailStep
<1> QED
  BY <1>1, <1>2, <1>3 DEF TypeDef, Decl

\* createAssign: the place is one of a variable's.
LEMMA AssignToStep ==
  ASSUME IInv, NEW p, NEW v \in Var, LeadsInto(vars[v], Len(types)),
         p.refs \in Nat, p.base = vars[v].base, NEW e, AssignTo(p, e)
  PROVE  IInv'
<1>1. CASE Fail("refused")
  BY <1>1, FailStep
<1>2. CASE ~Fail("refused")
  <2>1. /\ types' = Kept /\ operands' = <<>> /\ UNCHANGED <<typedefs, vars, phase>>
        /\ \E d : stores' = stores \cup {Store(p, d)}
    BY <1>2 DEF AssignTo
  <2>2. vars[v] # NoPointer /\ LeadsInto(vars[v], Len(Kept))
    BY KeptOK DEF MayLeadInto, LeadsInto, NoPointer, Pointer
  <2>3. LeadsInto(p, Len(Kept))
    BY <2>2 DEF LeadsInto
  <2>4. \A d : Store(p, d).to = p
    BY DEF Store
  <2>5. StoresOK'
    BY <2>1, <2>3, <2>4, KeptOK DEF StoresOK
  <2>6. OperandsOK'
    <3>1. operands' \in Seq({})
      BY <2>1
    <3> QED
      BY <2>1, <3>1 DEF OperandsOK
  <2> QED
    BY <2>1, <2>5, <2>6, KeptOK DEF IInv, Heap, TypedefsOK, VarsOK
<1> QED
  BY <1>1, <1>2

LEMMA AssignStep ==
  ASSUME IInv, NEW v \in Var, Assign(v) \/ AssignElement(v) PROVE IInv'
<1>1. LeadsInto(vars[v], Len(types))
  BY DEF Assign, AssignElement, IInv, VarsOK, MayLeadInto
<1>2. CASE Assign(v)
  BY <1>1, <1>2, AssignToStep DEF Assign, LeadsInto
<1>3. CASE AssignElement(v)
  <2> DEFINE p == Pointer(vars[v].refs - 1, vars[v].base)
  <2>1. CASE Fail("refused")
    BY <2>1, FailStep
  <2>2. CASE ~Fail("refused")
    <3>1. vars[v].refs # 0 /\ AssignTo(p, operands[2])
      BY <1>3, <2>2 DEF AssignElement
    <3>2. p.refs \in Nat /\ p.base = vars[v].base
      BY <1>1, <3>1 DEF LeadsInto, Pointer
    <3> HIDE DEF p
    <3> QED
      BY <1>1, <3>1, <3>2, AssignToStep
  <2> QED
    BY <2>1, <2>2
<1> QED
  BY <1>2, <1>3

\* createDef: an object for the written type after what is kept.
LEMMA DefStep ==
  ASSUME IInv, NEW v \in Var, NEW node \in Nodes, Def(v, node) PROVE IInv'
<1>1. CASE Fail("refused")
  BY <1>1, FailStep
<1>2. CASE ~Fail("refused")
  <2> DEFINE p == TypeImpl(Kept, node)
  <2>1. /\ IsType(node) /\ types' = HeapWith(Kept, node)
        /\ vars' = [vars EXCEPT ![v] = p]
        /\ operands' = <<>> /\ UNCHANGED <<typedefs, phase>>
        /\ \E d : stores' = stores \cup {Store(p, d)}
    BY <1>2 DEF Def
  <2>2. types' \in Seq(Type) /\ Len(types') >= Len(Kept) /\ LeadsInto(p, Len(types'))
    BY <2>1, KeptOK, TypeImplOK
  <2> HIDE DEF p
  <2>3. Len(Kept) \in Nat /\ Len(types') \in Nat /\ Len(Kept) >= 1
    BY <2>2, KeptOK
  <2>4. \A q : /\ LeadsInto(q, Len(Kept)) => LeadsInto(q, Len(types'))
               /\ MayLeadInto(q, Len(Kept)) => MayLeadInto(q, Len(types'))
    BY <2>2, <2>3 DEF LeadsInto, MayLeadInto
  <2>5. Heap'
    BY <2>2, <2>3 DEF Heap
  <2>6. TypedefsOK'
    BY <2>1, <2>4, KeptOK DEF IInv, TypedefsOK
  <2>7. VarsOK'
    BY <2>1, <2>2, <2>4, KeptOK DEF IInv, VarsOK, MayLeadInto
  <2>8. StoresOK'
    <3>1. \A d : Store(p, d).to = p
      BY DEF Store
    <3> QED
      BY <2>1, <2>2, <2>4, <3>1, KeptOK DEF StoresOK
  <2>9. OperandsOK'
    <3>1. operands' \in Seq({})
      BY <2>1
    <3> QED
      BY <2>1, <3>1 DEF OperandsOK
  <2> QED
    BY <2>1, <2>5, <2>6, <2>7, <2>8, <2>9 DEF IInv
<1> QED
  BY <1>1, <1>2

-----------------------------------------------------------------------------
(* LLVM types.                                                             *)

\* The object of a type after a step: negating it may have made it signed.
KeepsType(t, u) ==
  u = t \/ (IsComposite(t) /\ u = CompositeKind("Signed", t.scale, t.primitive))

\* That does not change how a value of the type is stored, if it could be.
LEMMA KeptType ==
  ASSUME NEW t \in Type, NEW u, KeepsType(t, u)
  PROVE  /\ u.primitive = t.primitive
         /\ ~IsComposite(t) => u = t
         /\ LlvmTypeOf(t) # NoLlvmType => LlvmTypeOf(u) = LlvmTypeOf(t)
BY TypeCases DEF KeepsType, LlvmTypeOf, IsComposite, CompositeKind, PrimitiveLlvmType

\* Types that compare equal are stored alike, although one is a primitive and
\* the other a composite: except for Char, and no written type is one.
LEMMA ComparedTypes ==
  ASSUME NEW l \in Type, NEW r \in Type, CompareBase(l, r)
  PROVE  /\ l.primitive = r.primitive
         /\ LlvmTypeOf(l) # NoLlvmType \/ l.primitive # "Char" => LlvmTypeOf(l) = LlvmTypeOf(r)
<1>1. l.primitive = r.primitive
  BY TypeCases DEF CompareBase
<1>2. CASE l = r
  BY <1>1, <1>2
<1>3. CASE ~IsComposite(l) /\ ~IsComposite(r)
  BY <1>1, <1>3, TypeCases
<1>4. CASE IsComposite(l) /\ ~IsComposite(r)
  <2>1. l.scale = 0 /\ l.sign = "Signed"
    BY <1>4 DEF CompareBase
  <2>2. LlvmTypeOf(r) = IF l.primitive = "Float" THEN FloatType(0) ELSE IntType(0)
    BY <1>1, <1>4 DEF LlvmTypeOf, PrimitiveLlvmType
  <2>3. l.primitive # "Char"
        => LlvmTypeOf(l) = IF l.primitive = "Float" THEN FloatType(0) ELSE IntType(0)
    BY <1>4, <2>1, TypeCases DEF LlvmTypeOf, PrimitiveType
  <2>4. l.primitive = "Char" => LlvmTypeOf(l) = NoLlvmType
    BY <1>4 DEF LlvmTypeOf
  <2> QED
    BY <1>1, <2>2, <2>3, <2>4
<1> QED
  BY <1>2, <1>3, <1>4 DEF CompareBase

\* Which types the generator has.
LEMMA LlvmTypes ==
  /\ \A t \in Type :
       /\ LlvmTypeOf(t).llvm \in {"int", "float", "none"}
       /\ LlvmTypeOf(t).llvm = "none" <=> LlvmTypeOf(t) = NoLlvmType
       /\ t.primitive = "Int" => LlvmTypeOf(t).llvm = "int"
       /\ t.primitive = "Float" => LlvmTypeOf(t).llvm \in {"float", "none"}
       /\ ~IsComposite(t) => LlvmTypeOf(t) # NoLlvmType
       /\ t.primitive = "Char" /\ LlvmTypeOf(t) # NoLlvmType => ~IsComposite(t)
       /\ LlvmTypeOf(t) # PtrType
  /\ \A f : IntType(f).llvm = "int" /\ FloatType(f).llvm = "float"
  /\ BoolType.llvm = "int" /\ PtrType.llvm = "ptr" /\ NoLlvmType.llvm = "none"
<1>1. /\ \A f : IntType(f).llvm = "int" /\ FloatType(f).llvm = "float"
      /\ BoolType.llvm = "int" /\ PtrType.llvm = "ptr" /\ NoLlvmType.llvm = "none"
  BY DEF IntType, FloatType, BoolType, PtrType, NoLlvmType
<1>2. ASSUME NEW t \in Type
      PROVE  \/ (\E f : LlvmTypeOf(t) = IntType(f)) /\ t.primitive \in {"Int", "Char"}
                /\ (t.primitive = "Char" => ~IsComposite(t))
             \/ (\E f : LlvmTypeOf(t) = FloatType(f)) /\ t.primitive = "Float"
             \/ LlvmTypeOf(t) = NoLlvmType /\ IsComposite(t) /\ t.primitive # "Int"
  BY TypeCases DEF LlvmTypeOf, PrimitiveLlvmType, PrimitiveType
<1> QED
  BY <1>1, <1>2

\* The widths of the scales.
LEMMA Widths ==
  \A f, g \in Scale : f <= g => IntType(f).bits <= IntType(g).bits
                                /\ IntType(f).bits <= FloatType(g).bits
                                /\ FloatType(f).bits <= IntType(g).bits
                                /\ FloatType(f).bits <= FloatType(g).bits
<1>1. 2 ^ 0 = 1 /\ 2 ^ 1 = 2 /\ 2 ^ 2 = 4 /\ 2 ^ 3 = 8 /\ 2 ^ 4 = 16 /\ 2 ^ 5 = 32
  OBVIOUS
<1> DEFINE W(f) == 8 * 2 ^ (f + 2)
<1>2. W(-2) = 8 /\ W(-1) = 16 /\ W(0) = 32 /\ W(1) = 64 /\ W(2) = 128 /\ W(3) = 256
  <2>1. -2 + 2 = 0 /\ -1 + 2 = 1 /\ 0 + 2 = 2 /\ 1 + 2 = 3 /\ 2 + 2 = 4 /\ 3 + 2 = 5
    OBVIOUS
  <2> QED
    BY <1>1, <2>1
<1>3. \A f : IntType(f).bits = W(f) /\ FloatType(f).bits = W(f)
  BY DEF IntType, FloatType
<1> HIDE DEF W
<1>4. \A f \in Scale : f \in {-2, -1, 0, 1, 2, 3}
  BY DEF Scale, MinScale, MaxScale
<1>5. \A f, g \in Scale : f <= g => W(f) <= W(g)
  BY <1>2, <1>4
<1> QED
  BY <1>3, <1>5

\* Two operands are cast to a type that is as wide as each, and a float to an
\* integer only next to a composite one.
LEMMA Widened ==
  ASSUME NEW l \in Type, NEW r \in Type, NEW x \in {l, r},
         TypeFromOperands(l, r).primitive # "Char",
         LlvmTypeOf(x) # NoLlvmType, LlvmTypeOf(TypeFromOperands(l, r)) # NoLlvmType
  PROVE  /\ LlvmTypeOf(x).bits <= LlvmTypeOf(TypeFromOperands(l, r)).bits
         /\ LlvmTypeOf(x).llvm = "float" /\ LlvmTypeOf(TypeFromOperands(l, r)).llvm = "int"
              => x = PrimitiveKind("Float") /\ IsComposite(TypeFromOperands(l, r))
<1> DEFINE t == TypeFromOperands(l, r)
           s(y) == IF IsComposite(y) THEN y.scale ELSE 0
<1>1. t \in Type
  BY Combined
<1>2. s(x) \in Scale /\ s(t) \in Scale /\ s(x) <= s(t)
  <2>1. s(l) \in Scale /\ s(r) \in Scale
    BY TypeCases DEF Scale, MinScale, MaxScale
  <2>2. s(t) = IF s(l) >= s(r) THEN s(l) ELSE s(r)
    BY TypeCases DEF TypeFromOperands, MaxScaleOf, IsComposite, CompositeKind, PrimitiveKind, Scale
  <2> HIDE DEF s, t
  <2>3. s(x) \in Int /\ s(l) \in Int /\ s(r) \in Int
    BY <2>1 DEF Scale, MinScale, MaxScale
  <2> QED
    BY <2>1, <2>2, <2>3
<1>3. \A y \in Type : LlvmTypeOf(y) # NoLlvmType =>
        /\ LlvmTypeOf(y) \in {IntType(s(y)), FloatType(s(y))}
        /\ y.primitive # "Char" => (LlvmTypeOf(y) = FloatType(s(y)) <=> y.primitive = "Float")
                                   /\ (LlvmTypeOf(y) = IntType(s(y)) <=> y.primitive = "Int")
  BY TypeCases DEF LlvmTypeOf, PrimitiveLlvmType, IntType, FloatType, PrimitiveType
<1>4. LlvmTypeOf(x).bits <= LlvmTypeOf(t).bits
  BY <1>1, <1>2, <1>3, Widths
<1>5. ASSUME LlvmTypeOf(x).llvm = "float", LlvmTypeOf(t).llvm = "int"
      PROVE  x = PrimitiveKind("Float") /\ IsComposite(t)
  <2>1. x.primitive = "Float" /\ t.primitive = "Int"
    <3>1. x.primitive = "Float"
      BY <1>5, TypeCases, LlvmTypes DEF LlvmTypeOf, PrimitiveLlvmType, PrimitiveType
    <3> QED
      BY <1>1, <1>5, <3>1, LlvmTypes, TypeCases DEF PrimitiveType
  <2>2. Rank["Int"] = 0 /\ Rank["Float"] = 1 /\ Rank["Char"] = 2
    BY DEF Rank
  <2> QED
    BY <2>1, <2>2, TypeCases
       DEF TypeFromOperands, MaxEnum, IsComposite, CompositeKind, PrimitiveKind, PrimitiveType
<1> QED
  BY <1>4, <1>5

-----------------------------------------------------------------------------
(* The second invariant: the analysis and the generator agree.             *)

\* An expression whose value has its type, on the heap h.  Its type is one
\* that can be stored; one made of comparisons has the type int.
FitsIn(h, e) ==
  /\ e.class \in {"plain", "truth", "other"}
  /\ e.class = "plain" => ImplIn(h, e.result) # NoLlvmType /\ e.data = ImplIn(h, e.result)
  /\ e.class = "truth" => /\ e.data = BoolType /\ e.result.refs = 0
                          /\ h[e.result.base] = PrimitiveKind("Int")
\* A type that was written is not made of Char: there is no name for it.
WrittenIn(h, p) == p # NoPointer => h[p.base].primitive # "Char"

FirstType  == types[1] = CompositeKind("Unsigned", MinScale, "Int")
Written    == /\ \A n \in TypeName : WrittenIn(types, typedefs[n])
              /\ \A v \in Var : WrittenIn(types, vars[v])
Fitting    == \A k \in 1 .. Len(operands) : FitsIn(types, operands[k])

Agreement == FirstType /\ Written /\ Fitting /\ ArithmeticWidens

\* What VariablesKeepTheirWidth asks of a step.
WidthsStay ==
  \A v \in Var : NoPointer \notin {vars[v], vars'[v]} /\ Impl(vars[v]) # NoLlvmType
                 => Impl(vars[v])' = Impl(vars[v])

LEMMA InitAgreement == Init => Agreement
<1> SUFFICES ASSUME Init PROVE Agreement
  OBVIOUS
<1>1. FirstType /\ Written /\ ArithmeticWidens
  BY DEF Init, FirstType, Written, WrittenIn, ArithmeticWidens
<1>2. Len(operands) = 0
  BY DEF Init
<1> QED
  BY <1>1, <1>2 DEF Agreement, Fitting

LEMMA FailAgrees ==
  ASSUME NEW p, Agreement, Fail(p) PROVE Agreement' /\ WidthsStay
<1>1. FirstType' /\ Written' /\ ArithmeticWidens' /\ WidthsStay
  BY DEF Agreement, Fail, FirstType, Written, WrittenIn, ArithmeticWidens, WidthsStay
<1>2. Len(operands') = 0
  BY DEF Fail
<1> QED
  BY <1>1, <1>2 DEF Agreement, Fitting

\* The first n objects of the heap are kept in g, but for signs.
KeepsHeap(g, n) == \A b \in 1 .. n : KeepsType(types[b], g[b])

LEMMA KeptHeap ==
  ASSUME IInv, NEW n \in 0 .. Len(types), NEW g, KeepsHeap(g, n),
         NEW p, LeadsInto(p, n)
  PROVE  /\ ImplIn(types, p) # NoLlvmType => ImplIn(g, p) = ImplIn(types, p)
         /\ types[p.base] = PrimitiveKind("Int") => g[p.base] = PrimitiveKind("Int")
         /\ g[p.base].primitive = types[p.base].primitive
<1>1. types[p.base] \in Type /\ KeepsType(types[p.base], g[p.base])
  BY DEF IInv, Heap, LeadsInto, KeepsHeap
<1>2. ~IsComposite(PrimitiveKind("Int"))
  BY DEF IsComposite, PrimitiveKind
<1> QED
  BY <1>1, <1>2, KeptType DEF ImplIn

LEMMA KeptFits ==
  ASSUME IInv, NEW n \in 0 .. Len(types), NEW g, KeepsHeap(g, n)
  PROVE  /\ \A e : LeadsInto(e.result, n) /\ FitsIn(types, e) => FitsIn(g, e)
         /\ \A p : MayLeadInto(p, n) /\ WrittenIn(types, p) => WrittenIn(g, p)
<1>1. ASSUME NEW e, LeadsInto(e.result, n), FitsIn(types, e) PROVE FitsIn(g, e)
  BY <1>1, KeptHeap DEF FitsIn
<1>3. ASSUME NEW p, MayLeadInto(p, n), WrittenIn(types, p) PROVE WrittenIn(g, p)
  BY <1>3, KeptHeap DEF WrittenIn, MayLeadInto
<1> QED
  BY <1>1, <1>3

\* The parts of the invariant that a step does not write to.
LEMMA KeptParts ==
  ASSUME IInv, Agreement, NEW n \in 1 .. Len(types), KeepsHeap(types', n),
         types'[1] = types[1]
  PROVE  /\ FirstType'
         /\ (\A m \in TypeName : MayLeadInto(typedefs[m], n))
              => \A m \in TypeName : WrittenIn(types', typedefs[m])
         /\ (\A v \in Var : MayLeadInto(vars[v], n))
              => /\ \A v \in Var : WrittenIn(types', vars[v])
                 /\ (\A v \in Var : vars[v] # NoPointer => vars'[v] = vars[v]) => WidthsStay
<1>1. FirstType'
  BY DEF Agreement, FirstType
<1>2. n \in 0 .. Len(types)
  BY DEF IInv, Heap
<1>3. ASSUME \A v \in Var : MayLeadInto(vars[v], n),
             \A v \in Var : vars[v] # NoPointer => vars'[v] = vars[v]
      PROVE  WidthsStay
  <2>1. ASSUME NEW v \in Var, vars[v] # NoPointer, Impl(vars[v]) # NoLlvmType
        PROVE  Impl(vars[v])' = Impl(vars[v])
    <3>1. LeadsInto(vars[v], n)
      BY <1>3, <2>1 DEF MayLeadInto
    <3>2. ImplIn(types, vars[v]) # NoLlvmType => ImplIn(types', vars[v]) = ImplIn(types, vars[v])
      BY <1>2, <3>1, KeptHeap
    <3>3. Impl(vars[v]) = ImplIn(types, vars[v]) /\ Impl(vars[v])' = ImplIn(types', vars'[v])
      BY DEF Impl, ImplIn
    <3> QED
      BY <1>3, <2>1, <3>2, <3>3
  <2> QED
    BY <2>1 DEF WidthsStay
<1> QED
  BY <1>1, <1>2, <1>3, KeptFits DEF Agreement, Written

LEMMA PushKeeps ==
  ASSUME IInv, NEW k \in Nat, k <= Len(operands), NEW e, Push(k, e)
  PROVE  \A l \in 1 .. Len(operands') :
           \/ operands'[l] = e
           \/ l \in 1 .. Len(operands) /\ operands'[l] = operands[l]
<1>1. PICK S : operands \in Seq(S)
  BY DEF IInv, OperandsOK
<1>2. /\ Rest(k) \in Seq(S) /\ Len(Rest(k)) = Len(operands) - k
      /\ \A l \in 1 .. Len(operands) - k : Rest(k)[l] = operands[l]
  BY <1>1 DEF Rest
<1>3. operands' = Append(Rest(k), e) /\ Rest(k) \in Seq(S \cup {e}) /\ e \in S \cup {e}
  BY <1>2 DEF Push
<1> DEFINE r == Rest(k)
<1>4. Len(r) \in Nat /\ Len(r) = Len(operands) - k
  BY <1>2
<1> HIDE DEF r
<1>5. /\ Len(operands') = Len(r) + 1 /\ operands'[Len(r) + 1] = e
      /\ \A l \in 1 .. Len(r) : operands'[l] = r[l]
  BY <1>3, <1>4 DEF r
<1>6. \A l \in 1 .. Len(r) : l \in 1 .. Len(operands) /\ r[l] = operands[l]
  BY <1>1, <1>2, <1>4 DEF r
<1> QED
  BY <1>4, <1>5, <1>6

\* An operator that leaves a fitting expression on a heap that is kept.
LEMMA PushAgrees ==
  ASSUME IInv, Agreement, KeepsHeap(types', Len(types)), types'[1] = types[1],
         NEW k \in Nat, k <= Len(operands), NEW e, Push(k, e), FitsIn(types', e),
         ArithmeticWidens'
  PROVE  Agreement' /\ WidthsStay
<1>1. Len(types) \in 1 .. Len(types) /\ Len(types) \in 0 .. Len(types)
  BY DEF IInv, Heap
<1>2. UNCHANGED <<typedefs, vars, stores>>
  BY DEF Push, heapUsers
<1>3. FirstType' /\ Written' /\ WidthsStay
  BY <1>1, <1>2, KeptParts DEF IInv, TypedefsOK, VarsOK, StoresOK, Written
<1>4. Fitting'
  <2>1. \A l \in 1 .. Len(operands) : FitsIn(types', operands[l])
    BY <1>1, KeptFits DEF Agreement, Fitting, IInv, OperandsOK
  <2> QED
    BY <2>1, PushKeeps DEF Fitting
<1> QED
  BY <1>3, <1>4 DEF Agreement

\* Operands fit.
LEMMA TopFits ==
  ASSUME IInv, Agreement, NEW k \in {1, 2}, Len(operands) >= k
  PROVE  \A l \in 1 .. k : /\ FitsIn(types, Top(k)[l])
                           /\ LeadsInto(Top(k)[l].result, Len(types))
                           /\ BaseOf(Top(k)[l]) \in Type
<1>1. PICK S : operands \in Seq(S)
  BY DEF IInv, OperandsOK
<1> TAKE l \in 1 .. k
<1>2. Top(k)[l] = operands[Len(operands) - k + l] /\ Len(operands) - k + l \in 1 .. Len(operands)
  <2>1. Len(operands) - k + 1 \in 1 .. Len(operands) + 1 /\ Len(operands) \in Nat
    BY <1>1
  <2>2. Len(operands) - (Len(operands) - k + 1) + 1 = k
    BY <2>1
  <2> QED
    BY <1>1, <2>1, <2>2 DEF Top
<1>3. FitsIn(types, Top(k)[l]) /\ LeadsInto(Top(k)[l].result, Len(types))
  BY <1>2 DEF Agreement, Fitting, IInv, OperandsOK
<1> QED
  BY <1>3, BaseIsType

-----------------------------------------------------------------------------
(* Operators on a heap that is kept.                                       *)

\* A heap that grows by one object, by one or none, or not at all.
LEMMA LongerHeap ==
  ASSUME IInv
  PROVE  /\ \A t : Allocate(t) =>
              /\ KeepsHeap(types', Len(types)) /\ types'[1] = types[1]
              /\ types'[Fresh.base] = t
         /\ UNCHANGED types => KeepsHeap(types', Len(types)) /\ types'[1] = types[1]
         /\ \A node : types' = HeapWith(types, node)
              => KeepsHeap(types', Len(types)) /\ types'[1] = types[1]
<1>1. types \in Seq(Type) /\ Len(types) \in Nat /\ 1 \in 1 .. Len(types)
  BY DEF IInv, Heap
<1>2. ASSUME NEW t
      PROVE  /\ \A b \in 1 .. Len(types) : Append(types, t)[b] = types[b]
             /\ Append(types, t)[Len(types) + 1] = t
  <2>1. types \in Seq(Type \cup {t})
    BY <1>1
  <2> QED
    BY <1>1, <2>1
<1> QED
  BY <1>1, <1>2 DEF Allocate, Fresh, Pointer, HeapWith, KeepsHeap, KeepsType

\* A new object of type t, and the value of an operator.
MadeWell(t, d, class) ==
  /\ class \in {"plain", "truth", "other"}
  /\ class = "plain" => LlvmTypeOf(t) # NoLlvmType /\ d = LlvmTypeOf(t)
  /\ class = "truth" => d = BoolType /\ t = PrimitiveKind("Int")

LEMMA FreshFits ==
  ASSUME NEW t, NEW d, NEW class, MadeWell(t, d, class), types'[Fresh.base] = t
  PROVE  FitsIn(types', Expression(Fresh, d, class))
BY DEF FitsIn, MadeWell, Expression, ImplIn, Fresh, Pointer

\* The end of an operation.
Args(es, t) == [l \in DOMAIN es |-> CastTo(es[l], t)]

LEMMA OperationAgrees ==
  ASSUME IInv, Agreement, NEW op, NEW k \in {1, 2}, k <= Len(operands), NEW t, NEW class,
         Operation(op, Top(k), t, class),
         (\A l \in 1 .. k : IsScalar(Top(k)[l])) => MadeWell(t, Data(op, Args(Top(k), t)), class),
         (\A l \in 1 .. k : IsScalar(Top(k)[l])) /\ op = "arithmetic"
           => \A c \in CastsOf(op, Top(k), t) :
                c.to.primitive # "Char"
                  /\ NoLlvmType \notin {LlvmTypeOf(c.from), LlvmTypeOf(c.to)} =>
                  /\ LlvmTypeOf(c.from).bits <= LlvmTypeOf(c.to).bits
                  /\ LlvmTypeOf(c.from).llvm = "float" /\ LlvmTypeOf(c.to).llvm = "int"
                       => c.from = PrimitiveKind("Float") /\ IsComposite(c.to)
  PROVE  Agreement' /\ WidthsStay
<1>1. DOMAIN Top(k) = 1 .. k /\ Len(Top(k)) = k
  BY TopOK
<1>2. CASE \E l \in DOMAIN Top(k) : ~IsScalar(Top(k)[l])
  BY <1>2, FailAgrees DEF Operation
<1>3. CASE ~ \E l \in DOMAIN Top(k) : ~IsScalar(Top(k)[l])
  <2>1. Allocate(t) /\ casts' = CastsOf(op, Top(k), t)
        /\ Push(k, Expression(Fresh, Data(op, Args(Top(k), t)), class))
    BY <1>1, <1>3 DEF Operation, Args
  <2>2. FitsIn(types', Expression(Fresh, Data(op, Args(Top(k), t)), class))
    BY <1>1, <1>3, <2>1, FreshFits, LongerHeap
  <2>3. \A c \in CastsOf(op, Top(k), t) : c.op = op
    BY DEF CastsOf
  <2>4. ArithmeticWidens'
    BY <1>1, <1>3, <2>1, <2>3 DEF ArithmeticWidens
  <2> DEFINE e == Expression(Fresh, Data(op, Args(Top(k), t)), class)
  <2>5. KeepsHeap(types', Len(types)) /\ types'[1] = types[1] /\ k \in Nat
    BY <2>1, LongerHeap
  <2> HIDE DEF e
  <2> QED
    BY <2>1, <2>2, <2>4, <2>5, PushAgrees DEF e
<1> QED
  BY <1>2, <1>3

\* What an operand is cast to.
LEMMA CastPlain ==
  ASSUME IInv, NEW e, FitsIn(types, e), IsScalar(e), BaseOf(e) \in Type, e.class = "plain",
         NEW t \in Type, LlvmTypeOf(t) # NoLlvmType
  PROVE  /\ CastTo(e, t).data = LlvmTypeOf(t)
         /\ CastTo(e, t).type.primitive = t.primitive
<1>1. e.data = LlvmTypeOf(BaseOf(e)) /\ e.data # NoLlvmType
  BY DEF FitsIn, IsScalar, ImplIn, BaseOf
<1>2. e.data.llvm \in {"int", "float"} /\ LlvmTypeOf(t).llvm \in {"int", "float"}
  BY <1>1, LlvmTypes
<1>3. CASE NeedsCast(e, t)
  <2>1. CastData(e.data, LlvmTypeOf(t)) = LlvmTypeOf(t)
    <3>1. "ptr" \notin {e.data.llvm, LlvmTypeOf(t).llvm}
      BY <1>2
    <3>2. {e.data.llvm, LlvmTypeOf(t).llvm} # {"ptr", "float"}
      BY <3>1
    <3> QED
      BY <1>1, <3>2 DEF CastData
  <2> QED
    BY <1>3, <2>1 DEF CastTo
<1>4. CASE ~NeedsCast(e, t)
  BY <1>1, <1>4, ComparedTypes DEF CastTo, NeedsCast
<1> QED
  BY <1>3, <1>4

LEMMA CastTruth ==
  ASSUME NEW e, FitsIn(types, e), e.class = "truth"
  PROVE  /\ IsScalar(e) /\ BaseOf(e) = PrimitiveKind("Int")
         /\ CastTo(e, PrimitiveKind("Int")) = [type |-> PrimitiveKind("Int"), data |-> BoolType]
<1>1. IsScalar(e) /\ BaseOf(e) = PrimitiveKind("Int") /\ e.data = BoolType
  BY DEF FitsIn, IsScalar, BaseOf
<1>2. CompareBase(PrimitiveKind("Int"), PrimitiveKind("Int"))
  BY DEF CompareBase, PrimitiveKind, IsComposite
<1> QED
  BY <1>1, <1>2 DEF CastTo, NeedsCast

LEMMA IntPrimitive ==
  /\ PrimitiveKind("Int") \in Type /\ PrimitiveKind("Int").primitive = "Int"
  /\ ~IsComposite(PrimitiveKind("Int"))
  /\ LlvmTypeOf(PrimitiveKind("Int")) = IntType(0)
  /\ LlvmTypeOf(PrimitiveKind("Int")) # NoLlvmType
BY MadeTypes DEF PrimitiveType, PrimitiveKind, LlvmTypeOf, IsComposite, PrimitiveLlvmType,
   IntType, NoLlvmType

\* Operands that are all plain, or all made of comparisons.
LEMMA PlainArguments ==
  ASSUME IInv, Agreement, NEW k \in {1, 2}, k <= Len(operands),
         \A l \in 1 .. k : IsScalar(Top(k)[l]), Plain(Top(k)),
         NEW t \in Type, LlvmTypeOf(t) # NoLlvmType
  PROVE  /\ SameData(Args(Top(k), t))
         /\ Right(Args(Top(k), t)).data = LlvmTypeOf(t)
         /\ Right(Args(Top(k), t)).type.primitive = t.primitive
<1>1. DOMAIN Top(k) = 1 .. k
  BY TopOK
<1>2. Len(operands) >= k
  BY DEF IInv, OperandsOK
<1>3. \A l \in 1 .. k : /\ CastTo(Top(k)[l], t).data = LlvmTypeOf(t)
                        /\ CastTo(Top(k)[l], t).type.primitive = t.primitive
  BY <1>1, <1>2, TopFits, CastPlain DEF Plain
<1> DEFINE as == Args(Top(k), t)
<1>4. /\ DOMAIN as = 1 .. k /\ Len(as) = k
      /\ \A l \in 1 .. k : as[l] = CastTo(Top(k)[l], t)
      /\ Right(as) = CastTo(Top(k)[k], t)
  BY <1>1 DEF Args, Right
<1>5. k \in 1 .. k
  OBVIOUS
<1> HIDE DEF as
<1>6. Right(as).data = LlvmTypeOf(t) /\ Right(as).type.primitive = t.primitive
  BY <1>3, <1>4, <1>5
<1>7. \A l \in 1 .. k : as[l].data = LlvmTypeOf(t)
  BY <1>3, <1>4
<1>8. SameData(as)
  BY <1>4, <1>5, <1>7 DEF SameData
<1> QED
  BY <1>6, <1>8 DEF as

LEMMA TruthArguments ==
  ASSUME IInv, Agreement, NEW k \in {1, 2}, k <= Len(operands), Truth(Top(k))
  PROVE  /\ SameData(Args(Top(k), PrimitiveKind("Int")))
         /\ Right(Args(Top(k), PrimitiveKind("Int"))).data = BoolType
         /\ \A l \in 1 .. k : BaseOf(Top(k)[l]) = PrimitiveKind("Int")
<1>1. DOMAIN Top(k) = 1 .. k
  BY TopOK
<1>2. Len(operands) >= k
  BY DEF IInv, OperandsOK
<1>3. \A l \in 1 .. k : /\ CastTo(Top(k)[l], PrimitiveKind("Int")).data = BoolType
                        /\ BaseOf(Top(k)[l]) = PrimitiveKind("Int")
  BY <1>1, <1>2, TopFits, CastTruth DEF Truth
<1> DEFINE as == Args(Top(k), PrimitiveKind("Int"))
<1>4. /\ DOMAIN as = 1 .. k /\ Len(as) = k
      /\ \A l \in 1 .. k : as[l] = CastTo(Top(k)[l], PrimitiveKind("Int"))
      /\ Right(as) = CastTo(Top(k)[k], PrimitiveKind("Int"))
  BY <1>1 DEF Args, Right
<1>5. k \in 1 .. k
  OBVIOUS
<1> HIDE DEF as
<1>6. SameData(as) /\ Right(as).data = BoolType
  BY <1>3, <1>4, <1>5, ZenonT(60) DEF SameData
<1> QED
  BY <1>3, <1>6 DEF as

-----------------------------------------------------------------------------
(* The operators, one by one.                                              *)

LEMMA Leaves ==
  ASSUME IInv, Agreement
  PROVE  /\ \A p \in PrimitiveType : Constant(p) => Agreement' /\ WidthsStay
         /\ StringConstant => Agreement' /\ WidthsStay
         /\ \A v \in Var : Variable(v) \/ AddressOf(v) => Agreement' /\ WidthsStay
<1>1. 0 \in Nat /\ 0 <= Len(operands)
  BY DEF IInv, OperandsOK
<1>2. casts' = {} => ArithmeticWidens'
  BY DEF ArithmeticWidens
<1>3. ASSUME NEW p \in PrimitiveType, Constant(p) PROVE Agreement' /\ WidthsStay
  <2> DEFINE e == Expression(Fresh, ConstantData(p), "plain")
  <2>1. Allocate(PrimitiveKind(p)) /\ Push(0, e) /\ casts' = {}
    BY <1>3 DEF Constant
  <2>2. MadeWell(PrimitiveKind(p), ConstantData(p), "plain")
    <3>1. PrimitiveKind(p) \in Type /\ ~IsComposite(PrimitiveKind(p))
      BY MadeTypes DEF PrimitiveKind, IsComposite
    <3> QED
      BY <3>1, LlvmTypes DEF MadeWell, ConstantData
  <2>3. FitsIn(types', e) /\ KeepsHeap(types', Len(types)) /\ types'[1] = types[1]
    BY <2>1, <2>2, LongerHeap, FreshFits
  <2> HIDE DEF e
  <2> QED
    BY <1>1, <1>2, <2>1, <2>3, PushAgrees
<1>4. ASSUME StringConstant PROVE Agreement' /\ WidthsStay
  <2> DEFINE e == Expression(StringLiteralType, StringData, "plain")
  <2>1. UNCHANGED types /\ Push(0, e) /\ casts' = {}
    BY <1>4 DEF StringConstant
  <2>2. FitsIn(types', e)
    <3>1. LlvmTypeOf(types[1]) = IntType(MinScale)
      BY DEF Agreement, FirstType, LlvmTypeOf, CompositeKind, IsComposite
    <3>2. IntType(MinScale) # NoLlvmType /\ PtrType # NoLlvmType
      BY LlvmTypes
    <3> QED
      BY <2>1, <3>1, <3>2 DEF FitsIn, Expression, ImplIn, StringLiteralType, Pointer,
                              ShortShortUnsignedInt, StringData
  <2>3. KeepsHeap(types', Len(types)) /\ types'[1] = types[1]
    BY <2>1, LongerHeap
  <2> HIDE DEF e
  <2> QED
    BY <1>1, <1>2, <2>1, <2>2, <2>3, PushAgrees
<1>5. ASSUME NEW v \in Var, Variable(v) PROVE Agreement' /\ WidthsStay
  <2>1. PICK c : /\ UNCHANGED types /\ Push(0, Expression(vars[v], LoadData(v), c)) /\ casts' = {}
                 /\ c = IF LoadData(v) = NoLlvmType THEN "other" ELSE "plain"
    BY <1>5 DEF Variable
  <2> DEFINE e == Expression(vars[v], LoadData(v), c)
  <2>2. FitsIn(types', e)
    BY <2>1 DEF FitsIn, Expression, ImplIn, LoadData, Impl
  <2>3. KeepsHeap(types', Len(types)) /\ types'[1] = types[1]
    BY <2>1, LongerHeap
  <2>4. Push(0, e)
    BY <2>1
  <2> HIDE DEF e
  <2> QED
    BY <1>1, <1>2, <2>1, <2>2, <2>3, <2>4, PushAgrees
<1>6. ASSUME NEW v \in Var, AddressOf(v) PROVE Agreement' /\ WidthsStay
  <2> DEFINE p == Pointer(vars[v].refs + 1, vars[v].base)
  <2>1. PICK c : /\ UNCHANGED types /\ Push(0, Expression(p, PtrType, c)) /\ casts' = {}
                 /\ c = IF Impl(vars[v]) = NoLlvmType THEN "other" ELSE "plain"
    BY <1>6 DEF AddressOf
  <2> DEFINE e == Expression(p, PtrType, c)
  <2>2. FitsIn(types', e)
    <3>1. vars[v].refs \in Nat
      BY <1>6 DEF AddressOf, IInv, VarsOK, MayLeadInto, LeadsInto
    <3>2. p.refs # 0 /\ p.base = vars[v].base
      BY <3>1 DEF Pointer
    <3>3. PtrType # NoLlvmType
      BY LlvmTypes
    <3> HIDE DEF p
    <3>4. c = "plain" => LlvmTypeOf(types[vars[v].base]) # NoLlvmType
      BY <2>1 DEF Impl
    <3> QED
      BY <2>1, <3>2, <3>3, <3>4 DEF FitsIn, Expression, ImplIn
  <2>3. KeepsHeap(types', Len(types)) /\ types'[1] = types[1]
    BY <2>1, LongerHeap
  <2>4. Push(0, e)
    BY <2>1
  <2> HIDE DEF e
  <2> QED
    BY <1>1, <1>2, <2>1, <2>2, <2>3, <2>4, PushAgrees
<1> QED
  BY <1>3, <1>4, <1>5, <1>6

LEMMA ArithmeticAgrees ==
  ASSUME IInv, Agreement, Arithmetic PROVE Agreement' /\ WidthsStay
<1> DEFINE es == Top(2)
           t == TypeFromOperands(BaseOf(es[1]), BaseOf(es[2]))
<1>1. CASE Fail("refused")
  BY <1>1, FailAgrees
<1>2. CASE ~Fail("refused")
  <2>1. PICK class :
          /\ Operation("arithmetic", es, t, class)
          /\ class = IF Plain(es) /\ t.primitive # "Char" /\ LlvmTypeOf(t) # NoLlvmType
                     THEN "plain" ELSE "other"
    BY <1>2 DEF Arithmetic
  <2>2. 2 <= Len(operands) /\ Len(operands) >= 2
    BY DEF Arithmetic, IInv, OperandsOK
  <2>3. BaseOf(es[1]) \in Type /\ BaseOf(es[2]) \in Type /\ t \in Type /\ DOMAIN es = 1 .. 2
    BY <2>2, TopFits, TopOK, Combined
  <2>4. ASSUME \A l \in 1 .. 2 : IsScalar(es[l])
        PROVE  MadeWell(t, Data("arithmetic", Args(es, t)), class)
    <3>1. CASE class = "plain"
      <4>1. Plain(es) /\ t.primitive # "Char" /\ LlvmTypeOf(t) # NoLlvmType
        BY <2>1, <3>1
      <4> HIDE DEF t
      <4>2. /\ SameData(Args(es, t)) /\ Right(Args(es, t)).data = LlvmTypeOf(t)
            /\ Right(Args(es, t)).type.primitive = t.primitive
        BY <2>2, <2>3, <2>4, <4>1, PlainArguments
      <4>3. \/ t.primitive = "Int" /\ LlvmTypeOf(t).llvm = "int"
            \/ t.primitive = "Float" /\ LlvmTypeOf(t).llvm = "float"
        BY <2>3, <4>1, LlvmTypes, TypeCases DEF PrimitiveType
      <4> QED
        BY <3>1, <4>1, <4>2, <4>3 DEF MadeWell, Data, ArithmeticData, IsIntegral, IsFloatingPoint
    <3> QED
      BY <2>1, <3>1 DEF MadeWell
  <2>5. ASSUME NEW c \in CastsOf("arithmetic", es, t), c.to.primitive # "Char",
               NoLlvmType \notin {LlvmTypeOf(c.from), LlvmTypeOf(c.to)}
        PROVE  /\ LlvmTypeOf(c.from).bits <= LlvmTypeOf(c.to).bits
               /\ LlvmTypeOf(c.from).llvm = "float" /\ LlvmTypeOf(c.to).llvm = "int"
                    => c.from = PrimitiveKind("Float") /\ IsComposite(c.to)
    <3>1. c.to = t /\ c.from \in {BaseOf(es[1]), BaseOf(es[2])}
      BY <2>3 DEF CastsOf
    <3> QED
      BY <2>3, <2>5, <3>1, Widened
  <2> HIDE DEF t, es
  <2> QED
    BY <2>1, <2>2, <2>4, <2>5, OperationAgrees DEF es
<1> QED
  BY <1>1, <1>2

LEMMA RelationalAgrees ==
  ASSUME IInv, Agreement, Relational PROVE Agreement' /\ WidthsStay
<1> DEFINE es == Top(2)
           t == PrimitiveKind("Int")
<1>1. PICK class : Operation("relational", es, t, class)
                   /\ class = IF Plain(es) THEN "truth" ELSE "other"
  BY DEF Relational
<1>2. 2 <= Len(operands)
  BY DEF Relational, IInv, OperandsOK
<1>3. ASSUME \A l \in 1 .. 2 : IsScalar(es[l])
      PROVE  MadeWell(t, Data("relational", Args(es, t)), class)
  <2>1. CASE Plain(es)
    <3>1. /\ SameData(Args(es, t)) /\ Right(Args(es, t)).data = IntType(0)
          /\ Right(Args(es, t)).type.primitive = "Int"
      BY <1>2, <1>3, <2>1, PlainArguments, IntPrimitive
    <3>2. IntType(0).llvm = "int"
      BY LlvmTypes
    <3> QED
      BY <1>1, <2>1, <3>1, <3>2 DEF MadeWell, Data, RelationalData, IsIntegral
  <2> QED
    BY <1>1, <2>1 DEF MadeWell
<1> HIDE DEF t, es
<1> QED
  BY <1>1, <1>2, <1>3, OperationAgrees DEF es

\* The operators of bits: what is plain or made of comparisons stays so.
LEMMA BitsMadeWell ==
  ASSUME IInv, Agreement, NEW k \in {1, 2}, k <= Len(operands),
         \A l \in 1 .. k : IsScalar(Top(k)[l]),
         NEW t \in Type, NEW usable \in BOOLEAN,
         Plain(Top(k)) /\ usable => LlvmTypeOf(t).llvm = "int",
         Truth(Top(k)) => t = PrimitiveKind("Int")
  PROVE  MadeWell(t, BitwiseData(Args(Top(k), t)), ClassOf(Top(k), usable))
<1> DEFINE class == ClassOf(Top(k), usable)
<1>1. CASE Plain(Top(k)) /\ usable
  <2>1. class = "plain" /\ LlvmTypeOf(t) # NoLlvmType
    BY <1>1, LlvmTypes DEF ClassOf
  <2>2. SameData(Args(Top(k), t)) /\ Right(Args(Top(k), t)).data = LlvmTypeOf(t)
    BY <1>1, <2>1, PlainArguments
  <2> QED
    BY <1>1, <2>1, <2>2 DEF MadeWell, BitwiseData
<1>2. CASE ~(Plain(Top(k)) /\ usable) /\ Truth(Top(k))
  <2>1. class = "truth"
    BY <1>2 DEF ClassOf
  <2>2. t = PrimitiveKind("Int")
    BY <1>2
  <2>3. SameData(Args(Top(k), t)) /\ Right(Args(Top(k), t)).data = BoolType
    BY <1>2, <2>2, TruthArguments
  <2>4. BoolType.llvm = "int"
    BY LlvmTypes
  <2> QED
    BY <2>1, <2>2, <2>3, <2>4 DEF MadeWell, BitwiseData
<1>3. CASE ~(Plain(Top(k)) /\ usable) /\ ~Truth(Top(k))
  BY <1>3 DEF MadeWell, ClassOf
<1> QED
  BY <1>1, <1>2, <1>3

LEMMA BoolAgrees ==
  ASSUME IInv, Agreement, Bool PROVE Agreement' /\ WidthsStay
<1> DEFINE es == Top(2)
           t == TypeFromOperands(BaseOf(es[1]), BaseOf(es[2]))
           usable == LlvmTypeOf(t).llvm = "int"
<1>1. CASE Fail("refused")
  BY <1>1, FailAgrees
<1>2. CASE ~Fail("refused")
  <2>1. Operation("logical", es, t, ClassOf(es, usable))
    BY <1>2 DEF Bool
  <2>2. 2 <= Len(operands) /\ Len(operands) >= 2
    BY DEF Bool, IInv, OperandsOK
  <2>3. BaseOf(es[1]) \in Type /\ BaseOf(es[2]) \in Type /\ t \in Type
    BY <2>2, TopFits, Combined
  <2>4. Truth(es) => t = PrimitiveKind("Int")
    <3>1. Truth(es) => BaseOf(es[1]) = PrimitiveKind("Int") /\ BaseOf(es[2]) = PrimitiveKind("Int")
      BY <2>2, TruthArguments
    <3> QED
      BY <3>1, IntPrimitive DEF TypeFromOperands, MaxEnum
  <2>5. ASSUME \A l \in 1 .. 2 : IsScalar(es[l])
        PROVE  MadeWell(t, Data("logical", Args(es, t)), ClassOf(es, usable))
    <3>1. usable \in BOOLEAN
      OBVIOUS
    <3>2. MadeWell(t, BitwiseData(Args(es, t)), ClassOf(es, usable))
      <4> HIDE DEF t
      <4> QED
        BY <2>2, <2>3, <2>4, <2>5, <3>1, BitsMadeWell
    <3> QED
      BY <3>2 DEF Data, LogicalData
  <2> HIDE DEF t, es, usable
  <2> QED
    BY <2>1, <2>2, <2>5, OperationAgrees DEF es
<1> QED
  BY <1>1, <1>2

\* A scalar that is plain and no float is an integer for the generator.
LEMMA PlainIsInt ==
  ASSUME NEW e, FitsIn(types, e), e.class = "plain", IsScalar(e), BaseOf(e) \in Type,
         ~IsFloatingPoint(BaseOf(e))
  PROVE  /\ LlvmTypeOf(BaseOf(e)).llvm = "int"
         /\ IsComposite(BaseOf(e)) => BaseOf(e).primitive = "Int"
<1>1. LlvmTypeOf(BaseOf(e)) # NoLlvmType
  BY DEF FitsIn, IsScalar, ImplIn, BaseOf
<1>2. BaseOf(e).primitive \in {"Int", "Char"}
  BY TypeCases DEF IsFloatingPoint, PrimitiveType
<1>3. BaseOf(e).primitive = "Char" => ~IsComposite(BaseOf(e))
  BY <1>1, LlvmTypes
<1>4. LlvmTypeOf(BaseOf(e)).llvm = "int"
  <2>1. ASSUME BaseOf(e).primitive = "Char" PROVE LlvmTypeOf(BaseOf(e)) = IntType(0)
    BY <1>3, <2>1 DEF LlvmTypeOf, PrimitiveLlvmType
  <2> QED
    BY <1>2, <2>1, LlvmTypes
<1> QED
  BY <1>2, <1>3, <1>4

LEMMA BitAgrees ==
  ASSUME IInv, Agreement, NEW p \in PrimitiveType, Bit(p) PROVE Agreement' /\ WidthsStay
<1> DEFINE es == Top(2)
           l == BaseOf(es[1])
           r == BaseOf(es[2])
           composites == IsComposite(l) /\ IsComposite(r)
           t == IF composites THEN CompositeKind(MaxEnum(l.sign, r.sign), l.scale, p)
                ELSE PrimitiveKind("Int")
           class == IF composites THEN "other" ELSE ClassOf(es, TRUE)
<1>1. CASE Fail("refused")
  BY <1>1, FailAgrees
<1>2. CASE ~Fail("refused")
  <2>1. Operation("bitwise", es, t, class)
    BY <1>2 DEF Bit
  <2>2. 2 <= Len(operands) /\ Len(operands) >= 2
    BY DEF Bit, IInv, OperandsOK
  <2>3. ASSUME \A k \in 1 .. 2 : IsScalar(es[k])
        PROVE  MadeWell(t, Data("bitwise", Args(es, t)), class)
    <3>1. CASE composites
      BY <3>1 DEF MadeWell
    <3>2. CASE ~composites
      <4>1. t = PrimitiveKind("Int") /\ class = ClassOf(es, TRUE)
        BY <3>2
      <4>2. MadeWell(PrimitiveKind("Int"), BitwiseData(Args(es, PrimitiveKind("Int"))),
                     ClassOf(es, TRUE))
        <5>1. LlvmTypeOf(PrimitiveKind("Int")).llvm = "int" /\ TRUE \in BOOLEAN
          BY IntPrimitive, LlvmTypes
        <5> QED
          BY <2>2, <2>3, <5>1, IntPrimitive, BitsMadeWell
      <4> QED
        BY <4>1, <4>2 DEF Data
    <3> QED
      BY <3>1, <3>2
  <2> HIDE DEF t, es, class
  <2> QED
    BY <2>1, <2>2, <2>3, OperationAgrees DEF es
<1> QED
  BY <1>1, <1>2

LEMMA NotAgrees ==
  ASSUME IInv, Agreement, BoolNot \/ BitNot PROVE Agreement' /\ WidthsStay
<1> DEFINE e == Top(1)[1]
           u == BaseOf(e)
<1>1. 1 <= Len(operands) /\ Len(operands) >= 1
  BY DEF BoolNot, BitNot, IInv, OperandsOK
<1>2. FitsIn(types, e) /\ u \in Type /\ Top(1) = <<e>> /\ DOMAIN Top(1) = 1 .. 1
  BY <1>1, TopFits, TopOK
<1>3. /\ Plain(Top(1)) => e.class = "plain"
      /\ Truth(Top(1)) => e.class = "truth"
  BY <1>2 DEF Plain, Truth
<1>4. Truth(Top(1)) => u = PrimitiveKind("Int")
  BY <1>2, <1>3, CastTruth
<1>5. ASSUME NEW op \in {"logical", "bitwise"}, NEW t \in Type, ~IsFloatingPoint(u),
             Plain(Top(1)) /\ IsScalar(e) => LlvmTypeOf(t).llvm = "int",
             Truth(Top(1)) => t = PrimitiveKind("Int"),
             Operation(op, Top(1), t, ClassOf(Top(1), TRUE))
      PROVE  Agreement' /\ WidthsStay
  <2>1. ASSUME \A l \in 1 .. 1 : IsScalar(Top(1)[l])
        PROVE  MadeWell(t, Data(op, Args(Top(1), t)), ClassOf(Top(1), TRUE))
    <3>1. IsScalar(e) /\ TRUE \in BOOLEAN
      BY <2>1
    <3>2. MadeWell(t, BitwiseData(Args(Top(1), t)), ClassOf(Top(1), TRUE))
      <4> HIDE DEF u, e
      <4> QED
        BY <1>1, <1>5, <2>1, <3>1, BitsMadeWell
    <3> QED
      BY <3>2 DEF Data, LogicalData
  <2>2. op # "arithmetic"
    OBVIOUS
  <2> QED
    BY <1>1, <1>5, <2>1, <2>2, OperationAgrees
<1>6. ASSUME Plain(Top(1)), IsScalar(e), ~IsFloatingPoint(u)
      PROVE  LlvmTypeOf(u).llvm = "int" /\ (IsComposite(u) => u.primitive = "Int")
  BY <1>2, <1>3, <1>6, PlainIsInt
<1>7. CASE BoolNot
  <2>1. CASE Fail("refused")
    BY <2>1, FailAgrees
  <2>2. CASE ~Fail("refused")
    <3>1. Operation("logical", Top(1), u, ClassOf(Top(1), TRUE)) /\ ~IsFloatingPoint(u)
      BY <1>2, <1>7, <2>2 DEF BoolNot
    <3> HIDE DEF u, e
    <3> QED
      BY <1>2, <1>4, <1>5, <1>6, <3>1
  <2> QED
    BY <2>1, <2>2
<1>8. CASE BitNot
  <2> DEFINE t == IF IsComposite(u) THEN CompositeKind(u.sign, u.scale, "Int")
                  ELSE PrimitiveKind("Int")
  <2>1. CASE Fail("refused") \/ Fail("crashed")
    BY <2>1, FailAgrees
  <2>2. CASE ~(Fail("refused") \/ Fail("crashed"))
    <3>1. Operation("bitwise", Top(1), t, ClassOf(Top(1), TRUE)) /\ ~IsFloatingPoint(u)
      BY <1>2, <1>8, <2>2 DEF BitNot
    <3>2. t \in Type /\ t.primitive = "Int"
      <4>1. CompositeKind(u.sign, u.scale, "Int").primitive = "Int"
        BY DEF CompositeKind
      <4> QED
        BY <1>2, <4>1, TypeCases, MadeTypes, IntPrimitive DEF PrimitiveType
    <3>3. LlvmTypeOf(t).llvm = "int"
      BY <3>2, LlvmTypes
    <3>4. Truth(Top(1)) => t = PrimitiveKind("Int")
      BY <1>4, IntPrimitive
    <3> HIDE DEF t, u, e
    <3> QED
      BY <1>5, <3>1, <3>2, <3>3, <3>4
  <2> QED
    BY <2>1, <2>2
<1> QED
  BY <1>7, <1>8

\* The heap under a negation, which writes a sign.
LEMMA NegateKeeps ==
  ASSUME IInv, Negate, ~(Fail("refused") \/ Fail("crashed"))
  PROVE  KeepsHeap(types', Len(types)) /\ types'[1] = types[1]
<1> DEFINE e == Top(1)[1]
           t == BaseOf(e)
<1>1. /\ e.result.base # 1
      /\ \/ types' = types
         \/ types' = [types EXCEPT ![e.result.base].sign = "Signed"] /\ IsComposite(t)
  BY DEF Negate, ShortShortUnsignedInt
<1>2. Len(operands) >= 1
  BY DEF Negate
<1>3. t \in Type /\ LeadsInto(e.result, Len(types))
  BY <1>2, TopOK, BaseIsType
<1>4. CASE types' = types
  BY <1>4, LongerHeap
<1>5. CASE types' = [types EXCEPT ![e.result.base].sign = "Signed"] /\ IsComposite(t)
  <2>1. [t EXCEPT !.sign = "Signed"] = CompositeKind("Signed", t.scale, t.primitive)
    BY <1>3, <1>5, TypeCases DEF CompositeKind
  <2>2. types[e.result.base] = t
    BY DEF BaseOf
  <2>3. types' = [types EXCEPT ![e.result.base] = CompositeKind("Signed", t.scale, t.primitive)]
    BY <1>5, <2>1, <2>2
  <2> HIDE DEF t, e
  <2>4. types \in Seq(Type)
    BY DEF IInv, Heap
  <2> QED
    BY <1>1, <1>3, <1>5, <2>2, <2>3, <2>4 DEF KeepsHeap, KeepsType, LeadsInto
<1> QED
  BY <1>1, <1>4, <1>5

\* A negation writes a sign, which no other pointer to the type can tell.
LEMMA NegateAgrees ==
  ASSUME IInv, Agreement, Negate PROVE Agreement' /\ WidthsStay
<1> DEFINE e == Top(1)[1]
           t == BaseOf(e)
           d == ArithmeticData(<<[type |-> t, data |-> e.data]>>)
<1>1. CASE Fail("refused") \/ Fail("crashed")
  BY <1>1, FailAgrees
<1>2. CASE ~(Fail("refused") \/ Fail("crashed"))
  <2>1. PICK class :
          /\ Push(1, Expression(e.result, d, class)) /\ casts' = {}
          /\ class = IF e.class = "plain" /\ t.primitive # "Char" THEN "plain" ELSE "other"
          /\ IsScalar(e) /\ e.result.base # 1
          /\ \/ types' = types
             \/ types' = [types EXCEPT ![e.result.base].sign = "Signed"] /\ IsComposite(t)
    BY <1>2 DEF Negate, ShortShortUnsignedInt
  <2>2. 1 \in Nat /\ 1 <= Len(operands) /\ Len(operands) >= 1
    BY DEF Negate, IInv, OperandsOK
  <2>3. FitsIn(types, e) /\ t \in Type /\ LeadsInto(e.result, Len(types))
    BY <2>2, TopFits
  <2>4. KeepsHeap(types', Len(types)) /\ types'[1] = types[1]
    BY <1>2, NegateKeeps
  <2>5. FitsIn(types', Expression(e.result, d, class))
    <3>1. CASE class = "plain"
      <4>1. e.class = "plain" /\ t.primitive \in {"Int", "Float"}
        BY <2>1, <2>3, <3>1, TypeCases DEF PrimitiveType
      <4>2. e.data = LlvmTypeOf(t) /\ e.data # NoLlvmType
        BY <2>1, <2>3, <4>1 DEF FitsIn, ImplIn, IsScalar, BaseOf
      <4>3. \/ t.primitive = "Int" /\ e.data.llvm = "int"
            \/ t.primitive = "Float" /\ e.data.llvm = "float"
        <5> HIDE DEF t, e
        <5> QED
          BY <2>3, <4>1, <4>2, LlvmTypes
      <4>4. d = e.data
        BY <4>3 DEF ArithmeticData, SameData, Right, IsIntegral, IsFloatingPoint
      <4>5. FitsIn(types', e)
        <5>1. Len(types) \in 0 .. Len(types)
          BY DEF IInv, Heap
        <5> QED
          BY <2>3, <2>4, <5>1, KeptFits
      <4> HIDE DEF d, e
      <4> QED
        BY <3>1, <4>1, <4>4, <4>5 DEF FitsIn, Expression
    <3>2. CASE class = "other"
      BY <3>2 DEF FitsIn, Expression
    <3> QED
      BY <2>1, <3>1, <3>2
  <2>6. ArithmeticWidens'
    BY <2>1 DEF ArithmeticWidens
  <2>7. Push(1, Expression(e.result, d, class))
    BY <2>1
  <2> DEFINE n == Expression(e.result, d, class)
  <2> HIDE DEF d, t, e, n
  <2> QED
    BY <2>2, <2>4, <2>5, <2>6, <2>7, PushAgrees DEF n
<1> QED
  BY <1>1, <1>2

LEMMA DerefAgrees ==
  ASSUME IInv, Agreement, Deref PROVE Agreement' /\ WidthsStay
<1> DEFINE es == Top(2)
           e == es[2]
           p == Pointer(e.result.refs - 1, e.result.base)
           d == IF e.data = PtrType THEN Impl(p) ELSE NoLlvmType
           class == ClassOf(<<es[1], e>>, TRUE)
<1>1. CASE Fail("refused")
  BY <1>1, FailAgrees
<1>2. CASE ~Fail("refused")
  <2>1. Push(2, Expression(p, d, class)) /\ UNCHANGED types /\ casts' = {} /\ ~IsScalar(e)
    BY <1>2 DEF Deref
  <2>2. 2 \in Nat /\ 2 <= Len(operands) /\ Len(operands) >= 2
    BY DEF Deref, IInv, OperandsOK
  <2>3. FitsIn(types, e)
    BY <2>2, TopFits
  <2>4. KeepsHeap(types', Len(types)) /\ types'[1] = types[1]
    BY <2>1, LongerHeap
  <2>5. class = "plain" => e.class = "plain"
    BY DEF ClassOf, Plain
  <2>6. class \in {"plain", "other"}
    <3>1. e.class # "truth"
      BY <2>1, <2>3 DEF FitsIn, IsScalar
    <3> QED
      BY <3>1 DEF ClassOf, Truth
  <2>7. FitsIn(types', Expression(p, d, class))
    <3>1. CASE class = "plain"
      <4>1. e.data = PtrType /\ LlvmTypeOf(types[e.result.base]) # NoLlvmType
        BY <2>1, <2>3, <2>5, <3>1 DEF FitsIn, ImplIn, IsScalar
      <4>2. d = Impl(p)
        BY <4>1
      <4>3. p.base = e.result.base
        BY DEF Pointer
      <4>4. PtrType # NoLlvmType
        BY LlvmTypes
      <4>5. Impl(p) # NoLlvmType
        <5> HIDE DEF p, e
        <5> QED
          BY <4>1, <4>3, <4>4 DEF Impl
      <4>6. Impl(p) = ImplIn(types, p)
        BY DEF Impl, ImplIn
      <4> HIDE DEF p, e, d, class
      <4> QED
        BY <2>1, <3>1, <4>2, <4>5, <4>6 DEF FitsIn, Expression
    <3> HIDE DEF p, e, d, class
    <3> QED
      BY <2>6, <3>1 DEF FitsIn, Expression
  <2>8. ArithmeticWidens'
    BY <2>1 DEF ArithmeticWidens
  <2> DEFINE n == Expression(p, d, class)
  <2>9. Push(2, n)
    BY <2>1
  <2>10. FitsIn(types', n)
    BY <2>7
  <2> HIDE DEF p, d, class, n, e, es
  <2> QED
    BY <2>2, <2>4, <2>8, <2>9, <2>10, PushAgrees
<1> QED
  BY <1>1, <1>2

\* Casts.  A value that could be made has an LLVM type that can be cast.
LEMMA CastsAgree ==
  ASSUME IInv, Agreement, NEW node \in Nodes, TypeCast(node) \/ CreateTransmute(node)
  PROVE  Agreement' /\ WidthsStay
<1> DEFINE e == Top(1)[1]
           p == TypeImpl(types, node)
           to == ImplIn(HeapWith(types, node), p)
<1>1. CASE Fail("refused")
  BY <1>1, FailAgrees
<1>2. CASE ~Fail("refused")
  <2>1. /\ types' = HeapWith(types, node) /\ casts' = {}
        /\ \E d, c :
             /\ Push(1, Expression(p, d, c))
             /\ c \in {"plain", "other"}
             /\ c = "plain" =>
                  /\ e.class # "other" /\ to # NoLlvmType
                  /\ \/ d = to
                     \/ d = CastData(e.data, to) /\ {e.data.llvm, to.llvm} # {"ptr", "float"}
    <3>1. CASE TypeCast(node)
      <4>1. /\ types' = HeapWith(types, node) /\ casts' = {}
            /\ Push(1, Expression(p, CastData(e.data, to),
                         IF e.class # "other" /\ to # NoLlvmType
                            /\ {e.data.llvm, to.llvm} # {"ptr", "float"}
                         THEN "plain" ELSE "other"))
        BY <1>2, <3>1 DEF TypeCast
      <4> HIDE DEF e, p, to
      <4> QED
        BY <4>1
    <3>2. CASE CreateTransmute(node)
      <4> DEFINE fit == e.data.bits = to.bits /\ (e.data = PtrType <=> to = PtrType)
      <4>1. /\ types' = HeapWith(types, node) /\ casts' = {}
            /\ Push(1, Expression(p, IF fit THEN to ELSE NoLlvmType,
                         IF e.class = "plain" /\ to # NoLlvmType /\ fit THEN "plain" ELSE "other"))
        BY <1>2, <3>2 DEF CreateTransmute
      <4> HIDE DEF e, p, to, fit
      <4> QED
        BY <4>1
    <3> QED
      BY <3>1, <3>2
  <2>2. PICK d, c :
             /\ Push(1, Expression(p, d, c))
             /\ c \in {"plain", "other"}
             /\ c = "plain" =>
                  /\ e.class # "other" /\ to # NoLlvmType
                  /\ \/ d = to
                     \/ d = CastData(e.data, to) /\ {e.data.llvm, to.llvm} # {"ptr", "float"}
    BY <2>1
  <2>3. 1 \in Nat /\ 1 <= Len(operands) /\ Len(operands) >= 1
    BY DEF TypeCast, CreateTransmute, IInv, OperandsOK
  <2>4. FitsIn(types, e)
    BY <2>3, TopFits
  <2>5. KeepsHeap(types', Len(types)) /\ types'[1] = types[1] /\ to = ImplIn(types', p)
    BY <2>1, LongerHeap
  <2>6. ASSUME c = "plain" PROVE d = to
    <3>1. e.data # NoLlvmType
      BY <2>2, <2>4, <2>6, LlvmTypes DEF FitsIn
    <3> HIDE DEF e, p, to
    <3> QED
      BY <2>2, <2>6, <3>1 DEF CastData
  <2> DEFINE n == Expression(p, d, c)
  <2>8. FitsIn(types', n)
    <3>1. n.class = c /\ n.data = d /\ n.result = p
      BY DEF Expression
    <3> HIDE DEF e, p, to, n
    <3> QED
      BY <2>2, <2>5, <2>6, <3>1 DEF FitsIn
  <2>9. ArithmeticWidens' /\ Push(1, n)
    BY <2>1, <2>2 DEF ArithmeticWidens
  <2> HIDE DEF e, p, to, n
  <2> QED
    BY <2>3, <2>5, <2>8, <2>9, PushAgrees
<1> QED
  BY <1>1, <1>2

-----------------------------------------------------------------------------
(* Declarations and statements.                                            *)

\* A written type is not made of Char.
LEMMA TypeImplWritten ==
  ASSUME NEW h \in Seq(Type), NEW node \in Nodes \cup TypedefNodes, IsType(node),
         \A n \in TypeName : WrittenIn(h, typedefs[n])
  PROVE  HeapWith(h, node)[TypeImpl(h, node).base].primitive # "Char"
<1>1. CASE IsDeclared(node)
  BY <1>1 DEF IsDeclared, WrittenIn, HeapWith, TypeImpl, Pointer
<1>2. CASE ~IsDeclared(node)
  <2>1. NewType(node) \in Type
    BY <1>2, NodesAssumption, NewTypeIsType DEF IsType
  <2>2. NewType(node).primitive # "Char"
    <3>1. PrimitiveNamed["int"] = "Int" /\ PrimitiveNamed["float"] = "Float"
          /\ DOMAIN PrimitiveNamed = {"int", "float"}
      BY DEF PrimitiveNamed
    <3>2. NewType(node) # Refused
      BY <1>2 DEF IsType
    <3> QED
      BY <3>1, <3>2 DEF NewType, PrimitiveKind, CompositeKind
  <2>3. HeapWith(h, node)[TypeImpl(h, node).base] = NewType(node)
    BY <1>2, <2>1 DEF HeapWith, TypeImpl, Pointer
  <2> QED
    BY <2>2, <2>3
<1> QED
  BY <1>1, <1>2

LEMMA DeclarationsAgree ==
  ASSUME IInv, Agreement,
         \/ \E n \in TypeName, node \in TypedefNodes : TypeDef(n, node)
         \/ \E vs \in SUBSET Var \ {{}}, node \in Nodes : Decl(vs, node)
  PROVE  Agreement' /\ WidthsStay
<1>1. /\ types \in Seq(Type) /\ Len(types) \in 1 .. Len(types) /\ Len(types) \in 0 .. Len(types)
      /\ \A n \in TypeName : MayLeadInto(typedefs[n], Len(types)) /\ WrittenIn(types, typedefs[n])
      /\ \A v \in Var : MayLeadInto(vars[v], Len(types))
      /\ \A s \in stores : LeadsInto(s.to, Len(types))
  BY DEF IInv, Heap, TypedefsOK, VarsOK, StoresOK, Agreement, Written
<1>2. ASSUME NEW node \in Nodes \cup TypedefNodes, IsType(node), types' = HeapWith(types, node),
             UNCHANGED <<operands, stores>>
      PROVE  /\ FirstType' /\ Fitting'
             /\ \A n \in TypeName : WrittenIn(types', typedefs[n])
             /\ \A v \in Var : WrittenIn(types', vars[v])
             /\ (\A v \in Var : vars[v] # NoPointer => vars'[v] = vars[v]) => WidthsStay
             /\ types'[TypeImpl(types, node).base].primitive # "Char"
  <2>1. KeepsHeap(types', Len(types)) /\ types'[1] = types[1]
    BY <1>2, LongerHeap
  <2>2. Fitting'
    BY <1>1, <1>2, <2>1, KeptFits DEF Agreement, Fitting, IInv, OperandsOK
  <2>3. types'[TypeImpl(types, node).base].primitive # "Char"
    BY <1>1, <1>2, TypeImplWritten
  <2>4. /\ FirstType' /\ \A n \in TypeName : WrittenIn(types', typedefs[n])
        /\ \A v \in Var : WrittenIn(types', vars[v])
        /\ (\A v \in Var : vars[v] # NoPointer => vars'[v] = vars[v]) => WidthsStay
    BY <1>1, <2>1, KeptParts
  <2> QED
    BY <1>2, <2>2, <2>3, <2>4
<1>3. CASE Fail("refused")
  BY <1>3, FailAgrees
<1>4. ASSUME NEW n \in TypeName, NEW node \in TypedefNodes, TypeDef(n, node), ~Fail("refused")
      PROVE  Agreement' /\ WidthsStay
  <2>1. /\ IsType(node) /\ types' = HeapWith(types, node)
        /\ typedefs' = [typedefs EXCEPT ![n] = TypeImpl(types, node)]
        /\ UNCHANGED <<vars, operands, stores, casts>>
    BY <1>4 DEF TypeDef
  <2>2. Written'
    BY <1>2, <2>1 DEF Written, WrittenIn, IInv, TypedefsOK
  <2>3. ArithmeticWidens'
    BY <2>1 DEF Agreement, ArithmeticWidens
  <2> QED
    BY <1>2, <2>1, <2>2, <2>3 DEF Agreement
<1>5. ASSUME NEW vs \in SUBSET Var, NEW node \in Nodes, Decl(vs, node), ~Fail("refused")
      PROVE  Agreement' /\ WidthsStay
  <2>1. /\ IsType(node) /\ types' = HeapWith(types, node)
        /\ vars' = [v \in Var |-> IF v \in vs THEN TypeImpl(types, node) ELSE vars[v]]
        /\ \A v \in vs : vars[v] = NoPointer
        /\ UNCHANGED <<typedefs, operands, stores>> /\ casts' = {}
    BY <1>5 DEF Decl
  <2>2. Written'
    BY <1>2, <2>1 DEF Written, WrittenIn
  <2>3. ArithmeticWidens'
    BY <2>1 DEF ArithmeticWidens
  <2> QED
    BY <1>2, <2>1, <2>2, <2>3 DEF Agreement
<1> QED
  BY <1>3, <1>4, <1>5

\* Where types compare equal, the value of one is the value of the other.
LEMMA ComparedImpl ==
  ASSUME NEW h \in Seq(Type), NEW g \in Seq(Type), NEW p, NEW q,
         LeadsInto(p, Len(h)), LeadsInto(q, Len(g)),
         p.refs = q.refs, CompareBase(h[p.base], g[q.base]), h[p.base].primitive # "Char"
  PROVE  ImplIn(h, p) = ImplIn(g, q)
BY ComparedTypes DEF LeadsInto, ImplIn

\* What the end of a statement leaves on the heap h.
LEMMA KeptWritten ==
  ASSUME IInv, Agreement PROVE \A n \in TypeName : WrittenIn(Kept, typedefs[n])
<1>1. /\ \A b \in 1 .. Len(Kept) : Kept[b] = types[b]
      /\ \A n \in TypeName : MayLeadInto(typedefs[n], Len(Kept))
  BY KeptOK
<1> QED
  BY <1>1 DEF Agreement, Written, WrittenIn, MayLeadInto, LeadsInto

LEMMA StatementKeeps ==
  ASSUME IInv, Agreement, types' = Kept \/ \E node : types' = HeapWith(Kept, node)
  PROVE  /\ FirstType'
         /\ \A n \in TypeName : WrittenIn(types', typedefs[n])
         /\ \A v \in Var : WrittenIn(types', vars[v])
         /\ (\A v \in Var : vars[v] # NoPointer => vars'[v] = vars[v]) => WidthsStay
          /\ \A n \in TypeName : WrittenIn(Kept, typedefs[n])
<1>1. /\ Kept \in Seq(Type) /\ Len(Kept) \in 1 .. Len(types)
      /\ \A b \in 1 .. Len(Kept) : Kept[b] = types[b]
      /\ \A n \in TypeName : MayLeadInto(typedefs[n], Len(Kept))
      /\ \A v \in Var : MayLeadInto(vars[v], Len(Kept))
      /\ \A s \in stores : LeadsInto(s.to, Len(Kept))
  BY KeptOK
<1>2. Len(types) \in Nat /\ 1 \in 1 .. Len(Kept)
  BY <1>1 DEF IInv, Heap
<1>3. \A b \in 1 .. Len(Kept) : types'[b] = Kept[b]
  <2>1. ASSUME NEW t, NEW b \in 1 .. Len(Kept) PROVE Append(Kept, t)[b] = Kept[b]
    <3>1. Kept \in Seq(Type \cup {t})
      BY <1>1
    <3> QED
      BY <1>1, <3>1
  <2> QED
    BY <2>1 DEF HeapWith
<1>4. KeepsHeap(types', Len(Kept)) /\ types'[1] = types[1]
  BY <1>1, <1>2, <1>3 DEF KeepsHeap, KeepsType
<1>5. \A n \in TypeName : WrittenIn(Kept, typedefs[n])
  BY KeptWritten
<1> QED
  BY <1>1, <1>4, <1>5, KeptParts

LEMMA AssignToAgrees ==
  ASSUME IInv, Agreement, NEW v \in Var, vars[v] # NoPointer,
         NEW p, p.refs \in Nat, p.base = vars[v].base,
         NEW k \in 1 .. Len(operands), AssignTo(p, operands[k])
  PROVE  Agreement' /\ WidthsStay
<1>1. CASE Fail("refused")
  BY <1>1, FailAgrees
<1>2. CASE ~Fail("refused")
  <2>1. /\ operands' = <<>> /\ types' = Kept /\ UNCHANGED <<typedefs, vars>> /\ casts' = {}
    BY <1>2 DEF AssignTo
  <2>5. FirstType' /\ Written' /\ WidthsStay
    BY <2>1, StatementKeeps DEF Written
  <2>6. Fitting' /\ ArithmeticWidens'
    <3>1. Len(operands') = 0
      BY <2>1
    <3> QED
      BY <2>1, <3>1 DEF Fitting, ArithmeticWidens
  <2> QED
    BY <2>5, <2>6 DEF Agreement
<1> QED
  BY <1>1, <1>2

LEMMA AssignAgrees ==
  ASSUME IInv, Agreement, NEW v \in Var, Assign(v) \/ AssignElement(v)
  PROVE  Agreement' /\ WidthsStay
<1>1. vars[v].refs \in Nat /\ vars[v] # NoPointer
  BY DEF Assign, AssignElement, IInv, VarsOK, MayLeadInto, LeadsInto
<1>2. CASE Assign(v)
  <2>1. 1 \in 1 .. Len(operands) /\ AssignTo(vars[v], operands[1])
    BY <1>2 DEF Assign
  <2> QED
    BY <1>1, <2>1, AssignToAgrees
<1>3. CASE AssignElement(v)
  <2> DEFINE p == Pointer(vars[v].refs - 1, vars[v].base)
  <2>1. CASE Fail("refused")
    BY <2>1, FailAgrees
  <2>2. CASE ~Fail("refused")
    <3>1. 2 \in 1 .. Len(operands) /\ AssignTo(p, operands[2]) /\ vars[v].refs # 0
      BY <1>3, <2>2 DEF AssignElement
    <3>2. p.refs \in Nat /\ p.base = vars[v].base
      BY <1>1, <3>1 DEF Pointer
    <3> HIDE DEF p
    <3> QED
      BY <1>1, <3>1, <3>2, AssignToAgrees
  <2> QED
    BY <2>1, <2>2
<1> QED
  BY <1>2, <1>3

\* An initializer is cast to the type of its variable unless they compare
\* equal.
LEMMA DefAgrees ==
  ASSUME IInv, Agreement, NEW v \in Var, NEW node \in Nodes, Def(v, node)
  PROVE  Agreement' /\ WidthsStay
<1> DEFINE e == operands[1]
           h == HeapWith(Kept, node)
           p == TypeImpl(Kept, node)
<1>1. CASE Fail("refused")
  BY <1>1, FailAgrees
<1>2. CASE ~Fail("refused")
  <2>1. /\ IsType(node) /\ types' = h /\ vars' = [vars EXCEPT ![v] = p] /\ vars[v] = NoPointer
        /\ operands' = <<>> /\ Len(operands) = 1
        /\ UNCHANGED typedefs /\ casts' = {}
    BY <1>2 DEF Def
  <2>2. LeadsInto(e.result, Len(types)) /\ FitsIn(types, e) /\ types \in Seq(Type)
    BY <2>1 DEF IInv, Heap, OperandsOK, Agreement, Fitting
  <2>3. /\ FirstType'
        /\ \A n \in TypeName : WrittenIn(types', typedefs[n])
        /\ \A w \in Var : WrittenIn(types', vars[w])
        /\ (\A w \in Var : vars[w] # NoPointer => vars'[w] = vars[w]) => WidthsStay
        /\ \A n \in TypeName : WrittenIn(Kept, typedefs[n])
    BY <2>1, StatementKeeps
  <2>4. h \in Seq(Type) /\ LeadsInto(p, Len(h)) /\ h[p.base].primitive # "Char"
    BY <2>1, <2>3, KeptOK, TypeImplOK, TypeImplWritten
  <2> HIDE DEF h, p
  <2>6. Written' /\ WidthsStay
    <3>2. vars' = [vars EXCEPT ![v] = p] /\ vars = [w \in Var |-> vars[w]]
      BY <2>1 DEF IInv, VarsOK
    <3>3. \A w \in Var : vars'[w] = IF w = v THEN p ELSE vars[w]
      BY <3>2
    <3>4. WidthsStay
      BY <2>1, <2>3, <3>3
    <3>5. Written'
      BY <2>1, <2>3, <2>4, <3>3 DEF Written, WrittenIn
    <3> QED
      BY <3>4, <3>5
  <2>7. Fitting' /\ ArithmeticWidens'
    <3>1. Len(operands') = 0
      BY <2>1
    <3> QED
      BY <2>1, <3>1 DEF Fitting, ArithmeticWidens
  <2> QED
    BY <2>3, <2>6, <2>7 DEF Agreement
<1> QED
  BY <1>1, <1>2

-----------------------------------------------------------------------------
(* The third invariant: a value, of whatever class, has the LLVM type of   *)
(* its type, or none; only comparisons are bits of type int.               *)

\* The LLVM type of a pointer, or of an object, even if it points to a type
\* that has none.
ShapeIn(h, p) == IF p.refs = 0 THEN LlvmTypeOf(h[p.base]) ELSE PtrType
ValueIn(h, p, d) ==
  d # NoLlvmType => \/ d = ShapeIn(h, p)
                    \/ d = BoolType /\ p.refs = 0 /\ h[p.base] = PrimitiveKind("Int")
StoredIn(h, s) ==
  s.data # NoLlvmType => \/ s.data = ShapeIn(h, s.to)
                         \/ s.data = BoolType /\ ImplIn(h, s.to) = IntType(0)

Valued     == \A k \in 1 .. Len(operands) : ValueIn(types, operands[k].result, operands[k].data)
StoredWell == \A s \in stores : StoredIn(types, s)

LEMMA Shapes ==
  ASSUME NEW h, NEW p
  PROVE  ImplIn(h, p) # NoLlvmType => ImplIn(h, p) = ShapeIn(h, p)
BY DEF ImplIn, ShapeIn

LEMMA KeptValues ==
  ASSUME IInv, NEW n \in 0 .. Len(types), NEW g, KeepsHeap(g, n), NEW p, LeadsInto(p, n)
  PROVE  /\ \A d : ValueIn(types, p, d) => ValueIn(g, p, d)
         /\ \A d : StoredIn(types, Store(p, d)) => StoredIn(g, Store(p, d))
<1>1. types[p.base] \in Type /\ KeepsType(types[p.base], g[p.base])
  BY DEF IInv, Heap, LeadsInto, KeepsHeap
<1>2. ShapeIn(types, p) # NoLlvmType => ShapeIn(g, p) = ShapeIn(types, p)
  BY <1>1, KeptType DEF ShapeIn
<1>3. types[p.base] = PrimitiveKind("Int") => g[p.base] = PrimitiveKind("Int")
  BY KeptHeap
<1>4. ImplIn(types, p) = IntType(0) => ImplIn(g, p) = IntType(0)
  BY KeptHeap, IntPrimitive
<1>5. \A d : ValueIn(types, p, d) => ValueIn(g, p, d)
  BY <1>2, <1>3 DEF ValueIn
<1>6. \A d : StoredIn(types, Store(p, d)) => StoredIn(g, Store(p, d))
  <2>1. \A d : Store(p, d).to = p /\ Store(p, d).data = d
    BY DEF Store
  <2> QED
    BY <1>2, <1>4, <2>1 DEF StoredIn
<1> QED
  BY <1>5, <1>6

\* What was stored stays as it is while the heap under it is kept.
LEMMA KeptStores ==
  ASSUME IInv, StoredWell, NEW n \in 0 .. Len(types), NEW g, KeepsHeap(g, n),
         \A s \in stores : LeadsInto(s.to, n)
  PROVE  \A s \in stores : StoredIn(g, s)
<1> TAKE s \in stores
<1>1. StoredIn(types, s) /\ LeadsInto(s.to, n)
  BY DEF StoredWell
<1>2. Store(s.to, s.data).to = s.to /\ Store(s.to, s.data).data = s.data
  BY DEF Store
<1>3. StoredIn(types, Store(s.to, s.data))
  BY <1>1, <1>2 DEF StoredIn
<1>4. StoredIn(g, Store(s.to, s.data))
  BY <1>1, <1>3, KeptValues
<1> QED
  BY <1>2, <1>4 DEF StoredIn

\* An operator that leaves a value of its type on a heap that is kept.
LEMMA PushValued ==
  ASSUME IInv, Valued, StoredWell, KeepsHeap(types', Len(types)),
         NEW k \in Nat, k <= Len(operands), NEW e, Push(k, e),
         ValueIn(types', e.result, e.data)
  PROVE  Valued' /\ StoredWell'
<1>1. Len(types) \in 0 .. Len(types) /\ stores' = stores
  BY DEF IInv, Heap, Push, heapUsers
<1>2. StoredWell'
  BY <1>1, KeptStores DEF IInv, StoresOK, StoredWell
<1>3. \A l \in 1 .. Len(operands) : ValueIn(types', operands[l].result, operands[l].data)
  BY <1>1, KeptValues DEF Valued, IInv, OperandsOK
<1>4. Valued'
  BY <1>3, PushKeeps DEF Valued
<1> QED
  BY <1>2, <1>4

\* A step that leaves no operands, or those that there were.
LEMMA TopValued ==
  ASSUME IInv, Valued, NEW k \in {1, 2}, Len(operands) >= k
  PROVE  \A l \in 1 .. k : /\ ValueIn(types, Top(k)[l].result, Top(k)[l].data)
                           /\ LeadsInto(Top(k)[l].result, Len(types))
                           /\ BaseOf(Top(k)[l]) \in Type
<1>1. PICK S : operands \in Seq(S)
  BY DEF IInv, OperandsOK
<1> TAKE l \in 1 .. k
<1>2. Top(k)[l] = operands[Len(operands) - k + l] /\ Len(operands) - k + l \in 1 .. Len(operands)
  <2>1. Len(operands) - k + 1 \in 1 .. Len(operands) + 1 /\ Len(operands) \in Nat
    BY <1>1
  <2>2. Len(operands) - (Len(operands) - k + 1) + 1 = k
    BY <2>1
  <2> QED
    BY <1>1, <2>1, <2>2 DEF Top
<1>3. /\ ValueIn(types, Top(k)[l].result, Top(k)[l].data)
      /\ LeadsInto(Top(k)[l].result, Len(types))
  BY <1>2 DEF Valued, IInv, OperandsOK
<1> QED
  BY <1>3, BaseIsType

LEMMA FailValued ==
  ASSUME NEW p, Fail(p) PROVE Valued' /\ StoredWell'
<1>1. Len(operands') = 0 /\ stores' = {}
  BY DEF Fail
<1> QED
  BY <1>1 DEF Valued, StoredWell

\* Where a value is cast to.
LEMMA CastValue ==
  \A d, to : CastData(d, to) # NoLlvmType => CastData(d, to) = to
BY DEF CastData

LEMMA CastValued ==
  ASSUME IInv, NEW e, IsScalar(e), BaseOf(e) \in Type,
         ValueIn(types, e.result, e.data), NEW t \in Type
  PROVE  CastTo(e, t).data # NoLlvmType =>
           \/ CastTo(e, t).data = LlvmTypeOf(t)
           \/ CastTo(e, t).data = BoolType /\ t = PrimitiveKind("Int")
<1> DEFINE d == CastTo(e, t).data
<1>1. CASE NeedsCast(e, t)
  <2>1. d = CastData(e.data, LlvmTypeOf(t))
    BY <1>1 DEF CastTo
  <2>2. d # NoLlvmType => d = LlvmTypeOf(t)
    BY <2>1, CastValue
  <2> HIDE DEF d
  <2>3. d # NoLlvmType => d = LlvmTypeOf(t) \/ (d = BoolType /\ t = PrimitiveKind("Int"))
    BY <2>2
  <2> QED
    BY <2>3 DEF d
<1>2. CASE ~NeedsCast(e, t)
  <2>1. d = e.data /\ CompareBase(BaseOf(e), t)
    BY <1>2 DEF CastTo, NeedsCast
  <2>2. e.data # NoLlvmType => \/ e.data = LlvmTypeOf(BaseOf(e))
                               \/ e.data = BoolType /\ BaseOf(e) = PrimitiveKind("Int")
    BY DEF ValueIn, ShapeIn, IsScalar, BaseOf
  <2>3. LlvmTypeOf(BaseOf(e)) # NoLlvmType => LlvmTypeOf(BaseOf(e)) = LlvmTypeOf(t)
    BY <2>1, ComparedTypes
  <2>4. BaseOf(e) = PrimitiveKind("Int") => t = PrimitiveKind("Int")
    <3>1. BaseOf(e) = PrimitiveKind("Int") => ~IsComposite(t) /\ t.primitive = "Int"
      BY <2>1, IntPrimitive DEF CompareBase
    <3> QED
      BY <3>1, TypeCases
  <2> HIDE DEF d
  <2>5. d # NoLlvmType => d = LlvmTypeOf(t) \/ (d = BoolType /\ t = PrimitiveKind("Int"))
    BY <2>1, <2>2, <2>3, <2>4
  <2> QED
    BY <2>5 DEF d
<1> QED
  BY <1>1, <1>2

\* What an operator makes is the value of its right argument, nothing, or the
\* bit of a comparison.
LEMMA OperationData ==
  ASSUME NEW op \in {"arithmetic", "relational", "logical", "bitwise"}, NEW args
  PROVE  \/ Data(op, args) \in {NoLlvmType, Right(args).data}
         \/ op = "relational" /\ Data(op, args) = BoolType
BY DEF Data, ArithmeticData, RelationalData, LogicalData, BitwiseData

LEMMA OperationValued ==
  ASSUME IInv, Valued, StoredWell, NEW op \in {"arithmetic", "relational", "logical", "bitwise"},
         NEW k \in {1, 2}, k <= Len(operands), NEW t \in Type, NEW class,
         op = "relational" => t = PrimitiveKind("Int"),
         Operation(op, Top(k), t, class)
  PROVE  Valued' /\ StoredWell'
<1>1. DOMAIN Top(k) = 1 .. k /\ Len(Top(k)) = k /\ Len(operands) >= k /\ k \in 1 .. k /\ k \in Nat
  <2>1. Len(operands) >= k
    BY DEF IInv, OperandsOK
  <2>2. DOMAIN Top(k) = 1 .. k /\ Len(Top(k)) = k
    BY <2>1, TopOK
  <2> QED
    BY <2>1, <2>2
<1>2. CASE \E l \in DOMAIN Top(k) : ~IsScalar(Top(k)[l])
  BY <1>2, FailValued DEF Operation
<1>3. CASE ~ \E l \in DOMAIN Top(k) : ~IsScalar(Top(k)[l])
  <2> DEFINE d == Data(op, Args(Top(k), t))
             e == Expression(Fresh, d, class)
  <2>1. Allocate(t) /\ Push(k, e)
    BY <1>1, <1>3 DEF Operation, Args
  <2>2. KeepsHeap(types', Len(types)) /\ types'[Fresh.base] = t
    BY <2>1, LongerHeap
  <2>3. Right(Args(Top(k), t)) = CastTo(Top(k)[k], t)
    BY <1>1 DEF Args, Right
  <2>4. d # NoLlvmType => d = LlvmTypeOf(t) \/ (d = BoolType /\ t = PrimitiveKind("Int"))
    <3>1. /\ IsScalar(Top(k)[k]) /\ BaseOf(Top(k)[k]) \in Type
          /\ ValueIn(types, Top(k)[k].result, Top(k)[k].data)
      BY <1>1, <1>3, TopValued
    <3> DEFINE c == CastTo(Top(k)[k], t).data
    <3>2. c # NoLlvmType => c = LlvmTypeOf(t) \/ (c = BoolType /\ t = PrimitiveKind("Int"))
      BY <3>1, CastValued
    <3>3. d \in {NoLlvmType, c} \/ (op = "relational" /\ d = BoolType)
      <4> DEFINE args == Args(Top(k), t)
      <4> HIDE DEF args
      <4>1. \/ Data(op, args) \in {NoLlvmType, Right(args).data}
            \/ op = "relational" /\ Data(op, args) = BoolType
        BY OperationData
      <4> QED
        BY <2>3, <4>1 DEF args
    <3> HIDE DEF c, d
    <3> QED
      BY <3>2, <3>3
  <2>5. ValueIn(types', e.result, e.data)
    <3>1. e.result = Fresh /\ e.data = d /\ Fresh.refs = 0
      BY DEF Expression, Fresh, Pointer
    <3> HIDE DEF e, d
    <3> QED
      BY <2>2, <2>4, <3>1 DEF ValueIn, ShapeIn
  <2> HIDE DEF e
  <2> QED
    BY <1>1, <2>1, <2>2, <2>5, PushValued
<1> QED
  BY <1>2, <1>3

LEMMA BinaryValued ==
  ASSUME IInv, Valued, StoredWell
  PROVE  /\ Arithmetic \/ Relational \/ Bool => Valued' /\ StoredWell'
         /\ \A p \in PrimitiveType : Bit(p) => Valued' /\ StoredWell'
<1>1. ASSUME Len(operands) >= 2
      PROVE  BaseOf(Top(2)[1]) \in Type /\ BaseOf(Top(2)[2]) \in Type
  BY <1>1, TopOK, BaseIsType
<1>2. ASSUME NEW op \in {"arithmetic", "relational", "logical", "bitwise"},
             NEW t \in Type, NEW class, Len(operands) >= 2,
             op = "relational" => t = PrimitiveKind("Int"),
             Operation(op, Top(2), t, class)
      PROVE  Valued' /\ StoredWell'
  <2>1. 2 <= Len(operands)
    BY <1>2 DEF IInv, OperandsOK
  <2> QED
    BY <1>2, <2>1, OperationValued
<1>3. ASSUME Len(operands) >= 2
      PROVE  TypeFromOperands(BaseOf(Top(2)[1]), BaseOf(Top(2)[2])) \in Type
  BY <1>1, <1>3, Combined
<1>4. PrimitiveKind("Int") \in Type
  BY MadeTypes DEF PrimitiveType
<1>5. ASSUME Arithmetic \/ Bool PROVE Valued' /\ StoredWell'
  <2> DEFINE t == TypeFromOperands(BaseOf(Top(2)[1]), BaseOf(Top(2)[2]))
  <2>1. Len(operands) >= 2
        /\ (Fail("refused") \/ \E c : \E op \in {"arithmetic", "logical"} : Operation(op, Top(2), t, c))
    BY <1>5 DEF Arithmetic, Bool
  <2> HIDE DEF t
  <2> QED
    BY <1>2, <1>3, <2>1, FailValued DEF t
<1>6. ASSUME Relational PROVE Valued' /\ StoredWell'
  <2>1. Len(operands) >= 2
        /\ \E c : Operation("relational", Top(2), PrimitiveKind("Int"), c)
    BY <1>6 DEF Relational
  <2> QED
    BY <1>2, <1>4, <2>1
<1>7. ASSUME NEW p \in PrimitiveType, Bit(p) PROVE Valued' /\ StoredWell'
  <2> DEFINE l == BaseOf(Top(2)[1])
             r == BaseOf(Top(2)[2])
             t == IF IsComposite(l) /\ IsComposite(r)
                  THEN CompositeKind(MaxEnum(l.sign, r.sign), l.scale, p)
                  ELSE PrimitiveKind("Int")
  <2>1. Len(operands) >= 2
        /\ (Fail("refused") \/ \E c : Operation("bitwise", Top(2), t, c))
    BY <1>7 DEF Bit
  <2>2. \A x, y \in Sign : MaxEnum(x, y) \in Sign
    BY DEF MaxEnum
  <2>3. t \in Type
    BY <1>1, <1>4, <2>1, <2>2, TypeCases, MadeTypes
  <2> HIDE DEF t
  <2> QED
    BY <1>2, <2>1, <2>3, FailValued
<1> QED
  BY <1>5, <1>6, <1>7

LEMMA UnaryValued ==
  ASSUME IInv, Valued, StoredWell, BoolNot \/ BitNot
  PROVE  Valued' /\ StoredWell'
<1> DEFINE e == Top(1)[1]
<1>1. Len(operands) >= 1 /\ 1 <= Len(operands)
  BY DEF BoolNot, BitNot, IInv, OperandsOK
<1>2. BaseOf(e) \in Type /\ Top(1) = <<e>>
  BY <1>1, TopOK, BaseIsType
<1>3. ASSUME NEW op \in {"logical", "bitwise"}, NEW t \in Type, NEW c, Operation(op, <<e>>, t, c)
      PROVE  Valued' /\ StoredWell'
  <2>1. Operation(op, Top(1), t, c)
    BY <1>2, <1>3
  <2> HIDE DEF e
  <2> QED
    BY <1>1, <2>1, OperationValued
<1>4. CASE BoolNot
  <2>1. Fail("refused") \/ \E c : Operation("logical", <<e>>, BaseOf(e), c)
    BY <1>4 DEF BoolNot
  <2> QED
    BY <1>2, <1>3, <2>1, FailValued
<1>5. CASE BitNot
  <2> DEFINE t == IF IsComposite(BaseOf(e))
                  THEN CompositeKind(BaseOf(e).sign, BaseOf(e).scale, "Int")
                  ELSE PrimitiveKind("Int")
  <2>1. \/ \E p \in {"refused", "crashed"} : Fail(p)
        \/ \E c : Operation("bitwise", <<e>>, t, c)
    BY <1>5 DEF BitNot
  <2>2. t \in Type
    BY <1>2, TypeCases, MadeTypes DEF PrimitiveType
  <2> HIDE DEF t
  <2> QED
    BY <1>3, <2>1, <2>2, FailValued
<1> QED
  BY <1>4, <1>5

LEMMA LeavesValued ==
  ASSUME IInv, Valued, StoredWell
  PROVE  /\ \A p \in PrimitiveType : Constant(p) => Valued' /\ StoredWell'
         /\ StringConstant => Valued' /\ StoredWell'
         /\ \A v \in Var : Variable(v) \/ AddressOf(v) => Valued' /\ StoredWell'
<1>1. 0 \in Nat /\ 0 <= Len(operands)
  BY DEF IInv, OperandsOK
<1>2. ASSUME NEW p, NEW d, NEW c, UNCHANGED types, Push(0, Expression(p, d, c)),
             ValueIn(types, p, d)
      PROVE  Valued' /\ StoredWell'
  <2> DEFINE e == Expression(p, d, c)
  <2>1. e.result = p /\ e.data = d
    BY DEF Expression
  <2>2. KeepsHeap(types', Len(types)) /\ Push(0, e)
    BY <1>2, LongerHeap
  <2> HIDE DEF e
  <2>3. ValueIn(types', e.result, e.data)
    BY <1>2, <2>1
  <2> QED
    BY <1>1, <2>2, <2>3, PushValued
<1>3. ASSUME NEW p \in PrimitiveType, Constant(p) PROVE Valued' /\ StoredWell'
  <2> DEFINE e == Expression(Fresh, ConstantData(p), "plain")
  <2>1. Allocate(PrimitiveKind(p)) /\ Push(0, e)
    BY <1>3 DEF Constant
  <2>2. KeepsHeap(types', Len(types)) /\ types'[Fresh.base] = PrimitiveKind(p)
    BY <2>1, LongerHeap
  <2>3. ValueIn(types', e.result, e.data)
    BY <2>2 DEF ValueIn, ShapeIn, Expression, Fresh, Pointer, ConstantData
  <2> HIDE DEF e
  <2> QED
    BY <1>1, <2>1, <2>2, <2>3, PushValued
<1>4. ASSUME StringConstant PROVE Valued' /\ StoredWell'
  <2>1. UNCHANGED types /\ Push(0, Expression(StringLiteralType, StringData, "plain"))
    BY <1>4 DEF StringConstant
  <2>2. ValueIn(types, StringLiteralType, StringData)
    BY DEF ValueIn, ShapeIn, StringLiteralType, StringData, Pointer
  <2> QED
    BY <1>2, <2>1, <2>2
<1>5. ASSUME NEW v \in Var, Variable(v) PROVE Valued' /\ StoredWell'
  <2>1. UNCHANGED types /\ \E c : Push(0, Expression(vars[v], LoadData(v), c))
    BY <1>5 DEF Variable
  <2>2. LoadData(v) = ImplIn(types, vars[v])
    BY DEF LoadData, Impl, ImplIn
  <2>3. ValueIn(types, vars[v], LoadData(v))
    BY <2>2, Shapes DEF ValueIn
  <2> QED
    BY <1>2, <2>1, <2>3
<1>6. ASSUME NEW v \in Var, AddressOf(v) PROVE Valued' /\ StoredWell'
  <2> DEFINE p == Pointer(vars[v].refs + 1, vars[v].base)
  <2>1. UNCHANGED types /\ \E c : Push(0, Expression(p, PtrType, c))
    BY <1>6 DEF AddressOf
  <2>2. p.refs # 0
    BY <1>6 DEF AddressOf, IInv, VarsOK, MayLeadInto, LeadsInto, Pointer
  <2> HIDE DEF p
  <2>3. ValueIn(types, p, PtrType)
    BY <2>2 DEF ValueIn, ShapeIn
  <2> QED
    BY <1>2, <2>1, <2>3
<1> QED
  BY <1>3, <1>4, <1>5, <1>6

LEMMA NegateValued ==
  ASSUME IInv, Agreement, Valued, StoredWell, Negate PROVE Valued' /\ StoredWell'
<1> DEFINE e == Top(1)[1]
           t == BaseOf(e)
           d == ArithmeticData(<<[type |-> t, data |-> e.data]>>)
<1>1. CASE Fail("refused") \/ Fail("crashed")
  BY <1>1, FailValued
<1>2. CASE ~(Fail("refused") \/ Fail("crashed"))
  <2>1. PICK class : Push(1, Expression(e.result, d, class))
    BY <1>2 DEF Negate
  <2>2. 1 \in Nat /\ 1 <= Len(operands) /\ Len(operands) >= 1
    BY DEF Negate, IInv, OperandsOK
  <2>3. /\ ValueIn(types, e.result, e.data) /\ t \in Type /\ LeadsInto(e.result, Len(types))
    BY <2>2, TopValued
  <2>4. KeepsHeap(types', Len(types)) /\ Len(types) \in 0 .. Len(types)
    BY <1>2, NegateKeeps DEF IInv, Heap
  <2>5. ValueIn(types', e.result, e.data)
    <3> HIDE DEF e, t
    <3> QED
      BY <2>3, <2>4, KeptValues
  <2>6. d = NoLlvmType \/ d = e.data
    BY DEF ArithmeticData, Right
  <2> DEFINE n == Expression(e.result, d, class)
  <2>7. n.result = e.result /\ n.data = d
    BY DEF Expression
  <2> HIDE DEF d, e, n
  <2>8. ValueIn(types', n.result, n.data)
    BY <2>5, <2>6, <2>7 DEF ValueIn
  <2> QED
    BY <2>1, <2>2, <2>4, <2>8, PushValued DEF n
<1> QED
  BY <1>1, <1>2

LEMMA DerefValued ==
  ASSUME IInv, Valued, StoredWell, Deref PROVE Valued' /\ StoredWell'
<1> DEFINE e == Top(2)[2]
           p == Pointer(e.result.refs - 1, e.result.base)
           d == IF e.data = PtrType THEN Impl(p) ELSE NoLlvmType
<1>1. CASE Fail("refused")
  BY <1>1, FailValued
<1>2. CASE ~Fail("refused")
  <2>1. UNCHANGED types /\ \E c : Push(2, Expression(p, d, c))
    BY <1>2 DEF Deref
  <2>2. 2 \in Nat /\ 2 <= Len(operands)
    BY DEF Deref, IInv, OperandsOK
  <2>3. PICK c : Push(2, Expression(p, d, c))
    BY <2>1
  <2>4. KeepsHeap(types', Len(types))
    BY <2>1, LongerHeap
  <2> DEFINE n == Expression(p, d, c)
  <2>5. n.result = p /\ n.data = d
    BY DEF Expression
  <2>6. d = NoLlvmType \/ d = ImplIn(types, p)
    BY DEF Impl, ImplIn
  <2> HIDE DEF p, d, n
  <2>7. ValueIn(types', n.result, n.data)
    BY <2>1, <2>5, <2>6, Shapes DEF ValueIn
  <2> QED
    BY <2>2, <2>3, <2>4, <2>7, PushValued DEF n
<1> QED
  BY <1>1, <1>2

LEMMA CastsValued ==
  ASSUME IInv, Valued, StoredWell, NEW node \in Nodes, TypeCast(node) \/ CreateTransmute(node)
  PROVE  Valued' /\ StoredWell'
<1> DEFINE e == Top(1)[1]
           p == TypeImpl(types, node)
           to == ImplIn(HeapWith(types, node), p)
<1>1. CASE Fail("refused")
  BY <1>1, FailValued
<1>2. CASE ~Fail("refused")
  <2>1. /\ types' = HeapWith(types, node) /\ 1 \in Nat /\ 1 <= Len(operands)
        /\ \E c : \E d \in {CastData(e.data, to), to, NoLlvmType} : Push(1, Expression(p, d, c))
    BY <1>2 DEF TypeCast, CreateTransmute, IInv, OperandsOK
  <2>2. PICK d, c : /\ d \in {CastData(e.data, to), to, NoLlvmType}
                    /\ Push(1, Expression(p, d, c))
    BY <2>1
  <2>3. KeepsHeap(types', Len(types)) /\ to = ImplIn(types', p)
    BY <2>1, LongerHeap
  <2>4. d # NoLlvmType => d = to
    <3> HIDE DEF to, e
    <3> QED
      BY <2>2, CastValue
  <2> DEFINE n == Expression(p, d, c)
  <2>5. n.result = p /\ n.data = d
    BY DEF Expression
  <2> HIDE DEF p, to, n, e
  <2>6. ValueIn(types', n.result, n.data)
    BY <2>3, <2>4, <2>5, Shapes DEF ValueIn
  <2> QED
    BY <2>1, <2>2, <2>3, <2>6, PushValued DEF n
<1> QED
  BY <1>1, <1>2

\* The end of a statement without a store, or with one that fits.
LEMMA DeclarationsValued ==
  ASSUME IInv, Valued, StoredWell,
         \/ \E n \in TypeName, node \in TypedefNodes : TypeDef(n, node)
         \/ \E vs \in SUBSET Var \ {{}}, node \in Nodes : Decl(vs, node)
  PROVE  Valued' /\ StoredWell'
<1>1. CASE Fail("refused")
  BY <1>1, FailValued
<1>2. CASE ~Fail("refused")
  <2>1. UNCHANGED <<operands, stores>> /\ \E node : types' = HeapWith(types, node)
    BY <1>2 DEF TypeDef, Decl
  <2>2. KeepsHeap(types', Len(types)) /\ Len(types) \in 0 .. Len(types)
    BY <2>1, LongerHeap DEF IInv, Heap
  <2>3. \A k \in 1 .. Len(operands) : ValueIn(types', operands[k].result, operands[k].data)
    BY <2>2, KeptValues DEF Valued, IInv, OperandsOK
  <2>4. \A s \in stores : StoredIn(types', s)
    BY <2>2, KeptStores DEF IInv, StoresOK
  <2> QED
    BY <2>1, <2>3, <2>4 DEF Valued, StoredWell
<1> QED
  BY <1>1, <1>2

\* What is kept at the end of a statement keeps its type.
LEMMA StatementStores ==
  ASSUME IInv, StoredWell, types' = Kept \/ \E node : types' = HeapWith(Kept, node)
  PROVE  \A s \in stores : StoredIn(types', s)
<1>1. /\ Kept \in Seq(Type) /\ Len(Kept) \in 1 .. Len(types)
      /\ \A b \in 1 .. Len(Kept) : Kept[b] = types[b]
      /\ \A s \in stores : LeadsInto(s.to, Len(Kept))
  BY KeptOK
<1>2. \A b \in 1 .. Len(Kept) : types'[b] = Kept[b]
  <2>1. ASSUME NEW t, NEW b \in 1 .. Len(Kept) PROVE Append(Kept, t)[b] = Kept[b]
    <3>1. Kept \in Seq(Type \cup {t})
      BY <1>1
    <3> QED
      BY <1>1, <3>1
  <2> QED
    BY <2>1 DEF HeapWith
<1>3. KeepsHeap(types', Len(Kept)) /\ Len(Kept) \in 0 .. Len(types)
  BY <1>1, <1>2 DEF KeepsHeap, KeepsType, IInv, Heap
<1> QED
  BY <1>1, <1>3, KeptStores

\* A value whose type compares equal to that of the place fits there, or it
\* is a comparison and the place has the type int.
LEMMA ComparedValue ==
  ASSUME NEW h \in Seq(Type), NEW g \in Seq(Type), NEW p, NEW q, NEW d,
         LeadsInto(p, Len(h)), LeadsInto(q, Len(g)), p.refs = q.refs,
         CompareBase(h[p.base], g[q.base]), h[p.base].primitive # "Char",
         ValueIn(g, q, d)
  PROVE  StoredIn(h, Store(p, d))
<1>1. h[p.base] \in Type /\ g[q.base] \in Type
  BY DEF LeadsInto
<1>2. LlvmTypeOf(h[p.base]) = LlvmTypeOf(g[q.base])
  BY <1>1, ComparedTypes
<1>3. ShapeIn(h, p) = ShapeIn(g, q)
  BY <1>2 DEF ShapeIn
<1>4. p.refs = 0 /\ g[q.base] = PrimitiveKind("Int") => ImplIn(h, p) = IntType(0)
  BY <1>2, IntPrimitive DEF ImplIn
<1>5. Store(p, d).to = p /\ Store(p, d).data = d
  BY DEF Store
<1> QED
  BY <1>3, <1>4, <1>5 DEF ValueIn, StoredIn

LEMMA AssignToValued ==
  ASSUME IInv, Agreement, Valued, StoredWell, NEW v \in Var, vars[v] # NoPointer,
         NEW p, p.refs \in Nat, p.base = vars[v].base,
         NEW k \in 1 .. Len(operands), AssignTo(p, operands[k])
  PROVE  Valued' /\ StoredWell'
<1> DEFINE e == operands[k]
<1>1. CASE Fail("refused")
  BY <1>1, FailValued
<1>2. CASE ~Fail("refused")
  <2>1. /\ CompareTypes(p, e.result) /\ stores' = stores \cup {Store(p, e.data)}
        /\ operands' = <<>> /\ types' = Kept
    BY <1>2 DEF AssignTo
  <2>2. LeadsInto(e.result, Len(types)) /\ ValueIn(types, e.result, e.data)
    BY DEF IInv, OperandsOK, Valued
  <2>3. LeadsInto(p, Len(Kept)) /\ Kept[p.base] = types[p.base] /\ Kept \in Seq(Type)
        /\ types[p.base].primitive # "Char"
    <3>1. LeadsInto(vars[v], Len(Kept))
      BY KeptOK DEF MayLeadInto
    <3>2. types[vars[v].base].primitive # "Char"
      BY DEF Agreement, Written, WrittenIn
    <3> QED
      BY <3>1, <3>2, KeptOK DEF LeadsInto
  <2>4. p.refs = e.result.refs /\ CompareBase(Kept[p.base], types[e.result.base])
        /\ types \in Seq(Type)
    BY <2>1, <2>3 DEF CompareTypes, IInv, Heap
  <2> HIDE DEF e
  <2>5. StoredIn(types', Store(p, e.data))
    BY <2>1, <2>2, <2>3, <2>4, ComparedValue
  <2>6. StoredWell'
    BY <2>1, <2>5, StatementStores DEF StoredWell
  <2>7. Len(operands') = 0
    BY <2>1
  <2> QED
    BY <2>6, <2>7 DEF Valued
<1> QED
  BY <1>1, <1>2

LEMMA AssignValued ==
  ASSUME IInv, Agreement, Valued, StoredWell, NEW v \in Var, Assign(v) \/ AssignElement(v)
  PROVE  Valued' /\ StoredWell'
<1>1. vars[v].refs \in Nat /\ vars[v] # NoPointer
  BY DEF Assign, AssignElement, IInv, VarsOK, MayLeadInto, LeadsInto
<1>2. CASE Assign(v)
  <2>1. 1 \in 1 .. Len(operands) /\ AssignTo(vars[v], operands[1])
    BY <1>2 DEF Assign
  <2> QED
    BY <1>1, <2>1, AssignToValued
<1>3. CASE AssignElement(v)
  <2> DEFINE p == Pointer(vars[v].refs - 1, vars[v].base)
  <2>1. CASE Fail("refused")
    BY <2>1, FailValued
  <2>2. CASE ~Fail("refused")
    <3>1. 2 \in 1 .. Len(operands) /\ AssignTo(p, operands[2]) /\ vars[v].refs # 0
      BY <1>3, <2>2 DEF AssignElement
    <3>2. p.refs \in Nat /\ p.base = vars[v].base
      BY <1>1, <3>1 DEF Pointer
    <3> HIDE DEF p
    <3> QED
      BY <1>1, <3>1, <3>2, AssignToValued
  <2> QED
    BY <2>1, <2>2
<1> QED
  BY <1>2, <1>3

LEMMA DefValued ==
  ASSUME IInv, Agreement, Valued, StoredWell, NEW v \in Var, NEW node \in Nodes, Def(v, node)
  PROVE  Valued' /\ StoredWell'
<1> DEFINE e == operands[1]
           h == HeapWith(Kept, node)
           p == TypeImpl(Kept, node)
           to == ImplIn(h, p)
           fit == p.refs = e.result.refs /\ CompareBase(h[p.base], BaseOf(e))
           d == IF fit THEN e.data ELSE CastData(e.data, to)
<1>1. CASE Fail("refused")
  BY <1>1, FailValued
<1>2. CASE ~Fail("refused")
  <2>1. /\ IsType(node) /\ types' = h /\ operands' = <<>> /\ Len(operands) = 1
        /\ stores' = stores \cup {Store(p, d)}
    BY <1>2 DEF Def
  <2>2. LeadsInto(e.result, Len(types)) /\ ValueIn(types, e.result, e.data) /\ types \in Seq(Type)
    BY <2>1 DEF IInv, Heap, OperandsOK, Valued
  <2>3. /\ \A n \in TypeName : WrittenIn(Kept, typedefs[n])
        /\ \A s \in stores : StoredIn(types', s)
    <3>1. types' = HeapWith(Kept, node)
      BY <2>1
    <3>2. types' = Kept \/ \E n : types' = HeapWith(Kept, n)
      BY <3>1
    <3>3. \A n \in TypeName : WrittenIn(Kept, typedefs[n])
      BY KeptWritten
    <3>4. \A s \in stores : StoredIn(types', s)
      BY ONLY IInv, StoredWell, <3>2, StatementStores
    <3> QED
      BY <3>3, <3>4
  <2>4. h \in Seq(Type) /\ LeadsInto(p, Len(h)) /\ h[p.base].primitive # "Char"
    BY <2>1, <2>3, KeptOK, TypeImplOK, TypeImplWritten
  <2>5. to = ImplIn(h, p) /\ BaseOf(e) = types[e.result.base]
    BY DEF BaseOf
  <2>6. fit => p.refs = e.result.refs /\ CompareBase(h[p.base], BaseOf(e))
    OBVIOUS
  <2>7. d = IF fit THEN e.data ELSE CastData(e.data, to)
    OBVIOUS
  <2> HIDE DEF h, p, to, fit, d, e
  <2>8. StoredIn(h, Store(p, d))
    <3>1. CASE fit
      BY <2>2, <2>4, <2>5, <2>6, <2>7, <3>1, ComparedValue
    <3>2. CASE ~fit
      <4>1. d # NoLlvmType => d = to
        BY <2>7, <3>2, CastValue
      <4>2. Store(p, d).to = p /\ Store(p, d).data = d
        BY DEF Store
      <4> QED
        BY <2>5, <4>1, <4>2, Shapes DEF StoredIn
    <3> QED
      BY <3>1, <3>2
  <2>9. StoredWell'
    BY <2>1, <2>3, <2>8 DEF StoredWell
  <2>10. Len(operands') = 0
    BY <2>1
  <2> QED
    BY <2>9, <2>10 DEF Valued
<1> QED
  BY <1>1, <1>2

-----------------------------------------------------------------------------
(* The theorems.                                                           *)

\* Every step keeps the invariant.
LEMMA Invariance == Spec => []IInv
<1>1. IInv /\ [Next]_vars_ => IInv'
  <2> SUFFICES ASSUME IInv, [Next]_vars_ PROVE IInv'
    OBVIOUS
  <2>1. CASE UNCHANGED vars_
    BY <2>1 DEF vars_, IInv, Heap, TypedefsOK, VarsOK, OperandsOK, StoresOK
  <2>2. CASE Next
    BY <2>2, DeclareStep, LeafStep, BinaryStep, NegateStep, UnaryStep, CastStep, DefStep,
       AssignStep DEF Next
  <2> QED
    BY <2>1, <2>2
<1> QED
  BY <1>1, InitIInv, PTL DEF Spec

\* Every pointer of a program leads to a type that is still there, whatever
\* the ends of statements have dropped.
THEOREM TypeCorrect == Spec => []TypeOK
<1>1. IInv => TypeOK
  BY DEF IInv, Heap, TypedefsOK, VarsOK, OperandsOK, StoresOK, TypeOK, PointerOK,
         MayLeadInto, LeadsInto
<1> QED
  BY <1>1, Invariance, PTL

\* No program makes a type whose scale is outside of the limits: the test in
\* set_impl_composite_type is enough, although createTypeFromOperands, the
\* bit operations and the sign of a negation make types without it.
THEOREM ScalesAreWithin == Spec => []ScalesWithinLimits
<1>1. IInv => ScalesWithinLimits
  BY TypeCases DEF IInv, Heap, ScalesWithinLimits
<1> QED
  BY <1>1, Invariance, PTL

\* Every step keeps both invariants, and the widths.
LEMMA NextAgrees == IInv /\ Agreement /\ [Next]_vars_ => Agreement' /\ WidthsStay
<1> SUFFICES ASSUME IInv, Agreement, [Next]_vars_ PROVE Agreement' /\ WidthsStay
  OBVIOUS
<1>1. CASE UNCHANGED vars_
  <2>1. UNCHANGED <<types, typedefs, vars, operands, stores, casts>>
    BY <1>1 DEF vars_
  <2>2. Agreement'
    BY <2>1 DEF Agreement, FirstType, Written, Fitting, ArithmeticWidens
  <2>3. WidthsStay
    BY <2>1 DEF WidthsStay, Impl
  <2> QED
    BY <2>2, <2>3
<1>2. CASE Next
  BY <1>2, DeclarationsAgree, Leaves, ArithmeticAgrees, NegateAgrees, RelationalAgrees,
     BoolAgrees, NotAgrees, BitAgrees, DerefAgrees, CastsAgree, DefAgrees, AssignAgrees
     DEF Next
<1> QED
  BY <1>1, <1>2

LEMMA AgreementHolds == Spec => []Agreement
<1>1. IInv /\ Agreement /\ [Next]_vars_ => Agreement'
  BY NextAgrees
<1> QED
  BY <1>1, InitAgreement, Invariance, PTL DEF Spec

\* For every program: the value that the generator makes for an expression
\* has the LLVM type of the type that the analysis gave it, whatever was
\* negated, cast or combined, and whoever shares its type.
THEOREM ValuesHaveTheirTypes == Spec => []DataHasItsType
<1>1. IInv /\ Agreement => DataHasItsType
  <2> SUFFICES ASSUME IInv, Agreement, NEW k \in 1 .. Len(operands)
               PROVE  /\ operands[k].class = "plain" => operands[k].data = Impl(operands[k].result)
                      /\ operands[k].class = "truth" => /\ operands[k].data = BoolType
                                                       /\ Impl(operands[k].result) = IntType(0)
    BY DEF DataHasItsType
  <2>1. FitsIn(types, operands[k])
    BY DEF Agreement, Fitting
  <2> QED
    BY <2>1, IntPrimitive DEF FitsIn, ImplIn, Impl
<1> QED
  BY <1>1, Invariance, AgreementHolds, PTL


\* Every step keeps the values, of whatever class.
LEMMA ValuesHold == Spec => [](Valued /\ StoredWell)
<1>1. Init => Valued /\ StoredWell
  <2> SUFFICES ASSUME Init PROVE Valued /\ StoredWell
    OBVIOUS
  <2>1. Len(operands) = 0 /\ stores = {}
    BY DEF Init
  <2> QED
    BY <2>1 DEF Valued, StoredWell
<1>2. IInv /\ Agreement /\ (Valued /\ StoredWell) /\ [Next]_vars_ => (Valued /\ StoredWell)'
  <2> SUFFICES ASSUME IInv, Agreement, Valued, StoredWell, [Next]_vars_
               PROVE  Valued' /\ StoredWell'
    OBVIOUS
  <2>1. CASE UNCHANGED vars_
    BY <2>1 DEF vars_, Valued, StoredWell
  <2>2. CASE Next
    BY <2>2, DeclarationsValued, LeavesValued, BinaryValued, UnaryValued, NegateValued,
       DerefValued, CastsValued, DefValued, AssignValued DEF Next
  <2> QED
    BY <2>1, <2>2
<1> QED
  BY <1>1, <1>2, Invariance, AgreementHolds, PTL DEF Spec

\* For every program, and every value that the analysis lets through: what is
\* stored has the LLVM type of its place, also after later negations, or it
\* is the bit of a comparison that was stored uncast in a place of type int.
\* Nothing else that compareTypes calls equal differs in LLVM.
THEOREM StoredValuesFit == Spec => []StoresFit
<1>1. StoredWell => StoresFit
  <2> SUFFICES ASSUME StoredWell, NEW s \in stores, NoLlvmType \notin {s.data, Impl(s.to)}
               PROVE  s.data = Impl(s.to) \/ (s.data = BoolType /\ Impl(s.to) = IntType(0))
    BY DEF StoresFit
  <2>1. StoredIn(types, s) /\ Impl(s.to) = ImplIn(types, s.to)
    BY DEF StoredWell, Impl, ImplIn
  <2>2. ImplIn(types, s.to) # NoLlvmType => ImplIn(types, s.to) = ShapeIn(types, s.to)
    BY Shapes
  <2> QED
    BY <2>1, <2>2 DEF StoredIn
<1> QED
  BY <1>1, ValuesHold, PTL

\* For all types of operands: createTypeFromOperands leads to a type that is
\* as wide as each of them, and takes a float for an integer only where a
\* plain float meets a composite.
THEOREM OperandsAreWidened == Spec => []ArithmeticWidens
<1>1. Agreement => ArithmeticWidens
  BY DEF Agreement
<1> QED
  BY <1>1, AgreementHolds, PTL

\* No step changes how a variable is stored: the sign that a negation writes
\* into the type the variable shares is not part of its LLVM type.
THEOREM WidthsAreKept == Spec => VariablesKeepTheirWidth
<1>1. IInv /\ Agreement /\ [Next]_vars_
      => [\A v \in Var :
            /\ NoPointer \notin {vars[v], vars'[v]}
            /\ Impl(vars[v]) # NoLlvmType
            => Impl(vars[v])' = Impl(vars[v])]_vars_
  BY NextAgrees DEF WidthsStay
<1> QED
  BY <1>1, Invariance, AgreementHolds, PTL DEF Spec, VariablesKeepTheirWidth
=============================================================================
