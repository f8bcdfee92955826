----------------------------- MODULE Expressions -----------------------------
(***************************************************************************)
(* Semantic analysis of expressions, src/src/set/set.c, and the            *)
(* instructions that src/src/llvm/llvm-ir/expr.c makes of them.            *)
(*                                                                         *)
(* createExpression works from the leaves of a tree to its root.  Its      *)
(* steps are those of a stack machine here: operands are the expressions   *)
(* that wait for their operator.  An expression has the type that the      *)
(* analysis gives it, a pointer to a Type object that other expressions    *)
(* and variables may share, and the LLVM type of the value that is         *)
(* generated.  Casts do not depend on the sign of a type in their LLVM     *)
(* type, so the latter is known at once although code comes later.         *)
(***************************************************************************)
EXTENDS Types

CONSTANTS
  Var,            \* names of variables
  TypedefNodes,   \* written types of type definitions
  Nodes,          \* written types in declarations and casts
  MaxNodes,       \* bound: expressions in a program
  ProgramScales   \* bound: scales of a typedef that a program goes on with

ASSUME NodesAssumption ==
  \A node \in Nodes \cup TypedefNodes : node.refs \in Nat /\ node.factors \in Seq(Factor)

VARIABLES
  types,     \* the heap of Type objects that are no references
  typedefs,  \* declaredComposites
  vars,      \* the types of the declared variables
  operands,  \* the stack of expressions
  nodes,     \* expressions so far
  stores,    \* what is stored where in the code
  casts,     \* the casts that the last operator inserted
  phase

vars_ == <<types, typedefs, vars, operands, nodes, stores, casts, phase>>
heapUsers == <<typedefs, vars, stores>>

Pointer(r, b) == [refs |-> r, base |-> b]
NoPointer     == Pointer(0, 0)

\* The static type of the bytes of a string literal, which is constant.
ShortShortUnsignedInt == 1
StringLiteralType     == Pointer(1, ShortShortUnsignedInt)

\* compareTypes and get_type_impl on pointers.
CompareTypes(p, q) == p.refs = q.refs /\ CompareBase(types[p.base], types[q.base])
Impl(p) ==
  LET base == LlvmTypeOf(types[p.base]) IN
  IF p.refs = 0 \/ base = NoLlvmType THEN base ELSE PtrType

\* Expressions: type, LLVM type of the value, and what they are made of.
\* "plain": of parts that the analysis and the generator treat alike.
\* "truth": made of comparisons, whose value is a bit and whose type is int.
Expression(p, d, c) == [result |-> p, data |-> d, class |-> c]
Plain(es) == \A k \in DOMAIN es : es[k].class = "plain"
Truth(es) == \A k \in DOMAIN es : es[k].class = "truth"
ClassOf(es, usable) ==
  IF Plain(es) /\ usable THEN "plain" ELSE IF Truth(es) THEN "truth" ELSE "other"

Top(k)  == SubSeq(operands, Len(operands) - k + 1, Len(operands))
Rest(k) == SubSeq(operands, 1, Len(operands) - k)
BaseOf(e) == types[e.result.base]
IsScalar(e) == e.result.refs = 0

-----------------------------------------------------------------------------
(* Casts.                                                                  *)

\* LLVMGetCastOpcode and LLVMBuildCast.
CastData(data, to) ==
  IF NoLlvmType \in {data, to} \/ {data.llvm, to.llvm} = {"ptr", "float"}
    THEN NoLlvmType ELSE to

\* An operator with a result of type t casts the operands that are not of
\* that type; only scalars can be.
NeedsCast(e, t) == ~IsScalar(e) \/ ~CompareBase(BaseOf(e), t)
CastTo(e, t) ==
  IF NeedsCast(e, t)
    THEN [type |-> t, data |-> CastData(e.data, LlvmTypeOf(t))]
    ELSE [type |-> BaseOf(e), data |-> e.data]
CastsOf(op, es, t) ==
  {[op |-> op, from |-> BaseOf(e), to |-> t] :
     e \in {es[k] : k \in {l \in DOMAIN es : NeedsCast(es[l], t)}}}

-----------------------------------------------------------------------------
(* The instructions: operands of one type, and of the right kind for the   *)
(* operator, which the generator chooses by the type of the right operand. *)

SameData(args) == \A k \in DOMAIN args : args[k].data = args[Len(args)].data
Right(args)    == args[Len(args)]

ArithmeticData(args) ==
  IF /\ SameData(args)
     /\ \/ IsIntegral(Right(args).type) /\ Right(args).data.llvm = "int"
        \/ IsFloatingPoint(Right(args).type) /\ Right(args).data.llvm = "float"
  THEN Right(args).data ELSE NoLlvmType

RelationalData(args) ==
  IF SameData(args) /\ IsIntegral(Right(args).type) /\ Right(args).data.llvm = "int"
  THEN BoolType ELSE NoLlvmType

\* Boolean operators are those of the bits.
BitwiseData(args) ==
  IF SameData(args) /\ Right(args).data.llvm = "int"
  THEN Right(args).data ELSE NoLlvmType
LogicalData(args) == BitwiseData(args)

\* impl_operation
Data(op, args) ==
  CASE op = "arithmetic" -> ArithmeticData(args)
    [] op = "relational" -> RelationalData(args)
    [] op = "logical"    -> LogicalData(args)
    [] op = "bitwise"    -> BitwiseData(args)

\* Leaves: get_const_type_value, impl_reference_const, impl_variable_load.
ConstantData(p) == LlvmTypeOf(PrimitiveKind(p))
StringData      == PtrType
LoadData(v)     == Impl(vars[v])

-----------------------------------------------------------------------------
(* Steps of createExpression.                                              *)

\* Bound: what waits on the stack can still be joined.
Open == phase = "open" /\ nodes < MaxNodes
MayPush == Open /\ nodes + Len(operands) < MaxNodes

\* createExpression returns NULL: the program is refused and its memory
\* purged, or the caller follows the NULL pointer.  This target is over.
Fail(p) ==
  /\ phase' = p
  /\ types' = <<types[1]>>
  /\ typedefs' = [n \in TypeName |-> NoPointer]
  /\ vars' = [v \in Var |-> NoPointer]
  /\ operands' = <<>>
  /\ nodes' = 0
  /\ stores' = {} /\ casts' = {}

Push(k, e) ==
  /\ operands' = Append(Rest(k), e)
  /\ nodes' = nodes + 1
  /\ UNCHANGED <<heapUsers, phase>>

Fresh == Pointer(0, Len(types) + 1)
Allocate(t) == types' = Append(types, t)

\* The end of every create...Operation: the operands es get the type t, and
\* the result is a new object of it.
Operation(op, es, t, class) ==
  IF \E k \in DOMAIN es : ~IsScalar(es[k])
  THEN Fail("refused")
  ELSE /\ Allocate(t)
       /\ casts' = CastsOf(op, es, t)
       /\ Push(Len(es), Expression(Fresh,
                 Data(op, [k \in DOMAIN es |-> CastTo(es[k], t)]), class))

\* createTypeValue
Constant(p) ==
  /\ MayPush
  /\ Allocate(PrimitiveKind(p))
  /\ Push(0, Expression(Fresh, ConstantData(p), "plain"))
  /\ casts' = {}

\* createString
StringConstant ==
  /\ MayPush
  /\ Push(0, Expression(StringLiteralType, StringData, "plain"))
  /\ UNCHANGED types /\ casts' = {}

\* A variable, whose type object is taken over, and impl_variable_load.
Variable(v) ==
  /\ MayPush
  /\ vars[v] # NoPointer
  /\ Push(0, Expression(vars[v], LoadData(v),
                        IF LoadData(v) = NoLlvmType THEN "other" ELSE "plain"))
  /\ UNCHANGED types /\ casts' = {}

\* createAddressOf and impl_address_of; the parser takes a name only.
AddressOf(v) ==
  /\ MayPush
  /\ vars[v] # NoPointer
  /\ Push(0, Expression(Pointer(vars[v].refs + 1, vars[v].base), PtrType,
                        IF Impl(vars[v]) = NoLlvmType THEN "other" ELSE "plain"))
  /\ UNCHANGED types /\ casts' = {}

\* createArithOperation with two operands.
Arithmetic ==
  /\ Open /\ Len(operands) >= 2
  /\ LET es == Top(2) IN
     IF \A k \in {1, 2} : IsScalar(es[k])
     THEN LET t == TypeFromOperands(BaseOf(es[1]), BaseOf(es[2])) IN
          Operation("arithmetic", es, t,
            IF Plain(es) /\ t.primitive # "Char" /\ LlvmTypeOf(t) # NoLlvmType
            THEN "plain" ELSE "other")
     ELSE Fail("refused")

\* Mutant of Negate: the operand is widened as well.
NegateWidens ==
  /\ Open /\ Len(operands) >= 1
  /\ LET e == Top(1)[1]
         t == BaseOf(e) IN
     IF ~IsScalar(e) THEN Fail("refused")
     ELSE IF e.result.base = ShortShortUnsignedInt THEN Fail("crashed")
     ELSE /\ types' = IF IsComposite(t)
                      THEN [types EXCEPT ![e.result.base].sign = "Signed",
                                         ![e.result.base].scale = MaxScaleOf(0, t.scale)]
                      ELSE types
          /\ Push(1, Expression(e.result, ArithmeticData(<<[type |-> t, data |-> e.data]>>),
               IF e.class = "plain" /\ t.primitive # "Char" THEN "plain" ELSE "other"))
          /\ casts' = {}

\* createArithOperation with AST_Negate: the result is the type of the
\* operand, which becomes signed for everyone who shares it.  The type of a
\* string's bytes lies in constant memory.
Negate ==
  /\ Open /\ Len(operands) >= 1
  /\ LET e == Top(1)[1]
         t == BaseOf(e) IN
     IF ~IsScalar(e) THEN Fail("refused")
     ELSE IF e.result.base = ShortShortUnsignedInt THEN Fail("crashed")
     ELSE /\ types' = IF IsComposite(t)
                      THEN [types EXCEPT ![e.result.base].sign = "Signed"]
                      ELSE types
          /\ Push(1, Expression(e.result, ArithmeticData(<<[type |-> t, data |-> e.data]>>),
               IF e.class = "plain" /\ t.primitive # "Char" THEN "plain" ELSE "other"))
          /\ casts' = {}

\* createRelationalOperation: everything is compared as int.
Relational ==
  /\ Open /\ Len(operands) >= 2
  /\ Operation("relational", Top(2), PrimitiveKind("Int"),
               IF Plain(Top(2)) THEN "truth" ELSE "other")

\* createBoolOperation: the right operand is never asked for a float.
Bool ==
  /\ Open /\ Len(operands) >= 2
  /\ LET es == Top(2) IN
     IF /\ \A k \in {1, 2} : IsScalar(es[k])
        /\ ~IsFloatingPoint(BaseOf(es[1]))
     THEN LET t == TypeFromOperands(BaseOf(es[1]), BaseOf(es[2])) IN
          Operation("logical", es, t, ClassOf(es, LlvmTypeOf(t).llvm = "int"))
     ELSE Fail("refused")

\* createBoolNotOperation
BoolNot ==
  /\ Open /\ Len(operands) >= 1
  /\ LET e == Top(1)[1] IN
     IF IsScalar(e) /\ ~IsFloatingPoint(BaseOf(e))
     THEN Operation("logical", <<e>>, BaseOf(e), ClassOf(<<e>>, TRUE))
     ELSE Fail("refused")

\* createBitOperation.  The primitive of two composites is never written:
\* any p may be there, and Char stands for the values beyond the enumeration.
Bit(p) ==
  /\ Open /\ Len(operands) >= 2
  /\ LET es == Top(2)
         l  == BaseOf(es[1])
         r  == BaseOf(es[2])
         composites == IsComposite(l) /\ IsComposite(r) IN
     IF /\ \A k \in {1, 2} : IsScalar(es[k]) /\ ~IsFloatingPoint(BaseOf(es[k]))
        /\ composites => l.scale = r.scale
     THEN Operation("bitwise", es,
            IF composites THEN CompositeKind(MaxEnum(l.sign, r.sign), l.scale, p)
                          ELSE PrimitiveKind("Int"),
            IF composites THEN "other" ELSE ClassOf(es, TRUE))
     ELSE Fail("refused")

\* createBitNotOperation.  Of a reference the kind of the result is never
\* written: it is refused, unless the memory looks like a reference, which
\* is then followed.
BitNot ==
  /\ Open /\ Len(operands) >= 1
  /\ LET e == Top(1)[1]
         t == BaseOf(e) IN
     IF ~IsScalar(e) THEN \E p \in {"refused", "crashed"} : Fail(p)
     ELSE IF IsFloatingPoint(t) THEN Fail("refused")
     ELSE Operation("bitwise", <<e>>,
            IF IsComposite(t) THEN CompositeKind(t.sign, t.scale, "Int")
                              ELSE PrimitiveKind("Int"), ClassOf(<<e>>, TRUE))

\* Mutant of Deref: what is indexed may be no reference.
DerefAnything ==
  /\ Open /\ Len(operands) >= 2
  /\ LET e == Top(2)[2]
         p == Pointer(e.result.refs - 1, e.result.base) IN
     /\ Push(2, Expression(p, NoLlvmType, "other"))
     /\ UNCHANGED types /\ casts' = {}

\* createDeref and impl_deref: index below, reference on top.
Deref ==
  /\ Open /\ Len(operands) >= 2
  /\ LET index == Top(2)[1]
         e     == Top(2)[2]
         p     == Pointer(e.result.refs - 1, e.result.base) IN
     IF IsScalar(index) /\ IsIntegral(BaseOf(index)) /\ ~IsScalar(e)
     THEN /\ Push(2, Expression(p, IF e.data = PtrType THEN Impl(p) ELSE NoLlvmType,
                                ClassOf(<<index, e>>, TRUE)))
          /\ UNCHANGED types /\ casts' = {}
     ELSE Fail("refused")

-----------------------------------------------------------------------------
(* Written types.                                                          *)

IsDeclared(node) == node.kind \in TypeName /\ typedefs[node.kind] # NoPointer
IsType(node)     == IsDeclared(node) \/ NewType(node) # Refused

\* set_get_type_impl on the heap h: a declared name is what it was declared
\* as, whatever stands before it; anything else is a new object.
HeapWith(h, node) == IF IsDeclared(node) THEN h ELSE Append(h, NewType(node))
TypeImpl(h, node) ==
  IF IsDeclared(node)
    THEN Pointer(node.refs + typedefs[node.kind].refs, typedefs[node.kind].base)
    ELSE Pointer(node.refs, Len(h) + 1)

ImplIn(h, p) ==
  LET base == LlvmTypeOf(h[p.base]) IN
  IF p.refs = 0 \/ base = NoLlvmType THEN base ELSE PtrType

\* createTypeCast and impl_typecast.
TypeCast(node) ==
  /\ Open /\ Len(operands) >= 1
  /\ IF ~IsType(node) THEN Fail("refused")
     ELSE LET e  == Top(1)[1]
              p  == TypeImpl(types, node)
              to == ImplIn(HeapWith(types, node), p)
              d  == CastData(e.data, to) IN
          /\ types' = HeapWith(types, node)
          /\ Push(1, Expression(p, d,
                       IF e.class # "other" /\ to # NoLlvmType
                          /\ {e.data.llvm, to.llvm} # {"ptr", "float"}
                       THEN "plain" ELSE "other"))
          /\ casts' = {}

\* createTransmute and impl_transmute, a bit cast whose sizes nobody compares.
CreateTransmute(node) ==
  /\ Open /\ Len(operands) >= 1
  /\ IF ~IsType(node) THEN Fail("refused")
     ELSE LET e   == Top(1)[1]
              p   == TypeImpl(types, node)
              to  == ImplIn(HeapWith(types, node), p)
              fit == e.data.bits = to.bits /\ (e.data = PtrType <=> to = PtrType) IN
          /\ types' = HeapWith(types, node)
          /\ Push(1, Expression(p, IF fit THEN to ELSE NoLlvmType,
                       IF e.class = "plain" /\ to # NoLlvmType /\ fit
                       THEN "plain" ELSE "other"))
          /\ casts' = {}

-----------------------------------------------------------------------------
(* Declarations and statements.  Their ends drop the objects of the        *)
(* expression, which nothing refers to.                                    *)

Idle == phase = "open" /\ operands = <<>>
Kept ==
  LET used == {typedefs[n].base : n \in TypeName} \cup {vars[v].base : v \in Var}
                \cup {s.to.base : s \in stores} \cup {ShortShortUnsignedInt}
  IN  SubSeq(types, 1, CHOOSE k \in used : \A l \in used : l <= k)
SmallProgram ==
  \A n \in TypeName : typedefs[n] # NoPointer /\ IsComposite(types[typedefs[n].base])
                        => types[typedefs[n].base].scale \in ProgramScales

\* createTypeDef
TypeDef(n, node) ==
  /\ Idle /\ nodes = 0 /\ \A v \in Var : vars[v] = NoPointer
  /\ typedefs[n] = NoPointer
  /\ IF ~IsType(node) THEN Fail("refused")
     ELSE /\ types' = HeapWith(types, node)
          /\ typedefs' = [typedefs EXCEPT ![n] = TypeImpl(types, node)]
          /\ UNCHANGED <<vars, operands, nodes, stores, casts, phase>>

\* createDecl: the variables of one declaration share one object.
Decl(vs, node) ==
  /\ Idle /\ SmallProgram
  /\ \A v \in vs : vars[v] = NoPointer
  /\ IF ~IsType(node) THEN Fail("refused")
     ELSE /\ types' = HeapWith(types, node)
          /\ vars' = [v \in Var |-> IF v \in vs THEN TypeImpl(types, node) ELSE vars[v]]
          /\ UNCHANGED <<typedefs, operands, nodes, stores, phase>> /\ casts' = {}

Store(p, d) == [to |-> p, data |-> d]

\* createDef and impl_def: the initializer is cast to the type of the
\* variable, with a warning.
Def(v, node) ==
  /\ phase = "open" /\ Len(operands) = 1 /\ SmallProgram
  /\ vars[v] = NoPointer
  /\ LET e   == operands[1]
         h   == HeapWith(Kept, node)
         p   == TypeImpl(Kept, node)
         fit == p.refs = e.result.refs /\ CompareBase(h[p.base], BaseOf(e)) IN
     IF ~IsType(node) \/ (~fit /\ ~IsScalar(e)) THEN Fail("refused")
     ELSE /\ types' = h
          /\ vars' = [vars EXCEPT ![v] = p]
          /\ stores' = stores \cup
               {Store(p, IF fit THEN e.data ELSE CastData(e.data, ImplIn(h, p)))}
          /\ operands' = <<>>
          /\ UNCHANGED <<typedefs, nodes, phase>> /\ casts' = {}

\* createAssign to p.
AssignTo(p, e) ==
  IF ~CompareTypes(p, e.result) THEN Fail("refused")
  ELSE /\ stores' = stores \cup {Store(p, e.data)}
       /\ operands' = <<>>
       /\ types' = Kept
       /\ UNCHANGED <<typedefs, vars, nodes, phase>> /\ casts' = {}

Assign(v) ==
  /\ phase = "open" /\ Len(operands) = 1
  /\ vars[v] # NoPointer
  /\ AssignTo(vars[v], operands[1])

\* createStorageExpr with an index, which may be of any type.
AssignElement(v) ==
  /\ phase = "open" /\ Len(operands) = 2
  /\ vars[v] # NoPointer
  /\ IF vars[v].refs = 0 THEN Fail("refused")
     ELSE AssignTo(Pointer(vars[v].refs - 1, vars[v].base), operands[2])

-----------------------------------------------------------------------------
Init ==
  /\ types = <<CompositeKind("Unsigned", MinScale, "Int")>>
  /\ typedefs = [n \in TypeName |-> NoPointer]
  /\ vars = [v \in Var |-> NoPointer]
  /\ operands = <<>>
  /\ nodes = 0
  /\ stores = {} /\ casts = {}
  /\ phase = "open"

Next ==
  \/ \E n \in TypeName, node \in TypedefNodes : TypeDef(n, node)
  \/ \E vs \in SUBSET Var \ {{}}, node \in Nodes : Decl(vs, node)
  \/ \E p \in PrimitiveType : Constant(p)
  \/ StringConstant
  \/ \E v \in Var : Variable(v)
  \/ \E v \in Var : AddressOf(v)
  \/ Arithmetic
  \/ Negate
  \/ Relational
  \/ Bool
  \/ BoolNot
  \/ \E p \in PrimitiveType : Bit(p)
  \/ BitNot
  \/ Deref
  \/ \E node \in Nodes : TypeCast(node)
  \/ \E node \in Nodes : CreateTransmute(node)
  \/ \E v \in Var, node \in Nodes : Def(v, node)
  \/ \E v \in Var : Assign(v)
  \/ \E v \in Var : AssignElement(v)

Spec == Init /\ [][Next]_vars_
-----------------------------------------------------------------------------
(* Properties.                                                             *)

\* Every pointer leads to an object of the heap, by a number of references
\* that is not negative.
PointerOK(p) == p.refs \in Nat /\ p.base \in 1 .. Len(types)
TypeOK ==
  /\ \A k \in 1 .. Len(types) :
       types[k] \in Type \/ types[k] \in [kind : {"Composite"}, sign : Sign, scale : Int,
                                          primitive : PrimitiveType]
  /\ \A n \in TypeName : typedefs[n] = NoPointer \/ PointerOK(typedefs[n])
  /\ \A v \in Var : vars[v] = NoPointer \/ PointerOK(vars[v])
  /\ \A k \in 1 .. Len(operands) : PointerOK(operands[k].result)
  /\ \A s \in stores : PointerOK(s.to)
  /\ phase \in {"open", "refused", "crashed"}

\* No object is made whose scale is outside of 1/4 to 8, however many factors
\* were written, typedefs followed and operands combined: the width of an
\* LLVM integer is computed from it.
ScalesWithinLimits ==
  \A k \in 1 .. Len(types) :
    IsComposite(types[k]) => types[k].scale \in Scale

\* The analysis and the generator agree: the value generated for an
\* expression has the LLVM type of the type that the analysis gave it, and
\* no instruction joins operands of two LLVM types.  Exempt is what is made
\* of a comparison, a bit of type int, until it is cast.
DataHasItsType ==
  \A k \in 1 .. Len(operands) :
    LET e == operands[k] IN
    /\ e.class = "plain" => e.data = Impl(e.result)
    /\ e.class = "truth" => e.data = BoolType /\ Impl(e.result) = IntType(0)

\* Whatever the analysis lets through, a value that is stored in a variable,
\* or where one points to, has the LLVM type of its place when code is
\* generated at the end, although a negation may have written to the type
\* after the analysis of the store.  There is one exception: a comparison, a
\* bit whose type is int, compares equal to an int place and is stored there
\* without a cast.  Where the value or the place has no LLVM type, LLVM
\* refuses the module and nothing is stored.
StoresFit ==
  \A s \in stores :
    NoLlvmType \notin {s.data, Impl(s.to)} =>
      \/ s.data = Impl(s.to)
      \/ s.data = BoolType /\ Impl(s.to) = IntType(0)

\* Negating an expression writes to a type that variables share, but changes
\* the storage of none, unless it had no LLVM type.
VariablesKeepTheirWidth ==
  [][\A v \in Var :
       /\ NoPointer \notin {vars[v], vars'[v]}
       /\ Impl(vars[v]) # NoLlvmType
       => Impl(vars[v])' = Impl(vars[v])]_vars_

\* Arithmetic casts an operand only to a type that is as wide, and a float
\* only to an integer when a plain float meets a composite.  Of Char, on
\* which the generator gives up, nothing is said.
ArithmeticWidens ==
  \A c \in casts :
    c.op = "arithmetic" /\ c.to.primitive # "Char"
      /\ NoLlvmType \notin {LlvmTypeOf(c.from), LlvmTypeOf(c.to)} =>
      /\ LlvmTypeOf(c.from).bits <= LlvmTypeOf(c.to).bits
      /\ LlvmTypeOf(c.from).llvm = "float" /\ LlvmTypeOf(c.to).llvm = "int"
           => c.from = PrimitiveKind("Float") /\ IsComposite(c.to)
=============================================================================
