-------------------------------- MODULE Names --------------------------------
(***************************************************************************)
(* What a name means: the tables of semantic analysis (Scope,              *)
(* functionParameter and declaredFunctions of src/src/set/set.c), which    *)
(* resolve every use of a name while create_set walks a module, and the    *)
(* tables of code generation (LLVMLocalScope, LLVMFuncScope and            *)
(* LLVMGlobalScope of src/src/llvm), which look the name up once more.     *)
(* The targets of one run of the compiler come one after another and share *)
(* the static variables of set.c.                                          *)
(*                                                                         *)
(* Types and values are left out: a check of types is TypeError, which may *)
(* come at any point.  A statement has at most one name that it reads; an  *)
(* identifier list has one name.  Boxes are left out.                      *)
(***************************************************************************)
EXTENDS Naturals, Sequences, FiniteSets

CONSTANTS
  Name,       \* identifiers, of variables, parameters and functions
  Constant,   \* an expression that reads no name
  MaxCode,    \* bound: accepted uses and definitions in a module
  MaxDepth,   \* bound: open scopes
  MaxParams   \* bound: parameters of a function

ASSUME ConstantAssumption == Constant \notin Name
ASSUME BoundsAssumption == {MaxCode, MaxDepth, MaxParams} \subseteq Nat

VARIABLES
  phase,     \* what runs: "idle" (between two targets), "module" (the loop of
             \* create_set), "parameters", "body" (createStatement), "failed"
             \* (create_set returned NULL), "codegen", "generated"; or what
             \* ended it: "null" (a NULL is used), "dangling" (the purged
             \* functionParameter is), "foreign" (the wrong union member is)
  scope,     \* Scope: the open scopes, outermost first, name -> variable
  parameter, \* functionParameter: its state and name -> qualifier
  function,  \* the function under construction, or NoFunction
  functions, \* declaredFunctions, and the functions of the module
  code,      \* what create_set accepted, in source order; a variable is
             \* identified by the place in code that defines it
  pc,        \* code generation: the place in code it has reached
  locals,    \* code generation: scope->vars of the current function
  abandoned  \* history: semantic analysis gave up inside a function, and has
             \* not begun another one since

vars == <<phase, scope, parameter, function, functions, code, pc, locals,
          abandoned>>

Qualifier  == {"In", "Out", "InOut"}
Empty      == [n \in {} |-> 0]
NoFunction == [name |-> Constant, kind |-> "none", params |-> <<>>]
NullTable  == [state |-> "null", table |-> Empty]

Bind(table, n, value) == [x \in DOMAIN table \cup {n} |->
                            IF x = n THEN value ELSE table[x]]
Outermost(S) == CHOOSE i \in S : \A j \in S : i <= j
ParamNames(f) == {f.params[i].name : i \in DOMAIN f.params}

-----------------------------------------------------------------------------
(* Semantic analysis.                                                      *)

\* getVariableFromScope: the outermost open scope that has the name.
ScopesWith(n) == {i \in DOMAIN scope : n \in DOMAIN scope[i]}
IsVariable(n) == ScopesWith(n) # {}
VariableOf(n) == scope[Outermost(ScopesWith(n))][n]

Access(op, kind, n, ref) == [op |-> op, kind |-> kind, name |-> n, ref |-> ref]
Result(status, items)    == [status |-> status, items |-> items]

\* createExpression and createStorageExpr on an identifier: a variable, else a
\* parameter (getParameter) that readable admits.
Resolve(op, n, readable) ==
  IF IsVariable(n)
    THEN Result("ok", <<Access(op, "Variable", n, VariableOf(n))>>)
  ELSE IF parameter.state = "purged"
    THEN Result("dangling", <<>>)
  ELSE IF n \in DOMAIN parameter.table /\ parameter.table[n] \in readable
    THEN Result("ok", <<Access(op, "Parameter", n, 0)>>)
  ELSE Result("error", <<>>)

\* createExpression; a write-only parameter is refused.
Evaluate(e) ==
  IF e = Constant THEN Result("ok", <<>>)
  ELSE Resolve(IF phase = "module" THEN "initial" ELSE "load", e, {"In", "InOut"})

\* createStorageExpr and the check of createAssign, which asks for a node kind
\* that a storage expression never has: no qualifier is refused.
Store(n) == Resolve("store", n, Qualifier)

\* An error: every function returns SEMANTIC_ERROR and create_set NULL, so
\* that nothing looks at the module and its tables again, but functionParameter
\* stays as it is.
Fail ==
  /\ phase' = "failed"
  /\ abandoned' = (abandoned \/ phase \in {"parameters", "body"})
  /\ scope' = <<>>
  /\ function' = NoFunction
  /\ functions' = Empty
  /\ code' = <<>>
  /\ UNCHANGED <<parameter, pc, locals>>

Dangling ==
  /\ phase' = "dangling"
  /\ UNCHANGED <<scope, parameter, function, functions, code, pc, locals,
                 abandoned>>

\* Take what a statement adds to the code, or give up.
Accept(res) ==
  CASE res.status = "ok" ->
         /\ Len(code) + Len(res.items) <= MaxCode
         /\ code' = code \o res.items
         /\ UNCHANGED <<phase, scope, parameter, function, functions, pc,
                        locals, abandoned>>
    [] res.status = "error" -> Fail
    [] res.status = "dangling" -> Dangling

\* Mutant of AddVarToScope: only the innermost scope is searched.
AddVarToScopeInnermost(n, items) ==
  IF n \in DOMAIN scope[Len(scope)] THEN Fail
  ELSE LET id == Len(code) + Len(items) + 1 IN
       /\ id <= MaxCode
       /\ code' = code \o items
                    \o <<Access(IF phase = "module" THEN "global" ELSE "local",
                                "Variable", n, id)>>
       /\ scope' = [scope EXCEPT ![Len(scope)] = Bind(@, n, id)]
       /\ UNCHANGED <<phase, parameter, function, functions, pc, locals,
                      abandoned>>

\* addVarToScope after the items: the name must be new in all open scopes.
AddVarToScope(n, items) ==
  IF IsVariable(n) THEN Fail
  ELSE LET id == Len(code) + Len(items) + 1 IN
       /\ id <= MaxCode
       /\ code' = code \o items
                    \o <<Access(IF phase = "module" THEN "global" ELSE "local",
                                "Variable", n, id)>>
       /\ scope' = [scope EXCEPT ![Len(scope)] = Bind(@, n, id)]
       /\ UNCHANGED <<phase, parameter, function, functions, pc, locals,
                      abandoned>>

\* create_set makes new tables for the module; functionParameter it leaves.
CreateSet ==
  /\ phase = "idle"
  /\ phase' = "module"
  /\ scope' = <<Empty>>
  /\ UNCHANGED <<parameter, function, functions, code, pc, locals, abandoned>>

\* createDecl, of the module or of a block.
CreateDecl(n) ==
  /\ phase \in {"module", "body"}
  /\ AddVarToScope(n, <<>>)

\* createDef: the initializer, then the name.  An initializer that does not
\* resolve is reported and then used all the same.
CreateDef(n, e) ==
  LET init == Evaluate(e) IN
  /\ phase \in {"module", "body"}
  /\ CASE init.status = "ok" -> AddVarToScope(n, init.items)
       [] init.status = "error" ->
            /\ phase' = "null"
            /\ UNCHANGED <<scope, parameter, function, functions, code, pc,
                           locals, abandoned>>
       [] init.status = "dangling" -> Dangling

\* createAssign: the storage, then the value.
CreateAssign(n, e) ==
  LET to == Store(n)
      value == Evaluate(e)
  IN
  /\ phase = "body"
  /\ IF to.status # "ok" THEN Accept(to)
     ELSE Accept([value EXCEPT !.items = @ \o to.items])

\* AST_Return of createStatement.
CreateReturn(e) ==
  /\ phase = "body"
  /\ Accept(Evaluate(e))

\* Mutant of CreateFuncall: the arguments are not counted.
CreateFuncallUncounted(f, args) ==
  /\ phase = "body"
  /\ IF f \in DOMAIN functions
       THEN Accept(Result("ok", <<Access("call", "Function", f, Len(args))>>))
       ELSE Fail

\* createfuncall with at most one argument.
CreateFuncall(f, args) ==
  /\ phase = "body"
  /\ IF f \in DOMAIN functions /\ Len(functions[f].params) = Len(args)
       THEN LET arg == IF args = <<>> THEN Result("ok", <<>>) ELSE Evaluate(args[1])
            IN  Accept([arg EXCEPT !.items =
                          @ \o <<Access("call", "Function", f, Len(args))>>])
       ELSE Fail

\* createWhile, createIf, createElseIf and createElse: the condition, if there
\* is one, then fillBlock opens a scope for the body.
BeginBlock(e) ==
  LET cond == Evaluate(e) IN
  /\ phase = "body"
  /\ IF cond.status # "ok" THEN Accept(cond)
     ELSE /\ Len(scope) < MaxDepth
          /\ Len(code) + Len(cond.items) <= MaxCode
          /\ code' = code \o cond.items
          /\ scope' = Append(scope, Empty)
          /\ UNCHANGED <<phase, parameter, function, functions, pc, locals,
                         abandoned>>

\* fillBlock at the end of the body of a statement.
EndBlock ==
  /\ phase = "body"
  /\ Len(scope) > 2
  /\ scope' = SubSeq(scope, 1, Len(scope) - 1)
  /\ UNCHANGED <<phase, parameter, function, functions, code, pc, locals,
                 abandoned>>

\* createFunction up to the parameters of the function f.
BeginFunction(f, kind) ==
  /\ phase = "module"
  /\ Len(code) < MaxCode
  /\ phase' = "parameters"
  /\ parameter' = [state |-> "live", table |-> Empty]
  /\ function' = [name |-> f, kind |-> kind, params |-> <<>>]
  /\ abandoned' = FALSE
  /\ UNCHANGED <<scope, functions, code, pc, locals>>

\* createParam: the parameter is in the list before its name is checked.
CreateParam(n, q) ==
  /\ phase = "parameters"
  /\ IF n \in DOMAIN parameter.table THEN Fail
     ELSE /\ Len(function.params) < MaxParams
          /\ function' = [function EXCEPT !.params =
                            Append(@, [name |-> n, qualifier |-> q])]
          /\ parameter' = [parameter EXCEPT !.table = Bind(@, n, q)]
          /\ UNCHANGED <<phase, scope, functions, code, pc, locals, abandoned>>

\* createFunDef and createProcDef: fillBlock opens the scope of the body.
BeginBody ==
  /\ phase = "parameters"
  /\ function.kind = "FunctionDefinitionKind"
  /\ phase' = "body"
  /\ scope' = Append(scope, Empty)
  /\ code' = Append(code, Access("function", "Function", function.name, 0))
  /\ UNCHANGED <<parameter, function, functions, pc, locals, abandoned>>

\* Mutant of Register: the function has no name yet when it is registered.
RegisterUnnamed ==
  /\ phase' = "module"
  /\ functions' = Bind(functions, NoFunction.name, function)
  /\ function' = NoFunction

\* addFunction and the check of create_set, at the end of a function: the
\* tables have the same names, so the stricter check decides.
Register ==
  IF function.name \in DOMAIN functions
    THEN /\ phase' = "failed"
         /\ UNCHANGED <<functions, function>>
    ELSE /\ phase' = "module"
         /\ functions' = Bind(functions, function.name, function)
         /\ function' = NoFunction

\* Mutant of EndFunction: functionParameter is freed and not set to NULL.
EndFunctionDangling ==
  /\ \/ phase = "parameters" /\ function.kind = "FunctionDeclarationKind"
     \/ phase = "body" /\ Len(scope) = 2
  /\ Register
  /\ parameter' = [parameter EXCEPT !.state = "purged"]
  /\ scope' = SubSeq(scope, 1, 1)
  /\ UNCHANGED <<code, pc, locals, abandoned>>

\* createFunction after the body of a definition or the parameters of a
\* declaration: functionParameter is freed and set to NULL.
EndFunction ==
  /\ \/ phase = "parameters" /\ function.kind = "FunctionDeclarationKind"
     \/ phase = "body" /\ Len(scope) = 2
  /\ Register
  /\ parameter' = NullTable
  /\ scope' = SubSeq(scope, 1, 1)
  /\ UNCHANGED <<code, pc, locals, abandoned>>

\* A type that does not resolve or does not fit.
TypeError ==
  /\ phase \in {"module", "parameters", "body"}
  /\ Fail

-----------------------------------------------------------------------------
(* Code generation.                                                        *)

\* impl_global_variables: all the variables of the module.
Globals == {i \in DOMAIN code : code[i].op = "global"}
GlobalNamed(n) == {i \in Globals : code[i].name = n}

\* The initializer of a global is read as a constant whatever it is.
HasForeignInitializer == \E i \in DOMAIN code : code[i].op = "initial"

\* get_variable: the table of the function, then the module.
GetVariable(n) ==
  IF n \in DOMAIN locals THEN locals[n]
  ELSE IF GlobalNamed(n) # {} THEN Outermost(GlobalNamed(n))
  ELSE 0

\* LLVM has one table for functions and variables, and the variables come
\* first: a function with the name of a variable gets another name there, and
\* LLVMGetNamedFunction does not find it.
NamedFunction(n) == n \in DOMAIN functions /\ GlobalNamed(n) = {}

BeginCodegen ==
  /\ phase = "module"
  /\ phase' = IF HasForeignInitializer THEN "foreign" ELSE "codegen"
  /\ pc' = 1
  /\ UNCHANGED <<scope, parameter, function, functions, code, locals, abandoned>>

\* impl_func_def and impl_block: a function starts with an empty table.  That
\* LLVM found the function is not checked.
ImplFunction ==
  /\ phase = "codegen" /\ pc <= Len(code)
  /\ code[pc].op = "function"
  /\ locals' = Empty
  /\ phase' = IF NamedFunction(code[pc].name) THEN phase ELSE "null"
  /\ pc' = pc + 1
  /\ UNCHANGED <<scope, parameter, function, functions, code, abandoned>>

\* impl_decl and impl_def: whatever block the statement is in, the variable
\* goes into the table of the function (impl_basic_block hands its own
\* argument on and not the scope that it made).
ImplVariable ==
  /\ phase = "codegen" /\ pc <= Len(code)
  /\ code[pc].op = "local"
  /\ locals' = Bind(locals, code[pc].name, code[pc].ref)
  /\ pc' = pc + 1
  /\ UNCHANGED <<phase, scope, parameter, function, functions, code, abandoned>>

\* impl_variable_load, impl_parameter_load, impl_storage_expr.
ImplAccess ==
  /\ phase = "codegen" /\ pc <= Len(code)
  /\ code[pc].op \in {"load", "store"}
  /\ pc' = pc + 1
  /\ UNCHANGED <<phase, scope, parameter, function, functions, code, locals,
                 abandoned>>

\* impl_func_call.
ImplCall ==
  /\ phase = "codegen" /\ pc <= Len(code)
  /\ code[pc].op = "call"
  /\ phase' = IF NamedFunction(code[pc].name) THEN phase ELSE "failed"
  /\ pc' = pc + 1
  /\ UNCHANGED <<scope, parameter, function, functions, code, locals, abandoned>>

\* The globals are done by the time the functions are.
SkipGlobal ==
  /\ phase = "codegen" /\ pc <= Len(code)
  /\ code[pc].op = "global"
  /\ pc' = pc + 1
  /\ UNCHANGED <<phase, scope, parameter, function, functions, code, locals,
                 abandoned>>

EndCodegen ==
  /\ phase = "codegen" /\ pc > Len(code)
  /\ phase' = "generated"
  /\ UNCHANGED <<scope, parameter, function, functions, code, pc, locals,
                 abandoned>>

\* build_target purges the namespace "SET"; the pointers stay.
Purge ==
  /\ phase \in {"failed", "generated"}
  /\ phase' = "idle"
  /\ parameter' = IF parameter.state = "null" THEN NullTable
                  ELSE [state |-> "purged", table |-> Empty]
  /\ scope' = <<>>
  /\ function' = NoFunction
  /\ functions' = Empty
  /\ code' = <<>>
  /\ pc' = 0
  /\ locals' = Empty
  /\ UNCHANGED abandoned

-----------------------------------------------------------------------------
Init ==
  /\ phase = "idle"
  /\ scope = <<>>
  /\ parameter = NullTable
  /\ function = NoFunction
  /\ functions = Empty
  /\ code = <<>>
  /\ pc = 0
  /\ locals = Empty
  /\ abandoned = FALSE

Expression == Name \cup {Constant}

Next ==
  \/ CreateSet
  \/ \E n \in Name : CreateDecl(n)
  \/ \E n \in Name, e \in Expression : CreateDef(n, e)
  \/ \E n \in Name, e \in Expression : CreateAssign(n, e)
  \/ \E e \in Expression : CreateReturn(e)
  \/ \E f \in Name, args \in {<<>>} \cup {<<e>> : e \in Expression} :
       CreateFuncall(f, args)
  \/ \E e \in Expression : BeginBlock(e)
  \/ EndBlock
  \/ \E f \in Name, kind \in {"FunctionDefinitionKind", "FunctionDeclarationKind"} :
       BeginFunction(f, kind)
  \/ \E n \in Name, q \in Qualifier : CreateParam(n, q)
  \/ BeginBody
  \/ EndFunction
  \/ TypeError
  \/ BeginCodegen
  \/ ImplFunction
  \/ ImplVariable
  \/ ImplAccess
  \/ ImplCall
  \/ SkipGlobal
  \/ EndCodegen
  \/ Purge

Spec == Init /\ [][Next]_vars

-----------------------------------------------------------------------------
(* Properties.                                                             *)

Operation == {"global", "local", "initial", "load", "store", "call", "function"}

TypeOK ==
  /\ phase \in {"idle", "module", "parameters", "body", "failed", "codegen",
               "generated", "null", "dangling", "foreign"}
  /\ \A i \in DOMAIN scope : /\ DOMAIN scope[i] \subseteq Name
                            /\ \A n \in DOMAIN scope[i] :
                                 scope[i][n] \in DOMAIN code
  /\ parameter.state \in {"null", "live", "purged"}
  /\ DOMAIN parameter.table \subseteq Name
  /\ \A n \in DOMAIN parameter.table : parameter.table[n] \in Qualifier
  /\ DOMAIN functions \subseteq Name
  /\ code \in Seq([op : Operation, kind : {"Variable", "Parameter", "Function"},
                   name : Name, ref : Nat])
  /\ pc \in 0 .. MaxCode + 1
  /\ \A n \in DOMAIN locals : locals[n] \in DOMAIN code
  /\ abandoned \in BOOLEAN

\* A name is in at most one open scope, so that the search of
\* getVariableFromScope, which goes on after a hit and prefers the outermost,
\* has one answer, and its second branch (set.c:606) is never taken.
NameOpenOnce == \A n \in Name : Cardinality(ScopesWith(n)) <= 1

\* Code generation keeps one flat table of variables per function, that also
\* holds those of blocks that have ended, and still every name that it looks
\* up leads to the variable or parameter that semantic analysis resolved.
CurrentFunction ==
  LET starts == {i \in 1 .. pc : code[i].op = "function"}
  IN  functions[code[CHOOSE i \in starts : \A j \in starts : j <= i].name]
CodegenFindsTheVariable ==
  phase = "codegen" /\ pc <= Len(code) /\ code[pc].op \in {"load", "store"} =>
    \/ code[pc].kind = "Variable" /\ GetVariable(code[pc].name) = code[pc].ref
    \/ code[pc].kind = "Parameter" /\ code[pc].name \in ParamNames(CurrentFunction)

\* A function that semantic analysis accepted, and its calls, are found by
\* code generation with as many parameters, unless a variable of the module,
\* defined before or after it, has the name of the function.  Semantic analysis
\* does not refuse such a name (it keeps functions and variables apart), but it
\* never comes to a generated module either: code generation stops at the
\* function or at its call, and at no other.
CodegenFindsTheFunction ==
  /\ phase = "codegen" /\ pc <= Len(code) /\ code[pc].op \in {"call", "function"} =>
       \/ /\ NamedFunction(code[pc].name)
          /\ code[pc].op = "call" =>
               Len(functions[code[pc].name].params) = code[pc].ref
       \/ GlobalNamed(code[pc].name) # {}
  /\ phase \in {"failed", "null"} /\ pc > 0 => GlobalNamed(code[pc - 1].name) # {}
  /\ phase = "generated" =>
       \A i \in DOMAIN code : code[i].op \in {"call", "function"} =>
         GlobalNamed(code[i].name) = {}

\* The parameter table is not reset between targets.  A lookup meets a table
\* that is gone only when an earlier target gave up in the middle of a
\* function and no function has begun since; else it is NULL or alive.
DanglingOnlyAfterAbandonedFunction ==
  /\ phase = "dangling" => abandoned
  /\ phase = "body" => parameter.state = "live"
  /\ phase = "module" /\ ~abandoned => parameter.state = "null"
=============================================================================
