--------------------------- MODULE BackendProofs ---------------------------
(***************************************************************************)
(* The safety properties of module Backend hold for every set of           *)
(* functions, every list of search paths and every number of edits.        *)
(***************************************************************************)
EXTENDS Backend, TLAPS

-----------------------------------------------------------------------------
(* The inductive invariant: what each stage relies on.                     *)

Building == {"types", "variables", "function types", "functions", "verify", "target"}
Before   == Building \cup {"init", "object"}
Leaked   == IF emitFailed THEN {"message", "machine"} ELSE {}

\* What is left of a function that failed.
FunctionLeft(S) ==
  /\ ~emitFailed
  /\ \E f \in Function \ built :
       functions[f].kind = "definition" /\ live = S \cup LeftBy(functions[f].flaw)

\* What is allocated at each stage.
LiveAt ==
  /\ pc = "init" => live = {}
  /\ pc \in Building => live = {"unit", "scope"}
  /\ pc = "object" => live = {"unit", "scope", "target"}
  /\ pc \in {"ir", "link config"} => live \subseteq {"unit", "scope", "target"} \cup Leaked
  /\ pc = "link" => live \subseteq {"unit", "scope", "target", "config"} \cup Leaked
  /\ pc = "dispose" =>
       \/ err = Failed /\ FunctionLeft({"unit", "scope"})
       \/ live \subseteq {"unit", "scope", "target"} \cup Leaked
                           \cup (IF err = Failed THEN {"command"} ELSE {})
  /\ pc = "exit" =>
       \/ err = Failed /\ FunctionLeft({})
       \/ live \subseteq Leaked \cup (IF err = Failed THEN {"command"} ELSE {})

\* A status is there only between runs.
StatusAt == status # "none" => pc = "idle"

\* Which functions are known to have bodies without flaws.
Implemented(F) == \A f \in F : functions[f].kind = "definition" => f \in built
Flawless == \A f \in Function : functions[f].kind = "definition" =>
                                  f \in built /\ functions[f].flaw = "none"
BuiltAt ==
  /\ pc \in {"init", "types", "variables", "function types"} => built = {}
  /\ pc = "functions" => Implemented(Function \ pending) /\ built \cap pending = {}
  /\ pc = "verify" => Implemented(Function)
  /\ pc \in {"target", "object"} => Flawless

\* Which object file is the one of this run.
ObjectAt ==
  /\ pc \in Before \cup {"ir", "link config"} => objects = NoFile
  /\ pc \in Before => ~emitFailed
  /\ pc \in {"ir", "link config"} /\ ~emitFailed => archive[Cwd] = version
  /\ pc = "link" /\ ~emitFailed => objects = version
  /\ pc \in {"dispose", "exit"} /\ err = Success /\ objects # NoFile /\ ~emitFailed =>
       output = version

IInv == /\ TypeOK
        /\ LiveAt
        /\ StatusAt
        /\ BuiltAt
        /\ ObjectAt
        /\ ReleasedAtEnd
        /\ StaleOnlyAfterFailedEmission

-----------------------------------------------------------------------------
\* The numbers that stand for contents of a file.
LEMMA Contents ==
  /\ version \in 1 .. MaxVersion => version \in Content /\ version # NoFile
  /\ NoFile \in Content /\ Broken \in Content /\ Foreign \in Content
  /\ Cwd \in Directory
BY MaxVersionAssumption DEF Content, NoFile, Broken, Foreign, Directory

\* The compiler has not been started: nothing is allocated or known.
LEMMA InitIInv == Init => IInv
<1> SUFFICES ASSUME Init PROVE IInv
  OBVIOUS
<1>1. TypeOK
  <2>1. archive \in [Directory -> Content]
    BY Contents DEF Init
  <2>2. functions \in Functions
    BY DEF Init, Functions, FunctionKind, Flaw
  <2>3. version \in 1 .. MaxVersion /\ output \in Content /\ objects \in Content
    BY Contents, MaxVersionAssumption DEF Init
  <2> QED
    BY <2>1, <2>2, <2>3 DEF Init, TypeOK
<1> QED
  BY <1>1 DEF Init, IInv, LiveAt, StatusAt, BuiltAt, ObjectAt, ReleasedAtEnd,
              StaleOnlyAfterFailedEmission, Building, Before
-----------------------------------------------------------------------------
(* Each part of the invariant is kept by each step.                        *)

\* What the linker finds is an object file or none.
LEMMA FoundContent == TypeOK => Found \subseteq Content
BY Contents DEF Found, TypeOK, Directory

\* Steps keep the types of the variables.
LEMMA TypeStep == IInv /\ [Next]_vars => TypeOK'
<1> SUFFICES ASSUME IInv, [Next]_vars PROVE TypeOK'
  OBVIOUS
<1> USE DEF IInv, TypeOK, Allocated,
           Goto, Call, Crash, KeepTheRest, files, module
<1>1. CASE Invoke
  BY <1>1, Contents DEF Invoke
<1>2. CASE Edit
  BY <1>2, MaxVersionAssumption DEF Edit
<1>3. CASE InitBackend
  BY <1>3 DEF InitBackend
<1>4. CASE ImplTypes
  BY <1>4 DEF ImplTypes
<1>5. CASE ImplGlobalVariables
  BY <1>5 DEF ImplGlobalVariables
<1>6. ASSUME NEW f \in Function, ImplFunctionType(f) PROVE TypeOK'
  BY <1>6 DEF ImplFunctionType
<1>7. CASE FunctionTypesDone
  BY <1>7 DEF FunctionTypesDone
<1>8. ASSUME NEW f \in Function, ImplFunction(f) PROVE TypeOK'
  BY <1>8 DEF ImplFunction, LeftBy
<1>9. CASE FunctionsDone
  BY <1>9 DEF FunctionsDone
<1>10. CASE Verify
  BY <1>10 DEF Verify
<1>11. CASE CreateTarget
  BY <1>11 DEF CreateTarget
<1>12. CASE ExportObject
  <2>1. archive' \in [Directory -> Content]
    BY <1>12, Contents DEF ExportObject, EmitToFile
  <2>2. live' \subseteq Allocated
    BY <1>12 DEF ExportObject, Allocated
  <2> QED
    BY <1>12, <2>1, <2>2 DEF ExportObject
<1>13. CASE ExportIR
  BY <1>13 DEF ExportIR
<1>14. CASE CreateLinkConfig
  BY <1>14, FoundContent, Contents DEF CreateLinkConfig
<1>15. CASE Link
  BY <1>15 DEF Link
<1>16. CASE Dispose
  BY <1>16 DEF Dispose
<1>17. CASE Return
  BY <1>17 DEF Return
<1>18. CASE UNCHANGED vars
  BY <1>18 DEF vars
<1> QED
  BY <1>1, <1>2, <1>3, <1>4, <1>5, <1>6, <1>7, <1>8, <1>9,
     <1>10, <1>11, <1>12, <1>13, <1>14, <1>15, <1>16, <1>17, <1>18 DEF Next, Step

\* Each stage has allocated what the ones before it did.
LEMMA LiveStep == IInv /\ [Next]_vars => (LiveAt /\ ReleasedAtEnd)'
<1> SUFFICES ASSUME IInv, [Next]_vars PROVE (LiveAt /\ ReleasedAtEnd)'
  OBVIOUS
<1> USE DEF IInv, LiveAt, ReleasedAtEnd, StatusAt, Building, Leaked, FunctionLeft, TypeOK,
           Success, Failed,
           Goto, Call, Crash, KeepTheRest, files, module
<1>1. CASE Invoke
  BY <1>1 DEF Invoke
<1>2. CASE Edit
  BY <1>2 DEF Edit
<1>3. CASE InitBackend
  BY <1>3 DEF InitBackend
<1>4. CASE ImplTypes
  BY <1>4 DEF ImplTypes
<1>5. CASE ImplGlobalVariables
  BY <1>5 DEF ImplGlobalVariables
<1>6. ASSUME NEW f \in Function, ImplFunctionType(f) PROVE (LiveAt /\ ReleasedAtEnd)'
  BY <1>6 DEF ImplFunctionType
<1>7. CASE FunctionTypesDone
  BY <1>7 DEF FunctionTypesDone
<1>8. ASSUME NEW f \in Function, ImplFunction(f) PROVE (LiveAt /\ ReleasedAtEnd)'
  <2>1. pc = "functions" /\ live = {"unit", "scope"} /\ ~emitFailed /\ status = "none"
    BY <1>8 DEF ImplFunction, ObjectAt, Before
  <2>2. CASE Crash
    BY <2>2
  <2>3. CASE pc' = pc /\ UNCHANGED <<live, emitFailed, status>>
    BY <2>1, <2>3
  <2>4. CASE /\ functions[f].kind = "definition"
             /\ live' = live \cup LeftBy(functions[f].flaw)
             /\ pc' = "dispose" /\ err' = Failed
             /\ UNCHANGED <<functions, built, emitFailed, status>>
             /\ f \notin built
    BY <2>1, <2>4
  <2>5. f \notin built
    BY <1>8 DEF ImplFunction, BuiltAt
  <2> QED
    BY <1>8, <2>1, <2>2, <2>3, <2>4, <2>5 DEF ImplFunction
<1>9. CASE FunctionsDone
  BY <1>9 DEF FunctionsDone
<1>10. CASE Verify
  BY <1>10 DEF Verify
<1>11. CASE CreateTarget
  BY <1>11 DEF CreateTarget
<1>12. CASE ExportObject
  BY <1>12 DEF ExportObject, EmitToFile
<1>13. CASE ExportIR
  BY <1>13 DEF ExportIR
<1>14. CASE CreateLinkConfig
  BY <1>14 DEF CreateLinkConfig
<1>15. CASE Link
  BY <1>15 DEF Link
<1>16. CASE Dispose
  <2>1. /\ pc = "dispose" /\ pc' = "exit" /\ live' = live \ {"target", "scope", "unit"}
        /\ UNCHANGED <<functions, built, err, emitFailed, status>>
    BY <1>16 DEF Dispose
  <2>2. CASE err = Failed /\ FunctionLeft({"unit", "scope"})
    <3>1. FunctionLeft({})'
      BY <2>1, <2>2 DEF LeftBy
    <3> QED
      BY <2>1, <2>2, <3>1
  <2>3. CASE live \subseteq {"unit", "scope", "target"} \cup Leaked
                               \cup (IF err = Failed THEN {"command"} ELSE {})
    BY <2>1, <2>3
  <2> QED
    BY <2>1, <2>2, <2>3
<1>17. CASE Return
  BY <1>17 DEF Return
<1>18. CASE UNCHANGED vars
  BY <1>18 DEF vars
<1> QED
  BY <1>1, <1>2, <1>3, <1>4, <1>5, <1>6, <1>7, <1>8, <1>9,
     <1>10, <1>11, <1>12, <1>13, <1>14, <1>15, <1>16, <1>17, <1>18 DEF Next, Step

\* A run that goes on has no status.
LEMMA StatusStep == IInv /\ [Next]_vars => StatusAt'
<1> SUFFICES ASSUME IInv, [Next]_vars PROVE StatusAt'
  OBVIOUS
<1> USE DEF IInv, StatusAt,
           Goto, Call, Crash, KeepTheRest, files, module
<1>1. CASE Invoke
  BY <1>1 DEF Invoke
<1>2. CASE Edit
  BY <1>2 DEF Edit
<1>3. CASE InitBackend
  BY <1>3 DEF InitBackend
<1>4. CASE ImplTypes
  BY <1>4 DEF ImplTypes
<1>5. CASE ImplGlobalVariables
  BY <1>5 DEF ImplGlobalVariables
<1>6. ASSUME NEW f \in Function, ImplFunctionType(f) PROVE StatusAt'
  BY <1>6 DEF ImplFunctionType
<1>7. CASE FunctionTypesDone
  BY <1>7 DEF FunctionTypesDone
<1>8. ASSUME NEW f \in Function, ImplFunction(f) PROVE StatusAt'
  BY <1>8 DEF ImplFunction
<1>9. CASE FunctionsDone
  BY <1>9 DEF FunctionsDone
<1>10. CASE Verify
  BY <1>10 DEF Verify
<1>11. CASE CreateTarget
  BY <1>11 DEF CreateTarget
<1>12. CASE ExportObject
  BY <1>12 DEF ExportObject
<1>13. CASE ExportIR
  BY <1>13 DEF ExportIR
<1>14. CASE CreateLinkConfig
  BY <1>14 DEF CreateLinkConfig
<1>15. CASE Link
  BY <1>15 DEF Link
<1>16. CASE Dispose
  BY <1>16 DEF Dispose
<1>17. CASE Return
  BY <1>17 DEF Return
<1>18. CASE UNCHANGED vars
  BY <1>18 DEF vars
<1> QED
  BY <1>1, <1>2, <1>3, <1>4, <1>5, <1>6, <1>7, <1>8, <1>9,
     <1>10, <1>11, <1>12, <1>13, <1>14, <1>15, <1>16, <1>17, <1>18 DEF Next, Step

\* What the loops over the functions and the verifier find out.
LEMMA BuiltStep == IInv /\ [Next]_vars => BuiltAt'
<1> SUFFICES ASSUME IInv, [Next]_vars PROVE BuiltAt'
  OBVIOUS
<1> USE DEF IInv, BuiltAt, Implemented, Flawless, TypeOK, Functions,
           Goto, Call, Crash, KeepTheRest, files, module
<1>1. CASE Invoke
  BY <1>1 DEF Invoke
<1>2. CASE Edit
  BY <1>2 DEF Edit
<1>3. CASE InitBackend
  BY <1>3 DEF InitBackend
<1>4. CASE ImplTypes
  BY <1>4 DEF ImplTypes
<1>5. CASE ImplGlobalVariables
  BY <1>5 DEF ImplGlobalVariables
<1>6. ASSUME NEW f \in Function, ImplFunctionType(f) PROVE BuiltAt'
  BY <1>6 DEF ImplFunctionType
<1>7. CASE FunctionTypesDone
  BY <1>7 DEF FunctionTypesDone
<1>8. ASSUME NEW f \in Function, ImplFunction(f) PROVE BuiltAt'
  BY <1>8 DEF ImplFunction
<1>9. CASE FunctionsDone
  BY <1>9 DEF FunctionsDone
<1>10. CASE Verify
  BY <1>10 DEF Verify
<1>11. CASE CreateTarget
  BY <1>11 DEF CreateTarget
<1>12. CASE ExportObject
  BY <1>12 DEF ExportObject
<1>13. CASE ExportIR
  BY <1>13 DEF ExportIR
<1>14. CASE CreateLinkConfig
  BY <1>14 DEF CreateLinkConfig
<1>15. CASE Link
  BY <1>15 DEF Link
<1>16. CASE Dispose
  BY <1>16 DEF Dispose
<1>17. CASE Return
  BY <1>17 DEF Return
<1>18. CASE UNCHANGED vars
  BY <1>18 DEF vars
<1> QED
  BY <1>1, <1>2, <1>3, <1>4, <1>5, <1>6, <1>7, <1>8, <1>9,
     <1>10, <1>11, <1>12, <1>13, <1>14, <1>15, <1>16, <1>17, <1>18 DEF Next, Step

\* The object file of this run, from the archive to the binary.
LEMMA ObjectStep == IInv /\ [Next]_vars => (ObjectAt /\ StaleOnlyAfterFailedEmission)'
<1> SUFFICES ASSUME IInv, [Next]_vars PROVE (ObjectAt /\ StaleOnlyAfterFailedEmission)'
  OBVIOUS
<1> USE DEF IInv, ObjectAt, StaleOnlyAfterFailedEmission, Before, Building, StatusAt,
           Success, Failed,
           Goto, Call, Crash, KeepTheRest, files, module
<1>1. CASE Invoke
  BY <1>1 DEF Invoke
<1>2. CASE Edit
  BY <1>2 DEF Edit
<1>3. CASE InitBackend
  BY <1>3 DEF InitBackend
<1>4. CASE ImplTypes
  BY <1>4 DEF ImplTypes
<1>5. CASE ImplGlobalVariables
  <2>1. CASE Crash
    BY <2>1
  <2>2. CASE UNCHANGED <<archive, version, output, status, objects, emitFailed>>
    BY <1>5, <2>2 DEF ImplGlobalVariables
  <2> QED
    BY <1>5, <2>1, <2>2 DEF ImplGlobalVariables
<1>6. ASSUME NEW f \in Function, ImplFunctionType(f) PROVE (ObjectAt /\ StaleOnlyAfterFailedEmission)'
  BY <1>6 DEF ImplFunctionType
<1>7. CASE FunctionTypesDone
  BY <1>7 DEF FunctionTypesDone
<1>8. ASSUME NEW f \in Function, ImplFunction(f) PROVE (ObjectAt /\ StaleOnlyAfterFailedEmission)'
  <2>1. CASE Crash
    BY <2>1
  <2>2. CASE UNCHANGED <<archive, version, output, status, objects, emitFailed>>
    BY <1>8, <2>2 DEF ImplFunction
  <2> QED
    BY <1>8, <2>1, <2>2 DEF ImplFunction
<1>9. CASE FunctionsDone
  BY <1>9 DEF FunctionsDone
<1>10. CASE Verify
  BY <1>10 DEF Verify
<1>11. CASE CreateTarget
  <2>1. CASE Crash
    BY <2>1
  <2>2. CASE UNCHANGED <<archive, version, output, status, objects, emitFailed>>
    BY <1>11, <2>2 DEF CreateTarget
  <2> QED
    BY <1>11, <2>1, <2>2 DEF CreateTarget
<1>12. CASE ExportObject
  <2>1. ~emitFailed' => archive'[Cwd] = version
    BY <1>12, Contents DEF ExportObject, EmitToFile, TypeOK
  <2> QED
    BY <1>12, <2>1 DEF ExportObject
<1>13. CASE ExportIR
  BY <1>13 DEF ExportIR
<1>14. CASE CreateLinkConfig
  <2>1. archive[Cwd] = version => Found = {version}
    BY Contents DEF Found, TypeOK
  <2> QED
    BY <1>14, <2>1 DEF CreateLinkConfig
<1>15. CASE Link
  BY <1>15 DEF Link
<1>16. CASE Dispose
  BY <1>16 DEF Dispose
<1>17. CASE Return
  BY <1>17 DEF Return
<1>18. CASE UNCHANGED vars
  BY <1>18 DEF vars
<1> QED
  BY <1>1, <1>2, <1>3, <1>4, <1>5, <1>6, <1>7, <1>8, <1>9,
     <1>10, <1>11, <1>12, <1>13, <1>14, <1>15, <1>16, <1>17, <1>18 DEF Next, Step

-----------------------------------------------------------------------------
(* The theorems.                                                           *)

\* In every reachable state each stage finds what it relies on.
LEMMA Invariance == Spec => []IInv
<1>1. IInv /\ [Next]_vars => IInv'
  BY TypeStep, LiveStep, StatusStep, BuiltStep, ObjectStep DEF IInv
<1> QED
  BY <1>1, InitIInv, PTL DEF Spec

\* The variables have their types: no run of the compiler leaves anything
\* else in an archive than an object file, whole or broken.
THEOREM TypeCorrect == Spec => []TypeOK
<1>1. IInv => TypeOK
  BY DEF IInv
<1> QED
  BY <1>1, Invariance, PTL

\* A run that reports success has linked what it compiled, whatever earlier
\* runs and other projects left in the archives, unless LLVM could not write
\* the object file: run_backend_codegen has no other way to a stale binary.
THEOREM StaleOnly == Spec => []StaleOnlyAfterFailedEmission
<1>1. IInv => StaleOnlyAfterFailedEmission
  BY DEF IInv
<1> QED
  BY <1>1, Invariance, PTL

\* Each path through parse_module that returns releases what it allocated,
\* but for what one failed call leaves: the builder and a table of a function,
\* or the message or machine of the export and the command of the driver.
THEOREM Released == Spec => []ReleasedAtEnd
<1>1. IInv => ReleasedAtEnd
  BY DEF IInv
<1> QED
  BY <1>1, Invariance, PTL

\* An archive changes only when every function has its body and its type,
\* although impl_function_types forgets errors: what it lets through comes to
\* impl_func_def or to the verifier.
THEOREM NothingFlawed == Spec => NothingFlawedIsEmitted
<1> DEFINE Emission == archive' # archive =>
      \A f \in Function : functions[f].kind = "definition" =>
        f \in built /\ functions[f].flaw = "none"
<1>1. ASSUME IInv, [Next]_vars, archive' # archive PROVE ExportObject
  BY <1>1 DEF Next, Step, vars, Edit, Invoke, InitBackend, ImplTypes,
     ImplGlobalVariables, ImplFunctionType, FunctionTypesDone, ImplFunction,
     FunctionsDone, Verify, CreateTarget, ExportIR, CreateLinkConfig, Link, Dispose,
     Return, Crash, KeepTheRest, files
<1>2. IInv /\ ExportObject => Flawless
  BY DEF IInv, BuiltAt, ExportObject
<1>3. IInv /\ [Next]_vars => [Emission]_vars
  BY <1>1, <1>2 DEF Flawless
<1> QED
  BY <1>3, Invariance, PTL DEF Spec, NothingFlawedIsEmitted
=============================================================================
