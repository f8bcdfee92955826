------------------------------- MODULE Backend -------------------------------
(***************************************************************************)
(* The LLVM backend from a module to a binary: run_backend_codegen of      *)
(* src/src/compiler.c, parse_module and what it calls in                   *)
(* src/src/llvm/parser.c, src/src/llvm/llvm-ir/func.c and variables.c, and *)
(* the link step of src/src/llvm/link/lld.c, src/src/link.                 *)
(*                                                                         *)
(* The files outlive a run of the compiler, which is started again and     *)
(* again on sources that change in between.  A file is the version of the  *)
(* sources that it was made from.  What a configuration says is asked once *)
(* in a run and therefore chosen where it is asked, and so is whether a    *)
(* call of LLVM, of the file system or of the driver fails.                *)
(***************************************************************************)
EXTENDS Naturals, Sequences, FiniteSets

CONSTANTS
  Function,    \* names of functions
  LinkPath,    \* directories of the configuration besides the working one
  MaxVersion   \* bound: versions of the sources

ASSUME MaxVersionAssumption == MaxVersion \in Nat \ {0}

VARIABLES
  version,    \* of the sources
  archive,    \* directory -> the object file of this name in its archive
  output,     \* the binary
  pc,         \* the next call of parse_module
  functions,  \* module->functions: name -> what they are, and what is wrong
  pending,    \* the functions that the loop has not come to
  built,      \* the functions with a body in the LLVM module
  err,        \* the error of the last call, as its caller sees it
  live,       \* what has been allocated and not released
  objects,    \* object_file_names of the link configuration
  emitFailed, \* history: LLVM could not write the object file in this run
  status      \* the result of the last run

vars == <<version, archive, output, pc, functions, pending, built, err, live,
          objects, emitFailed, status>>
files == <<version, archive, output>>
module == <<functions, built>>

Cwd       == "."
Directory == {Cwd} \cup LinkPath
NoFile    == 0
Broken    == MaxVersion + 1        \* a file that LLVM gave up
Foreign   == MaxVersion + 2        \* the object file of another project
Content   == 0 .. Foreign

\* A function is a declaration or has a body; LLVM has no type for one of its
\* parameters or for its result, or its body cannot be translated.
FunctionKind == {"declaration", "definition"}
Flaw         == {"none", "parameter", "return", "body"}
Functions    == [Function -> [kind : FunctionKind, flaw : Flaw]]

\* What parse_module and its callees take from LLVM, the C library and GLib:
\* of a function the builder, the table of its parameters and the scope of its
\* block, of the export the machine and LLVM's message.
Allocated == {"unit", "scope", "builder", "params", "blocks", "target", "machine",
              "message", "config", "command"}

Success == "Success"
Failed  == "Implementation"

TypeOK ==
  /\ version \in 1 .. MaxVersion
  /\ archive \in [Directory -> Content] /\ output \in Content
  /\ pc \in {"idle", "init", "types", "variables", "function types", "functions",
             "verify", "target", "object", "ir", "link config", "link", "dispose",
             "exit"}
  /\ functions \in Functions
  /\ pending \subseteq Function /\ built \subseteq Function
  /\ err \in {Success, Failed}
  /\ live \subseteq Allocated
  /\ objects \in Content /\ emitFailed \in BOOLEAN
  /\ status \in {"none", "success", "failure", "crashed"}

-----------------------------------------------------------------------------
\* A step of parse_module that goes to the call l with the error e.
Goto(l, e) == pc' = l /\ err' = e
\* The call returns without error, to l, or with one, to where that leads.
Call(l, onError) == \/ Goto(l, Success)
                    \/ Goto(onError, Failed)
\* The process ends at once.
Crash ==
  /\ status' = "crashed" /\ pc' = "idle" /\ live' = {}
  /\ UNCHANGED <<files, module, pending, err, objects, emitFailed>>
KeepTheRest == UNCHANGED <<files, status>>

\* The compiler is started: sources of any quality came through the analysis.
Invoke ==
  /\ pc = "idle"
  /\ status' = "none"
  /\ functions' \in Functions
  /\ built' = {} /\ pending' = {}
  /\ live' = {}
  /\ objects' = NoFile /\ emitFailed' = FALSE
  /\ Goto("init", Success)
  /\ UNCHANGED files

Edit ==
  /\ pc = "idle" /\ version < MaxVersion
  /\ version' = version + 1
  /\ status' = "none"
  /\ UNCHANGED <<archive, output, pc, functions, pending, built, err, live, objects,
                 emitFailed>>

\* llvm_backend_init, init_backend, generate_code and the head of
\* parse_module: nothing of it fails.
InitBackend ==
  /\ pc = "init"
  /\ live' = {"unit", "scope"}
  /\ Goto("types", Success)
  /\ UNCHANGED <<module, pending, objects, emitFailed>> /\ KeepTheRest

\* build_module: impl_types, for types and for boxes.
ImplTypes ==
  /\ pc = "types"
  /\ Call("variables", "dispose")
  /\ UNCHANGED <<module, pending, live, objects, emitFailed>> /\ KeepTheRest

\* impl_global_variables, which stops at the first that fails.  An initializer
\* is read as a constant whatever it is.
ImplGlobalVariables ==
  /\ pc = "variables"
  /\ \/ Crash
     \/ /\ Call("function types", "dispose")
        /\ pending' = Function
        /\ UNCHANGED <<module, live, objects, emitFailed>> /\ KeepTheRest

\* One round of impl_function_types: the error replaces the one before.
ImplFunctionType(f) ==
  /\ pc = "function types" /\ f \in pending
  /\ pending' = pending \ {f}
  /\ Goto(pc, IF functions[f].flaw \in {"parameter", "return"} THEN Failed ELSE Success)
  /\ UNCHANGED <<module, live, objects, emitFailed>> /\ KeepTheRest

\* Its caller sees the error of the function that came last.
FunctionTypesDone ==
  /\ pc = "function types" /\ pending = {}
  /\ IF err = Success THEN pc' = "functions" /\ pending' = Function
                      ELSE pc' = "dispose" /\ UNCHANGED pending
  /\ UNCHANGED <<err, module, live, objects, emitFailed>> /\ KeepTheRest

\* Mutant of ImplFunction: an error does not end the loop, as in
\* impl_function_types.
ImplFunctionGoesOn(f) ==
  /\ pc = "functions" /\ f \in pending
  /\ pending' = pending \ {f}
  /\ built' = IF functions[f].flaw \in {"none", "return"} THEN built \cup {f} ELSE built
  /\ Goto(pc, Success)
  /\ UNCHANGED <<functions, live, objects, emitFailed>> /\ KeepTheRest

\* What impl_func_def leaves behind when it fails: the builder, which only a
\* finished body disposes, and either the scope of the block in which a
\* statement failed or, after the body, the table of the parameters.
LeftBy(flaw) == {"builder"} \cup (IF flaw = "body" THEN {"blocks"} ELSE {"params"})

\* One round of impl_functions with impl_func_def.  A function that has a
\* parameter without a type was not added to the module: its NULL pointer is
\* asked for a parameter.  A result without a type is asked for a default
\* value at the end of the body; when the body does not come to its end, the
\* error is left to the verifier.
ImplFunction(f) ==
  /\ pc = "functions" /\ f \in pending
  /\ LET defined == functions[f].kind = "definition"
         flaw    == functions[f].flaw
     IN \/ defined /\ flaw = "parameter" /\ Crash
        \/ /\ defined => flaw \in {"none", "return"}
           /\ built' = IF defined THEN built \cup {f} ELSE built
           /\ pending' = pending \ {f}
           /\ Goto(pc, Success)
           /\ UNCHANGED <<functions, live, objects, emitFailed>> /\ KeepTheRest
        \/ /\ defined /\ flaw \in {"body", "return"}
           /\ live' = live \cup LeftBy(flaw)
           /\ pending' = pending \ {f}
           /\ Goto("dispose", Failed)
           /\ UNCHANGED <<module, objects, emitFailed>> /\ KeepTheRest

FunctionsDone ==
  /\ pc = "functions" /\ pending = {}
  /\ Goto("verify", Success)
  /\ UNCHANGED <<module, pending, live, objects, emitFailed>> /\ KeepTheRest

\* LLVMVerifyModule: a body whose result has no type is found out, and there
\* may be anything else.
Verify ==
  /\ pc = "verify"
  /\ \/ Goto("dispose", Failed)
     \/ /\ \A f \in built : functions[f].flaw = "none"
        /\ Goto("target", Success)
  /\ UNCHANGED <<module, pending, live, objects, emitFailed>> /\ KeepTheRest

\* create_target_from_config: an optimization level out of 1 to 3, which no
\* reader of a configuration checks, is the end of the compiler.
CreateTarget ==
  /\ pc = "target"
  /\ \/ Crash
     \/ /\ live' = live \cup {"target"}
        /\ Goto("object", Success)
        /\ UNCHANGED <<module, pending, objects, emitFailed>> /\ KeepTheRest

\* LLVMTargetMachineEmitToFile: the file could not be opened, or not written.
EmitToFile(e) ==
  IF e = Success THEN archive' = [archive EXCEPT ![Cwd] = version]
  ELSE \E c \in {archive[Cwd], Broken} : archive' = [archive EXCEPT ![Cwd] = c]

\* export_module with export_object: no machine for the target, whose message
\* leaks, an assembly file that fails, with which the machine leaks, or the
\* object file.
\* export_module does not look at the error.
ExportObject ==
  /\ pc = "object"
  /\ Goto("ir", Success)
  /\ \/ /\ emitFailed' = TRUE
        /\ \E left \in {"message", "machine"} : live' = live \cup {left}
        /\ UNCHANGED archive
     \/ \E e \in {Success, Failed} :
          /\ EmitToFile(e)
          /\ emitFailed' = (e = Failed)
          /\ UNCHANGED <<live>>
  /\ UNCHANGED <<version, output, status, module, pending, objects>>

\* export_IR, when it is asked for: after an error of fopen it writes to the
\* NULL pointer.  Afterwards parse_module asks for the mode.
ExportIR ==
  /\ pc = "ir"
  /\ \/ Crash
     \/ /\ \E l \in {"link config", "dispose"} : Goto(l, Success)
        /\ UNCHANGED <<module, pending, live, objects, emitFailed>> /\ KeepTheRest

\* Mutant of Found: the working directory is searched last.
FoundLast ==
  LET other == {archive[d] : d \in LinkPath} \ {NoFile} IN
  IF other = {} THEN {archive[Cwd]} ELSE other

\* get_absolute_link_path for archive/<name>.o: the working directory is the
\* first search path, then the others.
Found ==
  IF archive[Cwd] # NoFile THEN {archive[Cwd]}
  ELSE LET other == {archive[d] : d \in LinkPath} \ {NoFile} IN
       IF other = {} THEN {NoFile} ELSE other

\* lld_create_link_config.  Without the object the name of the file is freed
\* twice.  Without the library of an import the configuration is deleted
\* twice: the second time its memory is asked for the pointer to free, which
\* the cache does not know.
CreateLinkConfig ==
  /\ pc = "link config"
  /\ \/ \E o \in Found \ {NoFile} :
          /\ objects' = o
          /\ live' = live \cup {"config"}
          /\ Goto("link", Success)
          /\ UNCHANGED <<module, pending, emitFailed>> /\ KeepTheRest
     \/ NoFile \in Found /\ Crash
     \/ /\ Goto("dispose", Failed)
        /\ UNCHANGED <<module, pending, live, objects, emitFailed>> /\ KeepTheRest

\* lld_link_target, link_run and the link function of the driver, which leaks
\* its command when that fails; then lld_delete_link_config.
Link ==
  /\ pc = "link"
  /\ \/ /\ objects # Broken
        /\ output' = objects
        /\ live' = live \ {"config"}
        /\ Goto("dispose", Success)
     \/ /\ \/ live' = (live \ {"config"}) \cup {"command"}
           \/ live' = live \ {"config"}   \* the driver is not known
        /\ Goto("dispose", Failed)
        /\ UNCHANGED output
  /\ UNCHANGED <<version, archive, module, pending, objects, emitFailed, status>>

\* Mutant of Dispose: the early return that the other functions have.
DisposeOnSuccess ==
  /\ pc = "dispose"
  /\ live' = IF err = Success THEN live \ {"target", "scope", "unit"} ELSE live
  /\ pc' = "exit" /\ UNCHANGED err
  /\ UNCHANGED <<module, pending, objects, emitFailed>> /\ KeepTheRest

\* The end of parse_module.
Dispose ==
  /\ pc = "dispose"
  /\ live' = live \ {"target", "scope", "unit"}
  /\ pc' = "exit" /\ UNCHANGED err
  /\ UNCHANGED <<module, pending, objects, emitFailed>> /\ KeepTheRest

\* Mutant of Return: the kind of the error for the exit code.
ReturnKind ==
  /\ pc = "exit"
  /\ status' = err
  /\ pc' = "idle"
  /\ UNCHANGED <<files, module, pending, err, live, objects, emitFailed>>

\* The end of run_backend_codegen; deinit_backend does not fail.
Return ==
  /\ pc = "exit"
  /\ status' = IF err = Success THEN "success" ELSE "failure"
  /\ pc' = "idle"
  /\ UNCHANGED <<files, module, pending, err, live, objects, emitFailed>>

-----------------------------------------------------------------------------
\* Archives of other projects may hold a file of the same name.
Init ==
  /\ version = 1
  /\ archive \in [Directory -> {NoFile, Foreign}] /\ archive[Cwd] = NoFile
  /\ output = NoFile
  /\ pc = "idle" /\ status = "none" /\ err = Success
  /\ functions = [f \in Function |-> [kind |-> "declaration", flaw |-> "none"]]
  /\ pending = {} /\ built = {} /\ live = {}
  /\ objects = NoFile /\ emitFailed = FALSE

Step ==
  \/ InitBackend
  \/ ImplTypes
  \/ ImplGlobalVariables
  \/ \E f \in Function : ImplFunctionType(f)
  \/ FunctionTypesDone
  \/ \E f \in Function : ImplFunction(f)
  \/ FunctionsDone
  \/ Verify
  \/ CreateTarget
  \/ ExportObject
  \/ ExportIR
  \/ CreateLinkConfig
  \/ Link
  \/ Dispose
  \/ Return

Next == Edit \/ Invoke \/ Step

Spec == Init /\ [][Next]_vars
-----------------------------------------------------------------------------
(* Properties.                                                             *)

\* A run that reports success and links has linked what it compiled, and not
\* what an earlier run or another project left in an archive, unless LLVM
\* could not write the object file in this run: the error that export_module
\* drops is the only way for a stale object into a binary.
StaleOnlyAfterFailedEmission ==
  status = "success" /\ objects # NoFile /\ ~emitFailed => output = version

\* Nothing is written to the archive of a module in which the body of a
\* function is missing or has a part without a type, although
\* impl_function_types forgets the errors of all functions but one.
NothingFlawedIsEmitted ==
  [][archive' # archive =>
       \A f \in Function : functions[f].kind = "definition" =>
         f \in built /\ functions[f].flaw = "none"]_vars

\* A run that returns leaves nothing allocated but what one failed call did:
\* the function whose translation failed, its builder and a table, after which
\* nothing else can have failed; or an export that failed, the message or the
\* machine, and a driver that failed, its command.  In particular a run that
\* wrote its object file and succeeds leaves nothing.
ReleasedAtEnd ==
  status \in {"success", "failure"} =>
    \/ /\ status = "failure" /\ ~emitFailed
       /\ \E f \in Function \ built :
            functions[f].kind = "definition" /\ live = LeftBy(functions[f].flaw)
    \/ live \subseteq (IF emitFailed THEN {"message", "machine"} ELSE {})
                        \cup (IF status = "failure" THEN {"command"} ELSE {})
=============================================================================
