------------------------------- MODULE Driver -------------------------------
(***************************************************************************)
(* The compiler driver, src/src/compiler.c: run_compiler builds the        *)
(* targets of a project, or one file, one after another; each target loads *)
(* its root module with everything it imports into one tree, which goes    *)
(* through semantic analysis and the backend.  With it the stack of source *)
(* files of src/src/io/files.c, shared by all targets.                     *)
(*                                                                         *)
(* A source file is the sequence of the names it imports, followed by its  *)
(* own declarations, which are one node here.  The parser is external: it  *)
(* accepts a file or does not.  So are directories, semantic analysis and  *)
(* code generation, which succeed or fail.                                 *)
(***************************************************************************)
EXTENDS Naturals, Sequences, FiniteSets

CONSTANTS
  Dir,         \* directories
  Cwd,         \* the one the compiler runs in
  Path,        \* canonical paths of files
  ImportName,  \* names in imports, which may have directories of their own
  PathIn,      \* the canonical path of a name in a directory
  DirOf,       \* the directory of a path, which may be none of the import paths
  Target,      \* names of targets that a build.toml or a command line may have
  Fault,       \* what may be wrong with a file: a subset of FileFaults
  MaxImports   \* bound: imports in a file

FileFaults == {"unreadable", "syntax"}
NoPath == <<>>
ASSUME CwdAssumption == Cwd \in Dir
ASSUME PathAssumption ==
  /\ NoPath \notin Path
  /\ PathIn \in [Dir -> [ImportName -> Path]]
  /\ DirOf \in [Path -> Dir]
ASSUME FaultAssumption == Fault \subseteq FileFaults /\ MaxImports \in Nat

VARIABLES
  tree,         \* the file system: path -> a file, or NoFile
  root,         \* target -> TargetConfig.root_module
  importPaths,  \* target -> TargetConfig.import_paths
  known,        \* the targets that the project has
  mode,         \* "build", "compile" or "none" on the command line
  pc,           \* where run_compiler is
  queue,        \* targets that are still to be built
  target,       \* the one that is being built
  children,     \* its root_module->children
  i,            \* the loop variable of compile_module_with_dependencies
  imports,      \* its table of imported paths
  files,        \* the file stack: path and whether a handle is open
  err,          \* the return value so far
  failed        \* history: the targets that could not be built

vars == <<tree, root, importPaths, known, mode, pc, queue, target, children, i,
          imports, files, err, failed>>
command == <<tree, root, known, mode>>

NoFile == [imports |-> <<>>, fault |-> "absent"]
File   == [imports : UNION {[1 .. k -> ImportName] : k \in 0 .. MaxImports},
           fault   : Fault \cup {"none"}]

EXIT_SUCCESS == 0
EXIT_FAILURE == 1

\* The nodes that a file adds to a module.
ImportNode(n) == [kind |-> "AST_Import", value |-> n]
DeclNode(p)   == [kind |-> "declarations", value |-> p]
Nodes(p) == [k \in DOMAIN tree[p].imports |-> ImportNode(tree[p].imports[k])]
              \o <<DeclNode(p)>>

\* get_absolute_import_path: the canonical path in the first import path that
\* has the file.  Several names may lead to one file.
PathsTo(n) ==
  {k \in DOMAIN importPaths[target] : tree[PathIn[importPaths[target][k]][n]] # NoFile}
Resolved(n) ==
  IF PathsTo(n) = {} THEN NoPath
  ELSE PathIn[importPaths[target][CHOOSE k \in PathsTo(n) : \A l \in PathsTo(n) : k <= l]][n]

\* A child that asks for a file which is not loaded yet.
Unresolved(child) ==
  child.kind = "AST_Import" /\ Resolved(child.value) \notin imports

\* push_file, and the fopen of compile_file_to_ast.
PushAndOpen(p) ==
  files' = Append(files, [path |-> p, open |-> tree[p].fault \notin {"absent", "unreadable"}])
Parses(p) == tree[p].fault = "none"

\* Mutants of MergeAfter: the nodes go to the end; they replace one.
MergeAfterAppends(k, nodes) == children \o nodes
MergeAfterOverwrites(k, nodes) ==
  SubSeq(children, 1, k) \o nodes \o SubSeq(children, k + 2, Len(children))

\* AST_merge_modules after child k.
MergeAfter(k, nodes) ==
  SubSeq(children, 1, k) \o nodes \o SubSeq(children, k + 1, Len(children))

-----------------------------------------------------------------------------
Init ==
  /\ tree \in [Path -> File \cup {NoFile}]
  /\ root \in [Target -> Path]
  /\ importPaths \in [Target -> {<<Cwd>>} \cup {<<Cwd, d>> : d \in Dir \ {Cwd}}]
  /\ known \in SUBSET Target
  /\ mode \in {"build", "compile", "none"}
  /\ pc = "start"
  /\ queue = {} /\ target = "none"
  /\ children = <<>> /\ i = 0 /\ imports = {}
  /\ files = <<>>
  /\ err = EXIT_SUCCESS
  /\ failed = {}

NoTargetState == /\ target' = "none" /\ children' = <<>> /\ i' = 0 /\ imports' = {}

\* build_project with a list of targets, or with "all" of the project's.
BuildProject(ts) ==
  /\ pc = "start" /\ mode = "build"
  /\ queue' = ts
  /\ pc' = "targets"
  /\ UNCHANGED <<command, importPaths, target, children, i, imports, files, err, failed>>

\* load_project_config fails.
LoadProjectFails ==
  /\ pc = "start" /\ mode = "build"
  /\ err' = EXIT_FAILURE
  /\ pc' = "report"
  /\ UNCHANGED <<command, importPaths, queue, target, children, i, imports, files, failed>>

\* compile_file: one target made of the command line, or no input file.
CompileFile(t) ==
  /\ pc = "start" /\ mode = "compile"
  /\ t \in known
  /\ queue' = {t}
  /\ pc' = "targets"
  /\ UNCHANGED <<command, importPaths, target, children, i, imports, files, err, failed>>

CompileNothing ==
  /\ pc = "start" /\ mode = "compile"
  /\ err' = EXIT_FAILURE
  /\ pc' = "report"
  /\ UNCHANGED <<command, importPaths, queue, target, children, i, imports, files, failed>>

\* run_compiler without a mode.
InvalidMode ==
  /\ pc = "start" /\ mode = "none"
  /\ pc' = "report"
  /\ UNCHANGED <<command, importPaths, queue, target, children, i, imports, files, err, failed>>

\* A name that the project does not have: a message.
UnknownTarget(t) ==
  /\ pc = "targets"
  /\ t \in queue \ known
  /\ queue' = queue \ {t}
  /\ failed' = failed \cup {t}
  /\ UNCHANGED <<command, importPaths, pc, target, children, i, imports, files, err>>

\* Mutant of FinishTarget: the result is not returned.
FinishTargetForgets(e) ==
  /\ pc' = "targets"
  /\ err' = err
  /\ failed' = IF e = EXIT_SUCCESS THEN failed ELSE failed \cup {target}
  /\ NoTargetState

\* The end of build_target with result e: purge the namespaces.
FinishTarget(e) ==
  /\ pc' = "targets"
  /\ err' = e
  /\ failed' = IF e = EXIT_SUCCESS THEN failed ELSE failed \cup {target}
  /\ NoTargetState

\* build_target up to the parser's verdict on the root module.
BuildTarget(t) ==
  /\ pc = "targets"
  /\ t \in queue \cap known
  /\ queue' = queue \ {t}
  /\ PushAndOpen(root[t])
  /\ IF Parses(root[t])
       THEN /\ pc' = "imports"
            /\ target' = t
            /\ children' = Nodes(root[t])
            /\ i' = 1
            /\ imports' = {}
            /\ UNCHANGED <<err, failed>>
       ELSE /\ err' = EXIT_FAILURE
            /\ failed' = failed \cup {t}
            /\ UNCHANGED <<pc, target, children, i, imports>>
  /\ UNCHANGED <<command, importPaths>>

\* Mutants of SkipChild: a double increment; continue without one.
SkipChildTwice ==
  /\ pc = "imports" /\ i <= Len(children)
  /\ ~Unresolved(children[i])
  /\ i' = i + 2
  /\ UNCHANGED <<command, importPaths, pc, queue, target, children, imports,
                 files, err, failed>>

SkipChildStays ==
  /\ pc = "imports" /\ i <= Len(children)
  /\ ~Unresolved(children[i])
  /\ i' = IF children[i].kind = "AST_Import" THEN i ELSE i + 1
  /\ UNCHANGED <<command, importPaths, pc, queue, target, children, imports,
                 files, err, failed>>

\* One turn of the loop over the children, which grow meanwhile.
SkipChild ==
  /\ pc = "imports" /\ i <= Len(children)
  /\ ~Unresolved(children[i])
  /\ i' = i + 1
  /\ UNCHANGED <<command, importPaths, pc, queue, target, children, imports,
                 files, err, failed>>

ImportNotFound ==
  /\ pc = "imports" /\ i <= Len(children)
  /\ children[i].kind = "AST_Import"
  /\ Resolved(children[i].value) = NoPath
  /\ FinishTarget(EXIT_FAILURE)
  /\ UNCHANGED <<command, importPaths, queue, files>>

\* Mutant of ImportModule: the new search path comes first.
ImportModuleFirst ==
  /\ pc = "imports" /\ i <= Len(children)
  /\ children[i].kind = "AST_Import"
  /\ LET p == Resolved(children[i].value) IN
     /\ p \notin imports \cup {NoPath}
     /\ PushAndOpen(p)
     /\ IF Parses(p)
          THEN /\ children' = MergeAfter(i, Nodes(p))
               /\ imports' = imports \cup {p}
               /\ importPaths' = [importPaths EXCEPT ![target] = <<DirOf[p]>> \o @]
               /\ i' = i + 1
               /\ UNCHANGED <<pc, target, err, failed>>
          ELSE /\ FinishTarget(EXIT_FAILURE)
               /\ UNCHANGED importPaths
  /\ UNCHANGED <<command, queue>>

ImportModule ==
  /\ pc = "imports" /\ i <= Len(children)
  /\ children[i].kind = "AST_Import"
  /\ LET p == Resolved(children[i].value) IN
     /\ p \notin imports \cup {NoPath}
     /\ PushAndOpen(p)
     /\ IF Parses(p)
          THEN /\ children' = MergeAfter(i, Nodes(p))
               /\ imports' = imports \cup {p}
               /\ importPaths' = [importPaths EXCEPT ![target] = Append(@, DirOf[p])]
               /\ i' = i + 1
               /\ UNCHANGED <<pc, target, err, failed>>
          ELSE /\ FinishTarget(EXIT_FAILURE)
               /\ UNCHANGED importPaths
  /\ UNCHANGED <<command, queue>>

\* All is loaded: the directories of the target, create_set and the backend,
\* each of which may fail.
FinishBuild(e) ==
  /\ pc = "imports" /\ i > Len(children)
  /\ FinishTarget(e)
  /\ UNCHANGED <<command, importPaths, queue, files>>

TargetsDone ==
  /\ pc = "targets" /\ queue = {}
  /\ pc' = "report"
  /\ UNCHANGED <<command, importPaths, queue, target, children, i, imports,
                 files, err, failed>>

\* The end of run_compiler: statistics and delete_files, which walks the
\* array of the stack although the first push_file has yet to make one.
DeleteFiles ==
  /\ pc = "report"
  /\ pc' = IF files = <<>> THEN "crashed" ELSE "returned"
  /\ files' = [k \in DOMAIN files |-> [files[k] EXCEPT !.open = FALSE]]
  /\ UNCHANGED <<command, importPaths, queue, target, children, i, imports, err, failed>>

-----------------------------------------------------------------------------
Next ==
  \/ \E ts \in SUBSET Target : BuildProject(ts)
  \/ LoadProjectFails
  \/ \E t \in Target : CompileFile(t)
  \/ CompileNothing
  \/ InvalidMode
  \/ \E t \in Target : UnknownTarget(t)
  \/ \E t \in Target : BuildTarget(t)
  \/ SkipChild
  \/ ImportNotFound
  \/ ImportModule
  \/ \E e \in {EXIT_SUCCESS, EXIT_FAILURE} : FinishBuild(e)
  \/ TargetsDone
  \/ DeleteFiles

\* One thread that keeps running.
Spec == Init /\ [][Next]_vars /\ WF_vars(Next)

-----------------------------------------------------------------------------
(* Properties.                                                             *)

TypeOK ==
  /\ pc \in {"start", "targets", "imports", "report", "returned", "crashed"}
  /\ queue \subseteq Target /\ failed \subseteq Target
  /\ target \in Target \cup {"none"}
  /\ \A k \in DOMAIN children : children[k] \in
       {ImportNode(n) : n \in ImportName} \cup {DeclNode(p) : p \in Path}
  /\ i \in 0 .. Len(children) + 1
  /\ imports \subseteq Path
  /\ files \in Seq([path : Path, open : BOOLEAN])
  /\ err \in {EXIT_SUCCESS, EXIT_FAILURE}

Loaded == pc = "imports" /\ i > Len(children)
DeclsOf(p) == {k \in DOMAIN children : children[k] = DeclNode(p)}

\* A loaded module has each imported file once, however often and along
\* whatever chain of imports it is named, and nothing that is not imported.
\* (The root module, whose path is not in the table, may come twice.)
EveryImportMergedOnce ==
  Loaded =>
    /\ \A k \in DOMAIN children : children[k].kind = "AST_Import" =>
         Resolved(children[k].value) \in imports
    /\ \A p \in Path : Cardinality(DeclsOf(p)) =
         (IF p \in imports THEN 1 ELSE 0) + (IF p = root[target] THEN 1 ELSE 0)

\* Semantic analysis needs declarations before uses: unless the imports form
\* a cycle, the declarations of an imported file come before those of every
\* file that imports it.
ImportsOf(p) ==
  {Resolved(tree[p].imports[k]) : k \in DOMAIN tree[p].imports} \ {NoPath}
Closed(S) == \A p \in S : ImportsOf(p) \subseteq S
Reachable(p) ==
  {q \in Path : \A S \in SUBSET Path : ImportsOf(p) \subseteq S /\ Closed(S) => q \in S}
Acyclic == \A p \in imports \cup {root[target]} : p \notin Reachable(p)
DeclarationsBeforeUses ==
  Loaded /\ Acyclic =>
    \A p \in imports \cup {root[target]} : \A q \in ImportsOf(p) :
      \A k \in DeclsOf(p), l \in DeclsOf(q) : l < k

\* The import paths grow while a target is loaded, by directories that only
\* an import with a directory in its name has led to, and where files of the
\* names that were imported before may lie; a name that led to a file keeps
\* leading to it.
ResolutionIsStable ==
  [][target # "none" /\ target' = target =>
       \A n \in ImportName : Resolved(n) # NoPath => Resolved(n)' = Resolved(n)]_vars

\* Whatever fails, and however the imports refer to one another, the compiler
\* comes to an end with every source file closed, or crashes before it opened
\* one.
CompilerEnds ==
  <>[](\/ pc = "returned" /\ \A k \in DOMAIN files : ~files[k].open
       \/ pc = "crashed" /\ files = <<>>)

\* A run of one target returns what became of it.
StatusOfSingleTarget ==
  pc = "returned" /\ (\E t \in Target : known = {t}) /\ failed \subseteq known =>
    (err = EXIT_FAILURE <=> failed = known)

-----------------------------------------------------------------------------
(* What the documentation says and the code does not do.                   *)

\* src/src/compiler.h:10: "@return status of compilation".  A run that could
\* not build a target does not return EXIT_SUCCESS.
StatusOfCompilation == pc = "returned" /\ failed # {} => err # EXIT_SUCCESS
=============================================================================
