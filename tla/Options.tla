------------------------------- MODULE Options -------------------------------
(***************************************************************************)
(* The command line and build.toml, src/src/cfg/opt.c, as far as           *)
(* src/src/compiler.c and src/src/main.c ask for them: the table of        *)
(* arguments, the target that it configures, and the targets of a project. *)
(*                                                                         *)
(* A value is the sequence of its parts between commas, so that <<"">> is  *)
(* an empty one and a value with a comma has two parts; there is NoValue   *)
(* without an equals sign.  The TOML parser is external: it has some       *)
(* result, which is chosen where it is read.                               *)
(***************************************************************************)
EXTENDS Naturals, Sequences

CONSTANTS
  Argument,   \* what may stand on the command line
  MaxArgs,    \* bound: arguments
  TargetName, \* names of the targets of a project
  MaxTargets, \* bound: targets in a project
  MaxPaths    \* bound: entries of a list that are told apart

NoValue == <<>>
Cwd     == "."
NoRoot  == "none"
Name    == {a.name : a \in Argument} \cup {"gsc"}

ASSUME ArgumentAssumption ==
  \A a \in Argument : a.is_opt \in BOOLEAN /\ a.value \in Seq(STRING)
ASSUME BoundAssumption == MaxPaths \in Nat \ {0}

VARIABLES
  argv,         \* the arguments
  i,            \* those that parse_options has entered
  args,         \* its table: name -> Option, or NotSet
  pc,           \* where the compiler is
  rest,         \* the value from start on, in the loops over a list
  link_search_paths, import_paths, name, mode, root_module,  \* TargetConfig
  toml,         \* the targets of build.toml
  k,            \* the loop variable of parse_targets
  targets       \* ProjectConfig.targets: the names of its keys

vars == <<argv, i, args, pc, rest, link_search_paths, import_paths, name, mode,
          root_module, toml, k, targets>>
config  == <<link_search_paths, import_paths, name, mode, root_module>>
project == <<toml, k, targets>>

NotSet == [is_opt |-> FALSE, index |-> 0, value |-> NoValue]
ModeOf == [app |-> "Application", lib |-> "Library"]
TomlMode == {"application", "library", "unknown", "missing"}

\* Where nothing more happens.
Final == {"exit", "configured", "no file", "failed", "crashed", "selected"}

TypeOK ==
  /\ i \in 0 .. Len(argv)
  /\ \A n \in Name : args[n] # NotSet =>
       args[n].index \in 1 .. i /\ argv[args[n].index].name = n
  /\ pc \in {"parse", "main", "link-paths", "files", "import-paths", "project",
             "targets", "select"} \cup Final
  /\ mode \in {"Application", "Library"}
  /\ Len(link_search_paths) <= MaxPaths + 1 /\ Len(import_paths) <= MaxPaths + 1
  /\ targets \subseteq TargetName

-----------------------------------------------------------------------------
(* The table.                                                              *)

IsOptionSet(n) == n \in Name /\ args[n] # NotSet
ValueOf(n)     == IF n \in Name THEN args[n].value ELSE NoValue

\* Mutant of ParseOption: the index counts from zero.
ParseOptionFromZero ==
  /\ pc = "parse" /\ i < Len(argv)
  /\ i' = i + 1
  /\ args' = LET a == argv[i + 1] IN
             [args EXCEPT ![a.name] = [is_opt |-> a.is_opt, index |-> i, value |-> a.value]]
  /\ UNCHANGED <<argv, pc, rest, config, project>>

\* One round of parse_options: options and words share the table, and the
\* last of a name stays.
ParseOption ==
  /\ pc = "parse" /\ i < Len(argv)
  /\ i' = i + 1
  /\ args' = LET a == argv[i + 1] IN
             [args EXCEPT ![a.name] = [is_opt |-> a.is_opt, index |-> i + 1,
                                       value |-> a.value]]
  /\ UNCHANGED <<argv, pc, rest, config, project>>

\* Mutant of NonOptionsAfter: options are taken as well.
AllAfter(command) ==
  {n \in Name : args[n] # NotSet /\ args[command].index < args[n].index}

\* get_non_options_after
NonOptionsAfter(command) ==
  {n \in Name : /\ args[n] # NotSet
                /\ ~args[n].is_opt
                /\ args[command].index < args[n].index}

\* The rest of setup and main, and the choice of run_compiler.
Main ==
  /\ pc = "parse" /\ i = Len(argv)
  /\ pc' = IF Len(argv) <= 1 \/ IsOptionSet("help") \/ IsOptionSet("version")
                \/ IsOptionSet("list-targets") \/ IsOptionSet("list-driver") THEN "exit"
           ELSE IF IsOptionSet("build") THEN "project"
           ELSE IF IsOptionSet("compile") THEN "main"
           ELSE "failed"
  /\ UNCHANGED <<argv, i, args, rest, config, project>>

-----------------------------------------------------------------------------
(* default_target_config_from_args                                         *)

\* Up to the loop over --link-paths.
ConfigureTarget ==
  /\ pc = "main"
  /\ name' = IF ValueOf("output") # NoValue THEN ValueOf("output") ELSE <<"out">>
  /\ mode' = IF Len(ValueOf("mode")) = 1 /\ ValueOf("mode")[1] \in DOMAIN ModeOf
             THEN ModeOf[ValueOf("mode")[1]] ELSE "Application"
  /\ link_search_paths' = <<Cwd>>
  /\ rest' = ValueOf("link-paths")
  /\ pc' = "link-paths"
  /\ UNCHANGED <<argv, i, args, import_paths, root_module, project>>

\* Bound: further entries are not told apart.
AppendPath(paths, p) == IF Len(paths) <= MaxPaths THEN Append(paths, p) ELSE paths

\* A comma is found: what is before it is an entry, and start = end makes the
\* comma the first character of what is left.
HasComma  == Len(rest) > 1
FromComma == <<"">> \o Tail(rest)
\* Without a comma the rest is an entry, unless it is empty.
LastPath(paths) ==
  IF rest \in {NoValue, <<"">>} THEN paths ELSE AppendPath(paths, rest[1])

\* Mutant of LinkPathsEnd: only what a comma ends is an entry.
LinkPathsEndWithout ==
  /\ pc = "link-paths" /\ ~HasComma
  /\ pc' = "files" /\ rest' = NoValue
  /\ UNCHANGED <<argv, i, args, link_search_paths, import_paths, name, mode,
                 root_module, project>>
LinkPathsNext ==
  /\ pc = "link-paths" /\ HasComma
  /\ link_search_paths' = AppendPath(link_search_paths, rest[1])
  /\ rest' = FromComma
  /\ UNCHANGED <<argv, i, args, pc, import_paths, name, mode, root_module, project>>

LinkPathsEnd ==
  /\ pc = "link-paths" /\ ~HasComma
  /\ link_search_paths' = LastPath(link_search_paths)
  /\ pc' = "files" /\ rest' = NoValue
  /\ UNCHANGED <<argv, i, args, import_paths, name, mode, root_module, project>>

\* The root module is the first file of the table, whose order is that of
\* hashes: any of them.
ChooseFile ==
  /\ pc = "files"
  /\ LET files == NonOptionsAfter("compile") IN
     root_module' \in IF files = {} THEN {NoRoot} ELSE files
  /\ import_paths' = <<Cwd>>
  /\ rest' = ValueOf("import-paths")
  /\ pc' = "import-paths"
  /\ UNCHANGED <<argv, i, args, link_search_paths, name, mode, project>>

ImportPathsNext ==
  /\ pc = "import-paths" /\ HasComma
  /\ import_paths' = AppendPath(import_paths, rest[1])
  /\ rest' = FromComma
  /\ UNCHANGED <<argv, i, args, pc, link_search_paths, name, mode, root_module, project>>

\* With it the test of compile_file.
ImportPathsEnd ==
  /\ pc = "import-paths" /\ ~HasComma
  /\ import_paths' = LastPath(import_paths)
  /\ rest' = NoValue
  /\ pc' = IF root_module = NoRoot THEN "no file" ELSE "configured"
  /\ UNCHANGED <<argv, i, args, link_search_paths, name, mode, root_module, project>>

-----------------------------------------------------------------------------
(* build.toml                                                              *)

\* load_project_config up to the targets: the file cannot be opened or
\* parsed, has no project or target table, or no project version, which
\* parse_project_table reads as the name that a project must have.
LoadProjectConfig ==
  /\ pc = "project"
  /\ \/ pc' = "failed" /\ UNCHANGED toml
     \/ /\ \E n \in 0 .. MaxTargets :
             toml' \in {f \in [1 .. n -> [name : TargetName, mode : TomlMode]] :
                          \A x, y \in 1 .. n : f[x].name = f[y].name => x = y}
        /\ pc' = "targets"
  /\ k' = 1 /\ targets' = {}
  /\ UNCHANGED <<argv, i, args, rest, config>>

\* get_mode_from_str: of a target without a mode the NULL pointer is compared.
ModeError(t) == t.mode \notin {"application", "library"}

\* Mutant of ParseTarget: a target that cannot be read ends the loop.
ParseTargetOrStop ==
  /\ pc = "targets" /\ k <= Len(toml)
  /\ IF toml[k].mode = "missing" THEN pc' = "crashed" /\ UNCHANGED <<k, targets>>
     ELSE IF ModeError(toml[k]) THEN k' = Len(toml) + 1 /\ UNCHANGED <<pc, targets>>
     ELSE targets' = targets \cup {toml[k].name} /\ k' = k + 1 /\ UNCHANGED pc
  /\ UNCHANGED <<argv, i, args, rest, config, toml>>

\* One round of parse_targets with parse_target, whose error it drops.
ParseTarget ==
  /\ pc = "targets" /\ k <= Len(toml)
  /\ IF toml[k].mode = "missing" THEN pc' = "crashed" /\ UNCHANGED <<k, targets>>
     ELSE /\ targets' = IF ModeError(toml[k]) THEN targets
                        ELSE targets \cup {toml[k].name}
          /\ k' = k + 1
          /\ UNCHANGED pc
  /\ UNCHANGED <<argv, i, args, rest, config, toml>>

\* The end of parse_targets, and build_project_targets: targets becomes those
\* that are built.
SelectTargets ==
  /\ pc = "targets" /\ k > Len(toml)
  /\ targets' = IF IsOptionSet("all") THEN targets
                ELSE targets \cap NonOptionsAfter("build")
  /\ pc' = "selected"
  /\ UNCHANGED <<argv, i, args, rest, config, toml, k>>

-----------------------------------------------------------------------------
Program == [is_opt |-> FALSE, name |-> "gsc", value |-> NoValue]

Init ==
  /\ \E n \in 0 .. MaxArgs : \E a \in [1 .. n -> Argument] : argv = <<Program>> \o a
  /\ i = 0 /\ args = [n \in Name |-> NotSet]
  /\ pc = "parse" /\ rest = NoValue
  /\ link_search_paths = <<>> /\ import_paths = <<>>
  /\ name = <<"out">> /\ mode = "Application" /\ root_module = NoRoot
  /\ toml = <<>> /\ k = 1 /\ targets = {}

Next ==
  \/ ParseOption \/ Main
  \/ ConfigureTarget \/ LinkPathsNext \/ LinkPathsEnd \/ ChooseFile
  \/ ImportPathsNext \/ ImportPathsEnd
  \/ LoadProjectConfig \/ ParseTarget \/ SelectTargets

Spec == Init /\ [][Next]_vars /\ WF_vars(Next)

-----------------------------------------------------------------------------
(* Properties.                                                             *)

Given(n) == {x \in 1 .. Len(argv) : argv[x].name = n}

\* The file that is compiled was given as a word, behind every "compile" on
\* the command line: no option, no command and not the program itself.
RootWasGiven ==
  root_module # NoRoot =>
    \E x \in Given(root_module) :
      ~argv[x].is_opt /\ \A y \in Given("compile") : y < x

\* The options of a name on the command line, the value of the last of them,
\* and whether a word of that name stands behind them all, which takes their
\* place in the table.
OptionsOf(n) == {x \in Given(n) : argv[x].is_opt}
LastOption(n) ==
  IF OptionsOf(n) = {} THEN NoValue
  ELSE argv[CHOOSE x \in OptionsOf(n) : \A y \in OptionsOf(n) : y <= x].value
Listed(n)   == IF LastOption(n) = <<"">> THEN <<>> ELSE LastOption(n)
Shadowed(n) == \E x \in Given(n) : ~argv[x].is_opt /\ \A y \in OptionsOf(n) : y < x

\* The configured target has the name and the search paths of the last options
\* that give them, behind the working directory, as the linker relies on it;
\* no entry is lost or made up.  Not so for an option that a later word of its
\* name replaces in the table; and with a comma in a list no target is ever
\* configured.
ConfiguredAsGiven ==
  pc = "configured" =>
    /\ ~Shadowed("link-paths") =>
         /\ link_search_paths = <<Cwd>> \o Listed("link-paths")
         /\ Len(Listed("link-paths")) <= 1
    /\ ~Shadowed("import-paths") =>
         /\ import_paths = <<Cwd>> \o Listed("import-paths")
         /\ Len(Listed("import-paths")) <= 1
    /\ ~Shadowed("output") =>
         name = IF LastOption("output") = NoValue THEN <<"out">> ELSE LastOption("output")

\* A target whose mode is unknown costs the project no other: with "all",
\* exactly the targets with a known mode are built.  One without a mode costs
\* them all, in the crash of get_mode_from_str, and nothing else crashes.
UnknownModeCostsNoOther ==
  /\ pc = "crashed" => \E x \in 1 .. Len(toml) : toml[x].mode = "missing"
  /\ pc = "selected" =>
       /\ \A x \in 1 .. Len(toml) : toml[x].mode # "missing"
       /\ IsOptionSet("all") =>
            targets = {toml[x].name : x \in {y \in 1 .. Len(toml) : ~ModeError(toml[y])}}

\* Every command line is read to its end, with the lists of paths that the
\* help text offers.
CommandLineIsRead == <>(pc \in Final)
=============================================================================
