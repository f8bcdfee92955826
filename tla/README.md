# Gemstone in TLA+

A verification project for `gsc`, the Gemstone compiler: TLA+ modules that
model parts of the compiler, TLC configurations that check them on small
instances, and theorems that TLAPS proves for every instance. Paths below are
relative to the repository, so that the sources are `src/...`, tests are
`tests/...`; in the modules and in `PROJECT.json` they have the prefix `src/`
(the directory that holds the checkout), e.g. `src/src/mem/cache.c`.

## 1. Inventory of the system

`gsc` is one thread. `main` initialises the memory cache, the options, the
logger, the tree, the lexer and the linker, then calls `run_compiler`; what
happens afterwards is a pipeline per target: lexer and parser build one tree
for a file and all it imports, semantic analysis turns the tree into a set of
types, variables and functions, code generation turns those into LLVM IR, and
a linker driver makes the program. Nothing runs concurrently. What is hard in
this code is shared static state that outlives the step that made it, the
order of cleanup, lists that change while they are walked, name tables that
exist twice and must agree, and control flow that is put together from the
results of recursive calls.

| Component (sources) | State it keeps | Operations | What makes it correct | Module |
|---|---|---|---|---|
| Memory cache (`src/mem/cache.c`) | namespaces, each a table of blocks and counters | allocate, reallocate, free, free from a namespace, purge, exit handler | every live block in one table, freed once and with the right destructor; counters agree with tables; all is released at exit | `MemCache` |
| Control flow in code generation (`src/llvm/llvm-ir/stmt.c`, `func.c`) | blocks of the function, position of the builder, start and end blocks on the C stack | one C function per statement kind, mutually recursive | every block ends in its one terminator; the blocks do what the source says | `ControlFlow` |
| Names in semantic analysis (`src/set/set.c`) | `Scope`, `functionParameter`, `declaredFunctions` (static) | declare, define, use, open and close blocks and functions | a name has one meaning; the tables are alive when they are asked | `Names` |
| Names in code generation (`src/llvm/llvm-ir/func.c`, `variables.c`, `expr.c`, `src/llvm/parser.c`) | table per function, table of parameters, globals | look up, insert | finds what semantic analysis resolved | `Names` |
| Driver (`src/compiler.c`) | queue of targets, the tree that grows during imports, import paths, status | build, compile, load imports, report | ends; each import once and before its users; status tells of failures | `Driver` |
| File stack, diagnostics (`src/io/files.c`) | opened files, counters per file | push, delete, count, print | files closed; counters add up | stack in `Driver` |
| Types (`src/set/set.c`, `types.h`) | `Type` objects, shared by pointer; declared types | resolve, compare, combine, cast, check each operator | scales within bounds; no operator changes what others share | `Types`, `Expressions` |
| Expressions in code generation (`src/llvm/llvm-ir/expr.c`, `types.c`) | – | an instruction for each operator, cast, load and store | operands of one LLVM type; what is stored has the type of its place | `Types`, `Expressions` |
| Options, project file (`src/cfg/opt.c`) | table of arguments, configuration of targets | parse, ask, default, load, select | a configuration says what was given; a target of an unknown mode costs no other | `Options` |
| Lexer (`src/lex`) | line buffer, row, column, what flex has read ahead | next char, next line, begin token, reset | every character once; how far a location is from the token it is of | `Locations` |
| Backend and linking (`src/codegen`, `src/llvm`, `src/link`) | LLVM module, target, link configuration; files in archives | build, verify, export, configure the linker, link | an error of a stage reaches the caller; a binary is made of these sources; all is released | `Backend` |
| Syntax tree (`src/ast/ast.c`) | nodes with children | insert, remove, merge, delete | a node has one owner | merge in `Driver` |
| Parser (`src/yacc/parser.y`) | bison stack | productions | – | not modelled |
| Logger (`src/sys`) | array of streams | register, log | – | not modelled |
| Entry (`src/main.c`) | – | initialisation | order of the exit handlers | stated in `MemCache` |
| Standard library (`lib`) | – | – | – | not modelled |

**Interaction.** Every component allocates from the memory cache. `build_target`
purges the namespaces of lexer, tree and set after each target while the
static pointers of `set.c` stay (`Names`). The driver calls the parser through
the global `root`, merges the trees, and hands one tree to `create_set`, whose
module goes to the backend. Code generation looks up by name what semantic
analysis had resolved to an object already, so both must agree (`Names`).
Exit handlers run in reverse order of registration: the one of the cache last.

**Hard behaviours.** `PROJECT.json` lists them under `hazards`, each at its
line. In short: a stale pointer into the cache after an address was handed out
again; blocks freed around the cache; a name resolved twice by different rules;
the parameter table that dangles after a target failed; a builder moved back
into blocks that are finished; an import loop over a list that grows; one
target failing among several; error results that are overwritten or dropped;
files that outlive a run and are found by a later one; `Type` objects that a
negation writes to while variables point to them; comparison of types that is
not symmetric and decides on casts; a scanner that reads ahead of the token
that is located, by a character or by a line; a table of options in which the
last of a name wins.

## 2. Plan

In order of importance. "Done" is in this tree.

1. `Arena`, `MemCache`, `MemCacheRawFree`. Done, with proofs of all safety
   properties and of the refinement.
2. `ControlFlow`, `ControlFlowSemantics`, `ControlFlowInvariant`. Done, with
   proofs of all their properties, of what the blocks mean as well as of their
   shape.
3. `Names`. Done, with proofs of all its properties.
4. `Driver`. Done, with proofs of all its safety properties.
5. `Types`, `Expressions`. Done, with proofs of all their properties.
6. `Options`. Done, with proofs of all its safety properties.
7. `Backend`. Done, with proofs of all its properties.
8. `Locations`. Done, with proofs of all its properties.
9. Left: boxes and calls with several arguments in `Expressions`, counters of
   diagnostics, ownership in the syntax tree; an abstract specification of the
   import loop (a depth-first order of files) that `Driver` implements.

`MemCacheRawFree` composes the cache with a caller that goes around it.
`Names` composes semantic analysis with code generation, for names, and
`Expressions` does so for types. `Backend` composes the stages after semantic
analysis with the files that runs of the compiler share.
`ControlFlowSemantics` composes the generator with the meaning of its source.
The abstract specifications are `Arena` for the cache and the two functions
"what is evaluated next" of `ControlFlowSemantics` for the generated code.

## 3. Modules and how they correspond to the code

### Memory cache: `Arena`, `MemCache`, `MemCacheRawFree`

`Arena` is the promise: an object is created in a region, and is released by
itself or with its region, once.

`MemCache` has one action per function of `cache.h`. `nsState`, `blocks` and
`statistic` are `namespaces` and its `MemoryNamespace`s; the table of blocks is
a set. The heap is external: `heap` maps an address to the object that lives
there and the kind of destructor it needs, and an allocation may take any
unused address, so addresses come back. Objects are numbered, which lets the
model tell a stale pointer from a fresh one. `refs` are pointers of callers;
they are not cleared by a free, exactly like C variables, and may be freed
again. `faults` notes what the C library forbids. `malloc` and `realloc` may
fail at each call; `mem_clone` does not check and ends the process. `phase` and
`Cleanup` are the `atexit` handler. `mem_realloc` is called as the code calls
it (`sys/log.c`, `tests/cache/cache_test.c`), with a live generic block, and the
caller stores the result or, as the test does, does not.

`MemCacheRawFree` adds `free(message)` of `compiler.c`.

### Control flow: `ControlFlow`, `ControlFlowSemantics`, `ControlFlowInvariant`

The C functions are mutually recursive. `stack` is their call stack, with one
frame per running `impl_func_def`, `impl_basic_block`, `impl_while` or
`impl_branch` and in it the blocks they keep in local variables; the code of a
function before, between and after its inner calls is one action each. The
program is chosen while it is walked and recorded in `src`, so a run covers
every program up to the bound. `blocks` are the LLVM basic blocks, `builder`
the position of the builder.

`ControlFlowSemantics` says what a source program means (for each statement
and condition the one that is evaluated next: `Arrive`, `Otherwise`), and what a
graph of blocks means (`Enter`, `BlockNext`), and `SameMeaning` compares the
two. `ControlFlowInvariant` has no code of the compiler: it holds the two
inductive invariants of section 5.

### Names: `Names`, `MCNames`

Phases `module`, `parameters` and `body` are `create_set`, `createParam` and
`createStatement`; there is an action per `create...` function that touches a
name. What is accepted is recorded in `code`, where a use carries the variable
it was resolved to. Phase `codegen` walks `code` like `impl_functions` does
with its own tables. `Purge` is the end of `build_target`, after which the next
target begins with the old static variables: `parameter.state = "purged"` is a
pointer to freed memory. Phases `null`, `dangling` and `foreign` are uses of
NULL, of freed memory and of the wrong union member; the process is not
followed further.

### Driver: `Driver`, `MCDriver`

`tree` is any file system: which files exist and what they import. The actions
follow `run_compiler`, `build_project`, `compile_file`, `build_target`; the
loop of `compile_module_with_dependencies` takes one step per child, and a
merge inserts the children of the imported module after the import.
`importPaths` grows as in the code and keeps what it learned: the directory of
each file that was imported, which for an import with a directory in its name
(`import "sub/n"`) may be one that was not there. `PathIn` is where a name in a
directory leads, with several names for one file, and `DirOf` is `dirname`.
`files` is the file stack. `crashed` is the NULL dereference of `delete_files`.
A file has its imports before its declarations, as the files of `lib` do, and
includes behave as imports. Names given on a command line are a set, as in the
option table.

### Types and expressions: `Types`, `Expressions`, `MCExpressions`

`Types` has no state: `NewType` is `set_get_type_impl` with
`set_impl_composite_type` and `merge_scale_list`, `CompareBase` is
`compareTypes`, `TypeFromOperands` is `createTypeFromOperands`, `LlvmTypeOf` is
`get_type_impl`. Scales are powers of two and stand as exponents.

`Expressions` is the heap of `Type` objects (`types`), the tables that point
into it (`typedefs`, `vars`), and the tree of an expression from its leaves up:
`operands` is the stack of subexpressions that wait for their operator, and
each `create...` function of `set.c` takes its operands from there. An
expression carries the type of the analysis and the LLVM type of the value that
`expr.c` makes of it; `NoLlvmType` is an instruction that LLVM does not have.
Negation writes into the object its operand shares, as the code does. The end
of a statement drops the objects nothing points to, which keeps the model small
and which `TypeCorrect` justifies. `class` separates the values that
`DataHasItsType` speaks of: "plain" ones, "truth" for the bits that comparisons
make and which the analysis calls int, and "other" for parts on which analysis
or generator give up (`Char`, unsigned floats, a pointer cast to a float, the
unwritten primitive of `createBitOperation`). `stores` is what was stored
where, of whatever class: `StoresFit` makes an exception for the bit of a
comparison in an int place, `int: x = a < b`, and for no other. `phase` is a
refused or a crashed program; the next target begins anew.

### Backend: `Backend`

One run of `run_backend_codegen` after another. `pc` is the next call of
`parse_module`; each call succeeds or fails at will, and where the code follows
a NULL pointer or ends in `PANIC` the run is "crashed". A function has a kind
and at most one flaw. `impl_function_types` and `impl_functions` take one step
per function in any order, that of a hash table. `archive` maps directories to
the object file of the module's name, `output` is the binary; both hold the
version of the sources they come from, and survive `Edit` and `Invoke`. `live`
is what was allocated from LLVM and for the linker, with the builder of a
function, its table of parameters and the tables of the blocks in it, of which
`LeftBy` says what a function that fails leaves behind; `emitFailed` is the
history of the error that `export_module` drops.

### Options: `Options`, `MCOptions`

`ParseOption` is a round of `parse_options`; `args` is the hash table, in which
words, options and the program itself share their names: a word behind an option
of its name takes the option's place (`Shadowed`). The actions up to
`ImportPathsEnd` are `default_target_config_from_args`, the loops over
`--link-paths` and `--import-paths` with one action per round: after a comma
`start` points to that comma again. `LoadProjectConfig`, `ParseTarget` and
`SelectTargets` are `build`. The TOML parser is external. A value is the
sequence of its parts between commas.

### Locations: `Locations`, `MCLocations`

`nBuffer`, `lBuffer`, `nRow`, `nTokenNextStart` and `eof` are the static
variables of `lex/util.c`; `NextChar` and `FetchLine` with its three outcomes,
`GetNextLine`, `EndOfFile` and `ReadError`, are its functions. A file is a
sequence of kinds of characters. The buffer is not a copy of them: it holds
those from `line + 1` to `line + lBuffer` of the `offset` that `fgets` has read,
which is less than `fgets` read where `strlen` meets a zero byte
(`LineLength`). `pending` are the characters that flex has and that are in no
token, by their numbers.

Flex is external: it asks for one character at a time as long as what it has
may become a longer token (`Unfinished`), takes the longest token it has seen
(`TokenLength`) and keeps the rest. `IsToken` are the rules of `lexer.l`, up to
what a word means: words, numbers with a point, comments, character literals,
strings in one line and over several. So behind `1.` flex looks two characters
ahead, behind a quote without its end to the end of the line, and behind three
quotes to the end of the file. `Match` is a token with `beginToken`; `looked` is
what had been read behind the token before. `LexReset` is the reset before the
next file, also after a parser that gave up.

## 4. Runs

| Run | Question | Result |
|---|---|---|
| `mem_cache` | does the cache keep its promise for every use of stale pointers, failure and purge, and release all at exit? | holds |
| `mem_cache_raw_free` | is every block freed by the cache only (`cache.h:33`)? | no: `compiler.c:88`, `:99`, `:138` |
| `control_flow` | are the blocks of every body well formed, and do they do what the source says? | holds, unless an `else` ends in a plain statement |
| `control_flow_else` | and when an `else` does? | no: the arms before it run the end of the `else` |
| `names` | do both name tables agree, is a name open once, when can the parameter table dangle? | holds as stated |
| `driver` | is the import loop right for every import graph, does the compiler end with closed files, is the status of one target right? | holds |
| `driver_status` | is the status right for several targets (`compiler.h:10`)? | no: overwritten, or never set |
| `types` | do analysis and generator agree on the type of every value, do scales stay within limits, and whom does a negation touch? | holds; a comparison is a bit until it is cast, also when it is stored in an int |
| `backend` | what can get into an archive or a binary, and what is released, when any call may fail, over several runs? | holds but for the dropped error of the emission, and for what one failed call leaves |
| `options` | is the target configured as the last options say, and what does a bad target cost the others? | holds, unless a word of an option's name follows it; nothing if its mode is unknown, everything if it has none |
| `options_commas` | is every command line read to its end (`opt.c:196`, `:244`)? | no: a comma is found again for ever |
| `locations` | does each character reach the scanner once, and where do diagnostics point? | once, but for zero bytes and read errors; a row is that of the last character read, a column is off by the lookahead |

**Bounds.** Cache: two namespaces, two addresses, two pointers and two
allocations: enough for an address to be reused under a pointer that is stale,
for a block that moves while another one is held, for a block in the other
namespace and for a kind that differs; the theorems have no bound. Control
flow: bodies of ten tokens hold every pair of nested constructs with statements
and returns on all sides, and a branch with all three kinds of arms; the `else`
counterexample needs six. Names: two names, three open scopes, four recorded
uses, one parameter: enough for a global, a parameter, a local and a function
that compete for a name, in any order and over any number of targets. TLC uses
the symmetry of the names: no property tells them apart, and all are safety
properties. Driver: four files in a directory and one below it, of which the
root and one other have up to two imports and the others one, over two names
that both directories may have and one with a directory: chains, diamonds,
cycles, a file found under two names, and a search path that is new or that the
command line gave already (`InitImports`); two targets and one file with every
fault cover command lines and failures (`InitFailures`). Types: every written
type of up to four factors in a typedef, which reaches past both limits;
programs of three expressions over two variables and five written types, so
that an operator has operands that are the result of another and share a type
with a variable; only typedefs of scale 1/2 and 2 (`ProgramScales`) go on to a
program. The variables are symmetric. Backend: two functions, so that one error
can hide another, one search path besides the working directory, two versions,
for an old object next to a new one. Options: three arguments out of seventeen,
two targets, lists of up to three entries (`MaxPaths`): enough for a name given
twice as a word and as an option, in any order with its command. Locations: all
files of four characters, and all of five pieces out of quotes, three quotes, a
number with its point, a letter, blanks, a newline and a zero byte; the buffer
holds five characters, so that there are lines that fit, do not, are empty or
lack their newline, strings over several lines and tokens behind which the
scanner reads far.

**Fairness.** `MemCache` assumes that `exit` runs its handler (`Cleanup`,
`CleanupDone`): a C program does not stop in `exit`. Nothing is assumed about
the program reaching it. `Driver` is one thread without waiting, so
`WF(Next)` says that it runs on; that it ends is then a property of the loop
over a growing list. `Options` has `WF(Next)` for the same reason, and the
loop over commas runs for ever under it. The other modules have safety
properties only and need no fairness.

**Deadlock** is not checked where the process ends or a bound ends the program
(`Expressions`); the liveness properties above say how it may end. It is checked
for `Backend`, where the compiler can always be started again, and for
`Locations`, where there is always a next file.

**Mutants.** Each property of a passing run has in `PROJECT.json` a mutant of
the code, an operator next to the one it replaces, that TLC must refute.

## 5. Proofs

All by `tlapm`, for every value of the constants that meets the assumptions.
These are about the bounds, which are natural numbers, and: NULL is no address
(`NoAddrAssumption`), a constant is no name (`ConstantAssumption`), the working
directory is a directory (`CwdAssumption`), a name in a directory leads to a
path and a path is in a directory (`PathAssumption`), a file is a sequence of
characters (`FilesAssumption`), a written type is a list of factors
(`NodesAssumption`), an argument is an option or a word with a list of strings
(`ArgumentAssumption`), a list of paths may have an entry (`MaxPaths > 0`) and
a line buffer has room for a character next to its final zero
(`MAX_READ_BUFFER_SIZE > 1`, as `fgets` needs). In each module `IInv` is the
inductive invariant, there is a lemma `...Step` for each action, and
`Invariance` puts them together.

* `MemCacheProofs`: `TypeCorrect`, `TrackedOnce`, `HeapIsNeverMisused`,
  `StatisticsAreBalanced`. `EveryBlockTrackedOnce` is not inductive alone: the
  step that frees a block must know that no other entry has its address, and
  that its kind is the one of the object; the counters need finite tables,
  since they speak of a cardinality. `IInv` therefore joins the type invariant,
  the three parts of `EveryBlockTrackedOnce`, objects with distinct numbers in
  `1 .. allocated` and free cells that look free, finite tables, the balance,
  and `faults = {}`. The lemmas state what freeing a block, purging a table and
  adding a block do. `Refinement` is `Spec => ImplementsArena`. The mapping
  sends a namespace to the numbers of the objects its table points to. From
  `IInv`, each action is a step of `Arena` or leaves `live` and `used` alone; a
  reallocation that moves a block keeps its number, so it is a stutter, as is
  every failure.
* `ControlFlowProofs`: `TypeCorrect`, `TerminatorsAreLast`,
  `BuilderIsAtOpenEnd`, `BlocksAreTerminated` and `MeaningIsPreserved`, for
  bodies of any length and depth. For the shape of the blocks the argument is
  an account of debts: `Owed(frame)` are the blocks that a running call still
  has to give a terminator, and `Owing` says that every block without one is
  owed it by exactly one frame of the stack and that owed blocks have none.
  `impl_branch` needs most of it, because it keeps the conditions and the last
  blocks of its arms in two lists while other blocks are made (`Separate`).
  `Stacked` is the order of the calls: `impl_basic_block` at every second place
  of the stack, a branch on top only between arms. The proof also shows that
  two tests of the code never fire: since `impl_basic_block` opens a new block
  right behind a `return`, its last block is never terminated when a loop or a
  branch is connected to it (`AfterBlocks`), nor when `impl_func_def` ends the
  function (`EndFunction`). `MeaningIsPreserved` is `Spec =>
  []ControlFlowPreserved`: if no `else` body ends in a plain statement, the
  code of each statement and condition is at one place and leads to what the
  source says comes next. It needs a second invariant, `Means`, because at the
  time a block is made the tokens that decide what follows it have not been
  met. `Means` therefore speaks of every way in which the source can go on: of
  each function `A` that says what is evaluated at each place and agrees with
  the tokens so far (`Respects`), there are promises `lab` for the beginnings
  of the blocks and `out` for the ends of the unfinished ones with which the
  instructions do what `A` says (`Preserves`), and each frame of the stack says
  what is promised of the blocks it keeps (`Frames`), up to the arms of a
  branch that wait to be connected (`Arms`). An `A` that agrees with a longer
  source agrees with what was walked before, so each step extends the promises
  that were made for it; when the function is finished, `A` can be `Arrive`
  itself (`MeaningRespects`, `WhenDone`). `Nested` ties the open bodies to the
  stack and each `end` to its opener, which is how `Closer` and `Opener` are
  known; `Placed` says that the code of a token is at one place. That following
  jumps ends, so that `Enter` finds what `lab` promises, is `Forward`: a block
  that only jumps leads to a later block, or back to a condition of a loop,
  which is evaluated.
* `NamesProofs`: `NameIsOpenOnce`, `CodegenFindsVariables`,
  `CodegenFindsFunctions`, `DanglingOnlyAfterAbandoned`, `TypeCorrect`, for
  every set of names and every length of a unit. Semantic analysis resolves a
  name in nested scopes that open and close; the generator has one flat table
  per function and closes nothing. They agree because a name is in one open
  scope at most (`Disjoint`) and because a scope holds the last variable of the
  function with its name (`Scoped`): what analysis forgot at the end of a block
  is overwritten by the next definition before anything can use it. `Analysed`
  notes this for each use in the code, `LocalsAt` for the table the generator
  has built up to `pc`. `ParameterAt` says when the static `functionParameter`
  is alive. For functions a second invariant, `GeneratedAt`, follows code
  generation: all names behind it are those of functions in the module, and
  where it stopped the name is that of a global.
* `DriverProofs`: `ImportsAreMergedOnce`, `UsesFollowDeclarations`,
  `ResolutionStays`, `SingleTargetStatus`, `TypeCorrect`, for every file system,
  graph of imports and set of targets. `Counted` says that each file's
  declarations are in the list once for the table and once for being the root,
  `PassedAreLoaded` that the loop leaves no import behind it. For the order, the
  list ahead of the loop is a stack of files that are being loaded
  (`ChainAhead`): each leads to all that stands before it, so that without a
  cycle a file which is already in the table cannot stand ahead of one that
  imports it. Where a name leads cannot change, because directories are only
  added behind those that are there, whichever they are (`LookingOn`).
  `Reachable` is the least set that is closed under imports, not a
  recursion, so that the prover can reason about it. `OneBuild` follows a
  command line with one target through every failure.
* `ExpressionsProofs`: `ScalesAreWithin`, `TypeCorrect`,
  `ValuesHaveTheirTypes`, `StoredValuesFit`, `OperandsAreWidened`,
  `WidthsAreKept`, for every set of written types and programs of any length.
  Only `set_impl_composite_type` tests a scale; that the other places which
  make types need no test follows from `IInv`: the heap is a sequence of
  well-formed types and every pointer of `typedefs`, `vars`, `operands` and
  `stores` leads into it. `Combined` says that two types within limits have a
  common one within limits, and `KeptOK` that the end of a statement drops
  nothing that is pointed to; it needs a greatest element, which comes from the
  well-founded order of the numbers (`Greatest`). That analysis and generator
  agree is a second invariant on top, `Agreement`: the value of a plain
  expression has the LLVM type of its type (`Fitting`), no written type is made
  of `Char` (`Written`), and the type of the bytes of a string stays what it
  was (`FirstType`). Objects on the heap change only in the sign that a
  negation writes, which LLVM types do not have; this is what lets `Agreement`
  survive the sharing (`KeepsType`, `KeepsHeap`), and it gives the action
  property `VariablesKeepTheirWidth`. It says nothing of expressions of class
  "other"; a third invariant, `Valued` and `StoredWell`, does: a value of any
  class has the LLVM type of its type, or none, or is a bit of type int, and so
  has a stored one that of its place.
* `BackendProofs`: `StaleOnly`, `Released`, `NothingFlawed`, `TypeCorrect`, for
  every set of functions and search paths and every number of edits. None of
  the properties is inductive, since they speak of the end of a run: `IInv` says
  for each stage what is allocated (`LiveAt`, with `FunctionLeft` after a
  function that failed), which functions are known to have
  bodies (`BuiltAt`) and which file is the object of this run (`ObjectAt`).
* `OptionsProofs`: `RootGiven`, `OthersAreBuilt`, `ConfiguredRightly` and
  `TypeCorrect`, for every command line and every project. `LastIsKept` ties the
  table to the arguments behind it: an entry is the last argument of its name;
  `RoundsDone` says what the loop over the targets has collected, and
  `ConfiguredSoFar` what each stage of the configuration has taken from the
  table. A loop that stands at a comma does not leave it, so that a list
  with one is never configured (`CommaStays`). `RoundsDone` also says that no
  target without a mode was passed.
* `LocationsProofs`: `CharactersOnce`, `RowsAreRight`, `ColumnsAreRight`,
  `TypeCorrect`, for every size of the buffer and every set of files. The
  static variables say little by themselves; `Places` says where in the file
  the line in the buffer and what flex has stand, and that they follow one
  another. `Lines` ties the row to the newlines before the buffer, as a lower
  bound, since a line that does not fit is counted several times, and exactly
  if all lines fit. The other parts hold for files without something: without
  zero bytes nothing is missing before what flex has (`Whole`); if there are
  not three quotes in a row either, flex never looks past a newline
  (`OneLine`), and the next token starts where its column says, but for what
  was looked at (`Columns`); without points and quotes all but the last
  character that flex has are a token (`Simple`). What the rules demand of a
  lookahead is in four lemmas about beginnings of tokens
  (`BeginningHasNoNewline`, `BeginningIsToken`, `UnfinishedIs`,
  `WantsNoNewline`).

Only model-checked: liveness (`CleanupReleasesEverything`, `CompilerEnds`, and
`CommandLineIsRead`, which fails), which is out of the prover's reach. The
properties of the runs that expect a violation are refuted by TLC. Everything
else that a run checks is proved: every invariant, the action property and the
refinement.

## 6. Known disagreements and crashes

The four runs that expect a violation show where the code does not do what the
repository says of it. The modules contain more such steps. These also
contradict a comment or a message:

* `mem/cache.c:277` frees whatever block has the address now, though
  `cache.h:51` and `:59` say that a second free has no effect (`MemCache`).
* `set/set.c:1626` looks for variables before parameters, though `set.c:609`
  warns that a parameter shadows a variable (`Names`).
* `set/set.c:1911` asks for a syntax node of kind `AST_Parameter` where an
  assignment has an identifier, so that the message "Parameter is read-only" of
  `:1914` does not appear (`Names`).
* `set/set.c:2896` refuses what the comment at `:2453` allows, several equal
  declarations of a function (`Names`).
* Without input `compiler.c:418` calls `delete_files`, and `io/files.c:62`
  follows the NULL pointer of files that were never opened (`Driver`).
* `set/types.h:317` asks of a cast that it loses nothing; nobody checks it, and
  nobody compares the sizes of a transmutation (`Expressions`).
* `set/types.h:38` allows a scale of 1/8, `check_scale_factor` does not
  (`Types`).
* `cfg/opt.c:276` offers `--output=name`; the table of `:48` has one entry for
  each name, so that a word `output` behind the option, such as the name of a
  file, takes its place and the name falls back to `out`. So it is with the
  lists of paths (`Options`, `Shadowed`).
* `cfg/opt.c:218` announces the first file and takes the first in the order of
  hashes (`Options`).

These end the process, or lose something, in a way no comment speaks of:

* `llvm/parser.c:37`: an IR file that cannot be opened is written all the same,
  and its text disposed of twice; `:127`: the message or, at `:147`, the target
  machine leaks after a failed export; `llvm-ir/func.c:186`, `:218`, `:230`,
  `:242`: a function that fails leaves its builder behind, and its table of
  parameters or the tables of the blocks in it (`stmt.c:143`, `:162`);
  `link/lld.c:70` and `:105`: error paths free twice; the command of a failed
  driver leaks (`Backend`).
* `llvm/backend.c:38`: an optimization level outside of 1 to 3 is a `PANIC`;
  `llvm-ir/variables.c:57`: a global's initializer is read as a constant,
  whatever it is (`Backend`).
* `cfg/opt.c:390`: a target without a mode compares a NULL pointer, which costs
  all other targets too; `:354`: a project without a version is refused, one
  without a name is not (`Options`).
* `set/set.c:839`: negating a byte of a string writes to constant memory;
  `:1258`: the primitive of a bit operation on composites is unwritten, and so
  is the kind of the result when a reference is negated bit by bit; `:996`: the
  right operand of a Boolean operator is never asked for a float
  (`Expressions`).
* `set/set.c:1773`: the type of a comparison is int, so `int: x = a < b` needs
  no cast, and the bit that `llvm-ir/expr.c:141` makes is stored as it is
  (`Expressions`).
* `lex/util.c:76`: a file that cannot be read any further ends there, without a
  message; `:84`: a zero byte hides the rest of its line (`Locations`).
* `lex/util.c:35`: a token begins as many columns too far as the scanner had
  read behind the one before: one behind a word, two behind the `1` of `1.x`,
  the rest of the line behind a quote that is not closed (`lexer.l:96`, `:99`,
  `:106`); the last token of a file without a newline begins at column 1; and a
  string over several lines has the row of its last one (`:114`; `Locations`).

## 7. What is not modelled

The parser (generated from a grammar), LLVM, GLib, the TOML reader, flex and
the linkers are external. Boxes are left out, since `createBox`
(`set/set.c:2734`) does not come to the end of a box with members, and calls
have at most one argument (`Names`). Errors inside the code generation of a
statement end the model of control flow. Byte counts of the cache, counters and
texts of diagnostics, escape sequences and the graph printer have no property.
Of the syntax tree only what the import loop uses is modelled. The logger, the
entry and the standard library have no logic of their own. See `components` in
`PROJECT.json` for each part.
