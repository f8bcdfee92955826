---------------------------- MODULE OptionsProofs ----------------------------
(***************************************************************************)
(* Which file is compiled and which targets are built, for every command   *)
(* line and every project.                                                 *)
(***************************************************************************)
EXTENDS Options, TLAPS

-----------------------------------------------------------------------------
(* The inductive invariant.                                                *)

Text      == STRING \cup {"", Cwd, "out"}
ArgvEntry == Argument \cup {Program}
Target    == [name : TargetName, mode : TomlMode]
Entry     == {NotSet} \cup
           {[is_opt |-> a.is_opt, index |-> x, value |-> a.value] : a \in ArgvEntry, x \in Nat}

Shapes ==
  /\ argv \in Seq(ArgvEntry) /\ i \in 0 .. Len(argv)
  /\ args \in [Name -> Entry]
  /\ toml \in Seq(Target) /\ k \in 1 .. Len(toml) + 1
  /\ targets \subseteq TargetName
  /\ pc \in {"parse", "main", "link-paths", "files", "import-paths", "project",
             "targets", "select"} \cup Final

\* The table has the last argument of each name among those it has entered.
LastOf(n, x) ==
  /\ x \in 1 .. i /\ argv[x].name = n
  /\ args[n].is_opt = argv[x].is_opt /\ args[n].value = argv[x].value
  /\ \A y \in 1 .. i : argv[y].name = n => y <= x
LastIsKept ==
  \A n \in Name :
    \/ args[n] = NotSet /\ \A y \in 1 .. i : argv[y].name # n
    \/ LastOf(n, args[n].index)

\* It is complete when it is asked.
Entered == IF pc = "parse" THEN root_module = NoRoot ELSE i = Len(argv)

\* The targets of the rounds so far.
Readable == {toml[x].name : x \in {y \in 1 .. Len(toml) : y < k /\ ~ModeError(toml[y])}}
RoundsDone ==
  pc = "targets" =>
    /\ targets = Readable
    /\ \A y \in 1 .. Len(toml) : y < k => toml[y].mode # "missing"

\* The target as far as it is configured.  The loop over a list stands where
\* it began, unless a comma keeps it from ever ending.
ConfigTyped ==
  /\ mode \in {"Application", "Library"} /\ rest \in Seq(Text)
  /\ link_search_paths \in Seq(Text) /\ Len(link_search_paths) <= MaxPaths + 1
  /\ import_paths \in Seq(Text) /\ Len(import_paths) <= MaxPaths + 1
NameConfigured ==
  name = IF ValueOf("output") # NoValue THEN ValueOf("output") ELSE <<"out">>
InList(paths, n) == HasComma \/ (rest = ValueOf(n) /\ paths = <<Cwd>>)
List(paths, n) ==
  /\ paths = <<Cwd>> \o (IF ValueOf(n) = <<"">> THEN <<>> ELSE ValueOf(n))
  /\ Len(ValueOf(n)) <= 1
LinkListed   == List(link_search_paths, "link-paths")
ImportListed == List(import_paths, "import-paths")
ConfiguredSoFar ==
  /\ pc = "link-paths"   => NameConfigured /\ InList(link_search_paths, "link-paths")
  /\ pc = "files"        => NameConfigured /\ LinkListed
  /\ pc = "import-paths" => NameConfigured /\ LinkListed /\ InList(import_paths, "import-paths")
  /\ pc = "configured"   => NameConfigured /\ LinkListed /\ ImportListed

IInv == /\ Shapes
        /\ ConfigTyped
        /\ ConfiguredSoFar
        /\ LastIsKept
        /\ Entered
        /\ RootWasGiven
        /\ RoundsDone
        /\ UnknownModeCostsNoOther

-----------------------------------------------------------------------------
LEMMA MoreSequences == ASSUME NEW S, NEW T, S \subseteq T PROVE Seq(S) \subseteq Seq(T)
OBVIOUS

LEMMA FirstElement == ASSUME NEW S, NEW s \in Seq(S), s # <<>> PROVE s[1] \in S
OBVIOUS

LEMMA InFront ==
  ASSUME NEW S, NEW s \in Seq(S), NEW x \in S
  PROVE  <<x>> \o s \in Seq(S) /\ Len(<<x>> \o s) = 1 + Len(s)
OBVIOUS

\* The strings that the model itself has are texts.
LEMMA Texts ==
  /\ "" \in Text /\ Cwd \in Text /\ "out" \in Text
  /\ \A a \in Argument : a.is_opt \in BOOLEAN /\ a.value \in Seq(Text)
<1>1. "" \in Text /\ Cwd \in Text /\ "out" \in Text /\ STRING \subseteq Text
  BY DEF Text
<1>2. Seq(STRING) \subseteq Seq(Text)
  BY <1>1, MoreSequences
<1> QED
  BY <1>1, <1>2, ArgumentAssumption

\* The name of an argument is a key of the table.
LEMMA NamesAreKeys == \A a \in ArgvEntry : a.name \in Name
BY DEF ArgvEntry, Program, Name

\* Before the first round the table is empty.
LEMMA InitIInv == Init => IInv
<1> SUFFICES ASSUME Init PROVE IInv
  OBVIOUS
<1>1. argv \in Seq(ArgvEntry)
  <2>1. PICK n \in 0 .. MaxArgs : \E a \in [1 .. n -> Argument] : argv = <<Program>> \o a
    BY DEF Init
  <2>2. PICK a \in [1 .. n -> Argument] : argv = <<Program>> \o a
    BY <2>1
  <2>3. n \in Nat /\ a \in Seq(ArgvEntry) /\ <<Program>> \in Seq(ArgvEntry)
    BY DEF ArgvEntry
  <2> QED
    BY <2>2, <2>3
<1>2. Shapes
  BY <1>1 DEF Init, Shapes, Entry
<1>3. ConfigTyped
  BY BoundAssumption DEF Init, ConfigTyped, NoValue
<1> QED
  BY <1>2, <1>3 DEF Init, IInv, ConfiguredSoFar, LastIsKept, Entered, RootWasGiven, RoundsDone,
              UnknownModeCostsNoOther

\* A round enters one argument in the place of those before it.
LEMMA ParseOptionStep == IInv /\ ParseOption => IInv'
<1> SUFFICES ASSUME IInv, ParseOption PROVE IInv'
  OBVIOUS
<1> DEFINE a == argv[i + 1]
<1>1. a \in ArgvEntry /\ a.name \in Name /\ i \in Nat /\ i + 1 \in 1 .. Len(argv)
  BY NamesAreKeys DEF IInv, Shapes, ParseOption
<1>2. /\ args' \in [Name -> Entry]
      /\ args'[a.name] = [is_opt |-> a.is_opt, index |-> i + 1, value |-> a.value]
      /\ \A n \in Name : n # a.name => args'[n] = args[n]
  BY <1>1 DEF IInv, Shapes, ParseOption, Entry
<1>3. Shapes'
  BY <1>1, <1>2 DEF IInv, Shapes, ParseOption, project
<1>4. LastIsKept'
  <2> SUFFICES ASSUME NEW n \in Name
               PROVE \/ args'[n] = NotSet /\ \A y \in 1 .. i' : argv'[y].name # n
                     \/ LastOf(n, args[n].index)'
    BY DEF LastIsKept
  <2>1. i' = i + 1 /\ argv' = argv
    BY DEF ParseOption
  <2>2. \A y \in 1 .. i + 1 : y \in 1 .. i \/ y = i + 1
    BY <1>1
  <2>3. CASE n = a.name
    BY <1>1, <1>2, <2>1, <2>3 DEF LastOf
  <2>4. CASE n # a.name
    BY <1>1, <1>2, <2>1, <2>2, <2>4 DEF IInv, LastIsKept, LastOf
  <2> QED
    BY <2>3, <2>4
<1> QED
  BY <1>3, <1>4 DEF IInv, ParseOption, Entered, RootWasGiven, RoundsDone,
                    UnknownModeCostsNoOther, config, project, ConfigTyped, ConfiguredSoFar

\* What NonOptionsAfter("compile") returns was given as a word, behind every
\* "compile".
LEMMA WordsBehind ==
  ASSUME IInv, pc = "files", NEW n \in NonOptionsAfter("compile")
  PROVE  \E x \in Given(n) : ~argv[x].is_opt /\ \A y \in Given("compile") : y < x
<1>1. n \in Name /\ args[n] # NotSet /\ ~args[n].is_opt
      /\ args["compile"].index < args[n].index
  BY DEF NonOptionsAfter
<1>2. i = Len(argv) /\ argv \in Seq(ArgvEntry)
  BY DEF IInv, Entered, Shapes
<1>3. LastOf(n, args[n].index)
  BY <1>1 DEF IInv, LastIsKept
<1>4. args[n].index \in Given(n) /\ ~argv[args[n].index].is_opt
  BY <1>1, <1>2, <1>3 DEF LastOf, Given
<1>5. ASSUME NEW y \in Given("compile") PROVE y < args[n].index
  <2>1. y \in 1 .. i /\ argv[y].name = "compile" /\ argv[y] \in ArgvEntry
    BY <1>2 DEF Given
  <2>2. "compile" \in Name
    BY <2>1, NamesAreKeys
  <2>3. LastOf("compile", args["compile"].index)
    BY <2>1, <2>2 DEF IInv, LastIsKept
  <2> QED
    BY <1>1, <1>2, <1>3, <2>1, <2>3 DEF LastOf
<1> QED
  BY <1>4, <1>5

\* The list of an argument, and what the end of a loop makes of it.
LEMMA ValuesAreLists == Shapes => \A n : ValueOf(n) \in Seq(Text)
<1> SUFFICES ASSUME Shapes, NEW n PROVE ValueOf(n) \in Seq(Text)
  OBVIOUS
<1>1. \A a \in ArgvEntry : a.value \in Seq(Text)
  <2>1. <<>> \in Seq(Text)
    OBVIOUS
  <2>2. Program.value \in Seq(Text)
    BY <2>1 DEF Program, NoValue
  <2> QED
    BY Texts, <2>2 DEF ArgvEntry
<1>2. \A e \in Entry : e.value \in Seq(Text)
  <2>1. NotSet.value \in Seq(Text)
    BY DEF NotSet, NoValue
  <2>2. \A a \in ArgvEntry, x \in Nat :
          [is_opt |-> a.is_opt, index |-> x, value |-> a.value].value \in Seq(Text)
    BY <1>1
  <2> QED
    BY <2>1, <2>2, SMTT(30) DEF Entry
<1>3. NoValue \in Seq(Text)
  BY DEF NoValue
<1>4. CASE n \in Name
  BY <1>2, <1>4 DEF Shapes, ValueOf
<1> QED
  BY <1>3, <1>4 DEF ValueOf

LEMMA EndOfList ==
  ASSUME rest \in Seq(Text), ~HasComma
  PROVE  /\ LastPath(<<Cwd>>) = <<Cwd>> \o (IF rest = <<"">> THEN <<>> ELSE rest)
         /\ Len(rest) <= 1
<1>1. Len(rest) = 0 \/ Len(rest) = 1
  <2>1. Len(rest) \in Nat
    OBVIOUS
  <2>2. \A n \in Nat : n > 1 \/ n = 0 \/ n = 1
    OBVIOUS
  <2> QED
    BY <2>1, <2>2, Zenon DEF HasComma
<1>4. Len(rest) <= 1
  <2>1. 0 <= 1 /\ 1 <= 1
    OBVIOUS
  <2> QED
    BY <1>1, <2>1, Zenon
<1> SUFFICES LastPath(<<Cwd>>) = <<Cwd>> \o (IF rest = <<"">> THEN <<>> ELSE rest)
  BY <1>4, Zenon
<1>2. CASE Len(rest) = 0
  BY <1>2 DEF LastPath, NoValue
<1>3. CASE Len(rest) = 1
  <2>1. rest = <<rest[1]>> /\ rest[1] \in Text
    BY <1>3
  <2>2. Len(<<Cwd>>) <= MaxPaths
    BY BoundAssumption
  <2>3. CASE rest = <<"">>
    <3>1. LastPath(<<Cwd>>) = <<Cwd>>
      BY <2>3 DEF LastPath
    <3>2. <<Cwd>> \o <<>> = <<Cwd>>
      OBVIOUS
    <3> QED
      BY <2>3, <3>1, <3>2
  <2>4. CASE rest # <<"">>
    <3>1. LastPath(<<Cwd>>) = Append(<<Cwd>>, rest[1])
      <4>1. rest \notin {NoValue, <<"">>}
        <5>1. rest # <<>>
          BY <1>3
        <5> QED
          BY <2>4, <5>1 DEF NoValue
      <4>2. LastPath(<<Cwd>>) = AppendPath(<<Cwd>>, rest[1])
        BY <4>1, Zenon DEF LastPath
      <4> QED
        BY <2>2, <4>2, Zenon DEF AppendPath
    <3> DEFINE x == rest[1]
    <3>2. Append(<<Cwd>>, x) = <<Cwd>> \o <<x>>
      BY <2>1
    <3> QED
      BY <2>1, <2>4, <3>1, <3>2
  <2> QED
    BY <2>3, <2>4
<1> QED
  BY <1>1, <1>2, <1>3

\* A comma stays where it is.
LEMMA CommaStays ==
  ASSUME rest \in Seq(Text), HasComma, rest' = FromComma
  PROVE  rest[1] \in Text /\ rest' \in Seq(Text) /\ HasComma'
<1> DEFINE t == Tail(rest)
           n == Len(rest)
<1>1. n \in Nat /\ n > 1
  BY DEF HasComma
<1>2. t \in Seq(Text) /\ Len(t) = n - 1 /\ rest[1] \in Text
  BY <1>1
<1>3. rest' = <<"">> \o t /\ "" \in Text
  BY Texts DEF FromComma
<1> HIDE DEF t, n
<1>4. rest' \in Seq(Text) /\ Len(rest') = 1 + Len(t)
  <2>1. <<"">> \o t \in Seq(Text) /\ Len(<<"">> \o t) = 1 + Len(t)
    BY <1>2, <1>3, InFront, Zenon
  <2> QED
    BY <1>3, <2>1
<1>5. Len(rest') = n
  BY <1>1, <1>2, <1>4
<1> QED
  BY <1>1, <1>2, <1>4, <1>5 DEF HasComma

LEMMA PathsGrow ==
  ASSUME NEW paths \in Seq(Text), Len(paths) <= MaxPaths + 1
  PROVE  /\ \A p \in Text : /\ AppendPath(paths, p) \in Seq(Text)
                              /\ Len(AppendPath(paths, p)) <= MaxPaths + 1
         /\ rest \in Seq(Text) => /\ LastPath(paths) \in Seq(Text)
                                    /\ Len(LastPath(paths)) <= MaxPaths + 1
<1>1. \A p \in Text : /\ AppendPath(paths, p) \in Seq(Text)
                        /\ Len(AppendPath(paths, p)) <= MaxPaths + 1
  BY BoundAssumption DEF AppendPath
<1>2. ASSUME rest \in Seq(Text), rest \notin {NoValue, <<"">>} PROVE rest[1] \in Text
  <2>1. rest # <<>>
    BY <1>2 DEF NoValue
  <2> QED
    BY <1>2, <2>1, FirstElement
<1> QED
  BY <1>1, <1>2 DEF LastPath

\* The steps that configure a target keep what is configured.
LEMMA ConfigStep ==
  ASSUME IInv, \/ Main \/ ConfigureTarget \/ LinkPathsNext \/ LinkPathsEnd
               \/ ChooseFile \/ ImportPathsNext \/ ImportPathsEnd
  PROVE  ConfigTyped' /\ ConfiguredSoFar'
<1>1. UNCHANGED args /\ \A n : ValueOf(n)' = ValueOf(n)
  BY DEF Main, ConfigureTarget, LinkPathsNext, LinkPathsEnd, ChooseFile, ImportPathsNext,
         ImportPathsEnd, ValueOf
<1>2. ConfigTyped /\ Shapes /\ ConfiguredSoFar
  BY DEF IInv
<1>3. CASE Main
  BY <1>2, <1>3 DEF Main, config, ConfigTyped, ConfiguredSoFar
<1>4. CASE ConfigureTarget
  <2>1. ValueOf("link-paths") \in Seq(Text) /\ <<Cwd>> \in Seq(Text)
        /\ Len(<<Cwd>>) <= MaxPaths + 1
    <3>1. Cwd \in Text
      BY Texts
    <3> QED
      BY <1>2, <3>1, ValuesAreLists, BoundAssumption
  <2>2. mode' \in {"Application", "Library"}
    BY <1>4 DEF ConfigureTarget, ModeOf
  <2> QED
    BY <1>1, <1>2, <1>4, <2>1, <2>2 DEF ConfigureTarget, ConfigTyped, ConfiguredSoFar,
       NameConfigured, InList
<1>5. CASE LinkPathsNext
  <2>1. rest[1] \in Text /\ rest' \in Seq(Text) /\ HasComma'
    BY <1>2, <1>5, CommaStays DEF LinkPathsNext, ConfigTyped
  <2>2. ConfigTyped'
    BY <1>2, <1>5, <2>1, PathsGrow DEF LinkPathsNext, ConfigTyped
  <2> QED
    BY <1>1, <1>2, <1>5, <2>1, <2>2 DEF LinkPathsNext, ConfiguredSoFar, NameConfigured, InList
<1>6. CASE LinkPathsEnd
  <2>1. ConfigTyped'
    BY <1>2, <1>6, PathsGrow DEF LinkPathsEnd, ConfigTyped, NoValue
  <2>2. rest = ValueOf("link-paths") /\ link_search_paths = <<Cwd>> /\ NameConfigured
    BY <1>2, <1>6 DEF LinkPathsEnd, ConfiguredSoFar, InList
  <2>3. LinkListed'
    BY <1>1, <1>2, <1>6, <2>2, EndOfList DEF LinkPathsEnd, LinkListed, List, ConfigTyped
  <2> QED
    BY <1>1, <1>6, <2>1, <2>2, <2>3 DEF LinkPathsEnd, ConfiguredSoFar, NameConfigured
<1>7. CASE ChooseFile
  <2>1. ValueOf("import-paths") \in Seq(Text) /\ <<Cwd>> \in Seq(Text)
        /\ Len(<<Cwd>>) <= MaxPaths + 1
    <3>1. Cwd \in Text
      BY Texts
    <3> QED
      BY <1>2, <3>1, ValuesAreLists, BoundAssumption
  <2>2. NameConfigured /\ LinkListed
    BY <1>2, <1>7 DEF ChooseFile, ConfiguredSoFar
  <2>3. ConfigTyped'
    BY <1>2, <1>7, <2>1 DEF ChooseFile, ConfigTyped
  <2> QED
    BY <1>1, <1>7, <2>2, <2>3 DEF ChooseFile, ConfiguredSoFar, NameConfigured, LinkListed,
       List, InList
<1>8. CASE ImportPathsNext
  <2>1. rest[1] \in Text /\ rest' \in Seq(Text) /\ HasComma'
    BY <1>2, <1>8, CommaStays DEF ImportPathsNext, ConfigTyped
  <2>2. ConfigTyped'
    BY <1>2, <1>8, <2>1, PathsGrow DEF ImportPathsNext, ConfigTyped
  <2>3. NameConfigured /\ LinkListed
    BY <1>2, <1>8 DEF ImportPathsNext, ConfiguredSoFar
  <2> QED
    BY <1>1, <1>8, <2>1, <2>2, <2>3 DEF ImportPathsNext, ConfiguredSoFar, NameConfigured,
       LinkListed, List, InList
<1>9. CASE ImportPathsEnd
  <2>1. ConfigTyped'
    <3>1. LastPath(import_paths) \in Seq(Text) /\ Len(LastPath(import_paths)) <= MaxPaths + 1
      BY <1>2, PathsGrow DEF ConfigTyped
    <3>2. /\ import_paths' = LastPath(import_paths) /\ rest' = <<>>
          /\ UNCHANGED <<mode, link_search_paths>>
      BY <1>9 DEF ImportPathsEnd, NoValue
    <3> QED
      BY <1>2, <3>1, <3>2 DEF ConfigTyped
  <2>2. rest = ValueOf("import-paths") /\ import_paths = <<Cwd>> /\ NameConfigured
        /\ LinkListed
    BY <1>2, <1>9 DEF ImportPathsEnd, ConfiguredSoFar, InList
  <2>3. ImportListed'
    BY <1>1, <1>2, <1>9, <2>2, EndOfList DEF ImportPathsEnd, ImportListed, List, ConfigTyped
  <2> QED
    BY <1>1, <1>9, <2>1, <2>2, <2>3 DEF ImportPathsEnd, ConfiguredSoFar, NameConfigured,
       LinkListed, List
<1> QED
  BY <1>3, <1>4, <1>5, <1>6, <1>7, <1>8, <1>9

\* The configuration of one target from the table.
LEMMA ConfigureStep ==
  IInv /\ (\/ Main \/ ConfigureTarget \/ LinkPathsNext \/ LinkPathsEnd \/ ChooseFile
           \/ ImportPathsNext \/ ImportPathsEnd) => IInv'
<1> SUFFICES ASSUME IInv,
                    \/ Main \/ ConfigureTarget \/ LinkPathsNext \/ LinkPathsEnd
                    \/ ChooseFile \/ ImportPathsNext \/ ImportPathsEnd
             PROVE IInv'
  OBVIOUS
<1> USE DEF Main, ConfigureTarget, LinkPathsNext, LinkPathsEnd, ChooseFile,
            ImportPathsNext, ImportPathsEnd, config, project
<1>1. UNCHANGED <<argv, i, args, toml, k, targets>> /\ pc' # "targets" /\ pc' # "selected"
      /\ pc' # "parse"
  OBVIOUS
<1>2. Shapes' /\ LastIsKept'
  BY <1>1 DEF IInv, Shapes, LastIsKept, LastOf, Final
<1>3. Entered'
  BY <1>1 DEF IInv, Entered
<1>4. RootWasGiven'
  <2>1. CASE ChooseFile
    BY <1>1, <2>1, WordsBehind DEF RootWasGiven, Given
  <2>2. CASE ~ChooseFile
    <3>1. root_module' = root_module
      BY <2>2
    <3> QED
      BY <1>1, <3>1 DEF IInv, RootWasGiven, Given
  <2> QED
    BY <2>1, <2>2
<1> QED
  BY <1>1, <1>2, <1>3, <1>4, ConfigStep DEF IInv, RoundsDone, UnknownModeCostsNoOther

-----------------------------------------------------------------------------
(* The targets of a project.                                               *)

\* Nothing has been read of the file yet.
LEMMA LoadProjectConfigStep == IInv /\ LoadProjectConfig => IInv'
<1> SUFFICES ASSUME IInv, LoadProjectConfig PROVE IInv'
  OBVIOUS
<1>1. toml' \in Seq(Target) /\ k' = 1 /\ targets' = {}
  <2>1. ASSUME NEW n \in 0 .. MaxTargets, toml' \in [1 .. n -> Target]
        PROVE  toml' \in Seq(Target)
    BY <2>1
  <2>2. toml' = toml \/ \E n \in 0 .. MaxTargets : toml' \in [1 .. n -> Target]
    BY DEF LoadProjectConfig, Target
  <2> QED
    BY <2>1, <2>2 DEF IInv, Shapes, LoadProjectConfig
<1>2. UNCHANGED <<argv, i, args, root_module>> /\ pc = "project"
      /\ pc' \in {"failed", "targets"}
  BY DEF LoadProjectConfig, config
<1>3. Shapes' /\ LastIsKept'
  <2>1. Shapes'
    <3>1. k' \in 1 .. Len(toml') + 1 /\ targets' \subseteq TargetName
      BY <1>1
    <3> QED
      BY <1>1, <1>2, <3>1 DEF IInv, Shapes, Final
  <2>2. LastIsKept'
    BY <1>2 DEF IInv, LastIsKept, LastOf
  <2> QED
    BY <2>1, <2>2
<1>4. ConfigTyped' /\ ConfiguredSoFar'
  BY <1>2 DEF IInv, ConfigTyped, ConfiguredSoFar, LoadProjectConfig, config
<1>5. RoundsDone'
  BY <1>1 DEF RoundsDone, Readable
<1> QED
  BY <1>2, <1>3, <1>4, <1>5 DEF IInv, Entered, RootWasGiven, UnknownModeCostsNoOther, Given

\* A round adds its target, if that can be read.
LEMMA ParseTargetStep == IInv /\ ParseTarget => IInv'
<1> SUFFICES ASSUME IInv, ParseTarget PROVE IInv'
  OBVIOUS
<1>1. UNCHANGED <<argv, i, args, root_module, toml>> /\ pc = "targets"
      /\ pc' \in {"targets", "crashed"}
  BY DEF ParseTarget, config
<1>2. k \in 1 .. Len(toml) /\ Len(toml) \in Nat
  BY DEF IInv, Shapes, ParseTarget
<1>3. Shapes' /\ LastIsKept'
  <2>1. targets' \subseteq TargetName
    <3>1. toml[k] \in Target
      BY <1>2 DEF IInv, Shapes
    <3>2. toml[k].name \in TargetName
      BY <3>1 DEF Target
    <3> QED
      BY <3>2 DEF IInv, Shapes, ParseTarget
  <2>2. k' \in 1 .. Len(toml') + 1
    BY <1>1, <1>2 DEF IInv, Shapes, ParseTarget
  <2>3. Shapes'
    BY <1>1, <2>1, <2>2 DEF IInv, Shapes, Final
  <2>4. LastIsKept'
    BY <1>1 DEF IInv, LastIsKept, LastOf
  <2> QED
    BY <2>3, <2>4
<1>4. ConfigTyped' /\ ConfiguredSoFar'
  BY <1>1 DEF IInv, ParseTarget, ConfigTyped, ConfiguredSoFar, config
<1>5. RoundsDone'
  <2> SUFFICES ASSUME pc' = "targets"
               PROVE /\ targets' = Readable'
                     /\ \A y \in 1 .. Len(toml) : y < k' => toml[y].mode # "missing"
    BY <1>1 DEF RoundsDone
  <2>1. k' = k + 1 /\ toml[k].mode # "missing"
        /\ targets' = IF ModeError(toml[k]) THEN Readable ELSE Readable \cup {toml[k].name}
    BY <1>1 DEF IInv, RoundsDone, ParseTarget
  <2>2. \A y \in 1 .. Len(toml) : y < k + 1 <=> y < k \/ y = k
    BY <1>2
  <2>3. targets' = Readable'
    BY <1>1, <1>2, <2>1, <2>2 DEF Readable, ModeError
  <2>4. \A y \in 1 .. Len(toml) : y < k => toml[y].mode # "missing"
    BY <1>1 DEF IInv, RoundsDone
  <2> QED
    BY <2>1, <2>2, <2>3, <2>4
<1>6. UnknownModeCostsNoOther'
  <2>1. pc' = "crashed" => toml[k].mode = "missing"
    BY <1>1 DEF ParseTarget
  <2> QED
    BY <1>1, <1>2, <2>1 DEF UnknownModeCostsNoOther
<1> QED
  BY <1>1, <1>3, <1>4, <1>5, <1>6 DEF IInv, Entered, RootWasGiven, Given

\* After the last round all that can be read are there.
LEMMA SelectTargetsStep == IInv /\ SelectTargets => IInv'
<1> SUFFICES ASSUME IInv, SelectTargets PROVE IInv'
  OBVIOUS
<1>1. UNCHANGED <<argv, i, args, root_module, toml, k>> /\ pc = "targets"
      /\ pc' = "selected"
  BY DEF SelectTargets, config
<1>2. Shapes' /\ LastIsKept' /\ RoundsDone' /\ ConfigTyped' /\ ConfiguredSoFar'
  <2>1. Shapes' /\ RoundsDone'
    <3>1. targets' \subseteq TargetName
      BY DEF IInv, Shapes, SelectTargets
    <3>2. pc' \in Final
      BY <1>1 DEF Final
    <3> QED
      BY <1>1, <3>1, <3>2 DEF IInv, Shapes, RoundsDone
  <2>2. LastIsKept'
    BY <1>1 DEF IInv, LastIsKept, LastOf
  <2>3. ConfigTyped' /\ ConfiguredSoFar'
    BY <1>1 DEF IInv, SelectTargets, ConfigTyped, ConfiguredSoFar, Final, config
  <2> QED
    BY <2>1, <2>2, <2>3
<1>3. UnknownModeCostsNoOther'
  <2>1. \A y \in 1 .. Len(toml) : y < k
    BY DEF IInv, Shapes, SelectTargets
  <2>2. targets = Readable /\ \A y \in 1 .. Len(toml) : toml[y].mode # "missing"
    BY <1>1, <2>1 DEF IInv, RoundsDone
  <2>3. IsOptionSet("all")' => targets' = targets
    BY <1>1 DEF SelectTargets, IsOptionSet
  <2>4. Readable = {toml[x].name : x \in {y \in 1 .. Len(toml) : ~ModeError(toml[y])}}
    BY <2>1 DEF Readable
  <2> QED
    BY <1>1, <2>2, <2>3, <2>4 DEF UnknownModeCostsNoOther, ModeError
<1> QED
  BY <1>1, <1>2, <1>3 DEF IInv, Entered, RootWasGiven, Given

-----------------------------------------------------------------------------
(* The theorems.                                                           *)

\* Every step keeps the invariant.
LEMMA Invariance == Spec => []IInv
<1>1. IInv /\ [Next]_vars => IInv'
  <2> SUFFICES ASSUME IInv, [Next]_vars PROVE IInv'
    OBVIOUS
  <2>1. CASE UNCHANGED vars
    <3> USE <2>1 DEF vars, config, project
    <3>1. Shapes' /\ ConfigTyped'
      BY DEF IInv, Shapes, ConfigTyped
    <3>2. ConfiguredSoFar'
      BY DEF IInv, ConfiguredSoFar, NameConfigured, InList, List, LinkListed, ImportListed,
             HasComma, ValueOf
    <3>3. RootWasGiven' /\ UnknownModeCostsNoOther'
      BY DEF IInv, RootWasGiven, UnknownModeCostsNoOther, Given, IsOptionSet, ModeError
    <3>4. LastIsKept' /\ Entered' /\ RoundsDone'
      BY DEF IInv, LastIsKept, LastOf, Entered, RoundsDone, Readable, ModeError
    <3> QED
      BY <3>1, <3>2, <3>3, <3>4 DEF IInv
  <2> QED
    BY <2>1, ParseOptionStep, ConfigureStep, LoadProjectConfigStep, ParseTargetStep,
       SelectTargetsStep DEF Next
<1> QED
  BY <1>1, InitIInv, PTL DEF Spec

\* The file that compile_file takes is a word behind every "compile",
\* although the table mixes words and options, forgets all but the last of a
\* name and has no order.
THEOREM RootGiven == Spec => []RootWasGiven
<1>1. IInv => RootWasGiven
  BY DEF IInv
<1> QED
  BY <1>1, Invariance, PTL

\* However many targets of build.toml have an unknown mode, "all" builds those
\* with a known one; where any target has no mode at all nothing is built, since
\* the compiler crashes while it reads that target, and only then.
THEOREM OthersAreBuilt == Spec => []UnknownModeCostsNoOther
<1>1. IInv => UnknownModeCostsNoOther
  BY DEF IInv
<1> QED
  BY <1>1, Invariance, PTL

\* The table has an index in the range of each name, and the lists of paths
\* are within their bounds.
THEOREM TypeCorrect == Spec => []TypeOK
<1>1. IInv => TypeOK
  <2> SUFFICES ASSUME IInv PROVE TypeOK
    OBVIOUS
  <2>1. \A n \in Name : args[n] # NotSet =>
          args[n].index \in 1 .. i /\ argv[args[n].index].name = n
    BY DEF IInv, LastIsKept, LastOf
  <2> QED
    BY <2>1 DEF IInv, Shapes, ConfigTyped, TypeOK
<1> QED
  BY <1>1, Invariance, PTL

\* The search paths and the name of a target that is configured are those of
\* the last options that give them, unless a word of the option's name stands
\* behind them: then the table has lost the options.  The lists are empty or of
\* one entry, since the loops over a list never pass a comma.
THEOREM ConfiguredRightly == Spec => []ConfiguredAsGiven
<1>1. IInv => ConfiguredAsGiven
  <2> SUFFICES ASSUME IInv, pc = "configured" PROVE ConfiguredAsGiven
    BY DEF ConfiguredAsGiven
  <2>1. i = Len(argv) /\ argv \in Seq(ArgvEntry)
    BY DEF IInv, Entered, Shapes
  <2>2. ASSUME NEW n, ~Shadowed(n) PROVE ValueOf(n) = LastOption(n)
    <3>1. \A x \in Given(n) : x \in 1 .. i /\ argv[x].name = n /\ n \in Name
      BY <2>1, NamesAreKeys DEF Given
    <3>2. OptionsOf(n) \subseteq Given(n)
      BY DEF OptionsOf
    <3>3. CASE n \notin Name
      BY <3>1, <3>2, <3>3 DEF ValueOf, LastOption
    <3>4. CASE n \in Name /\ args[n] = NotSet
      <4>1. \A y \in 1 .. i : argv[y].name # n
        BY <3>4 DEF IInv, LastIsKept, LastOf, NotSet
      <4>2. OptionsOf(n) = {}
        BY <3>1, <3>2, <4>1
      <4> QED
        BY <3>4, <4>2 DEF ValueOf, LastOption, NotSet
    <3>5. CASE n \in Name /\ args[n] # NotSet
      <4> DEFINE x == args[n].index
      <4>1. LastOf(n, x)
        BY <3>5 DEF IInv, LastIsKept
      <4>2. x \in Given(n) /\ \A y \in Given(n) : y <= x
        BY <2>1, <4>1 DEF LastOf, Given
      <4> HIDE DEF x
      <4>3. argv[x].is_opt
        <5> SUFFICES ASSUME ~argv[x].is_opt PROVE Shadowed(n)
          BY <2>2
        <5>1. \A y \in OptionsOf(n) : y < x
          BY <2>1, <3>2, <4>2 DEF OptionsOf, Given
        <5> QED
          BY <4>2, <5>1 DEF Shadowed
      <4>4. x \in OptionsOf(n) /\ \A y \in OptionsOf(n) : y <= x
        BY <3>2, <4>2, <4>3 DEF OptionsOf
      <4>5. \A z \in OptionsOf(n) : (\A y \in OptionsOf(n) : y <= z) => z = x
        BY <2>1, <4>4 DEF OptionsOf, Given
      <4>6. (CHOOSE z \in OptionsOf(n) : \A y \in OptionsOf(n) : y <= z) = x
        BY <4>4, <4>5
      <4>7. LastOption(n) = argv[x].value
        BY <4>4, <4>6 DEF LastOption
      <4> QED
        BY <3>5, <4>1, <4>7 DEF LastOf, ValueOf, x
    <3> QED
      BY <3>3, <3>4, <3>5
  <2>3. NameConfigured /\ LinkListed /\ ImportListed
    BY DEF IInv, ConfiguredSoFar
  <2>4. \A n : Len(ValueOf(n)) <= 1 /\ ~Shadowed(n) => Len(Listed(n)) <= 1
    <3> SUFFICES ASSUME NEW n, Len(ValueOf(n)) <= 1, ~Shadowed(n) PROVE Len(Listed(n)) <= 1
      OBVIOUS
    <3>1. Listed(n) = <<>> \/ Listed(n) = ValueOf(n)
      BY <2>2 DEF Listed
    <3>2. Len(<<>>) <= 1
      OBVIOUS
    <3> QED
      BY <3>1, <3>2
  <2>5. \A n : ~Shadowed(n) =>
          Listed(n) = IF ValueOf(n) = <<"">> THEN <<>> ELSE ValueOf(n)
    <3> SUFFICES ASSUME NEW n, ~Shadowed(n)
                 PROVE  Listed(n) = IF ValueOf(n) = <<"">> THEN <<>> ELSE ValueOf(n)
      OBVIOUS
    <3>1. ValueOf(n) = LastOption(n)
      BY <2>2
    <3> QED
      BY <3>1, Zenon DEF Listed
  <2>6. \A paths, n : List(paths, n) /\ ~Shadowed(n) =>
          paths = <<Cwd>> \o Listed(n) /\ Len(Listed(n)) <= 1
    BY <2>4, <2>5, Zenon DEF List
  <2>7. ~Shadowed("output") =>
          name = IF LastOption("output") = NoValue THEN <<"out">> ELSE LastOption("output")
    BY <2>2, <2>3 DEF NameConfigured
  <2> QED
    BY <2>3, <2>6, <2>7, Zenon DEF ConfiguredAsGiven, LinkListed, ImportListed
<1> QED
  BY <1>1, Invariance, PTL
=============================================================================
