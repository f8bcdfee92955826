---------------------------- MODULE NamesProofs ----------------------------
(***************************************************************************)
(* The safety properties of module Names hold for every set of names and   *)
(* every bound.                                                            *)
(***************************************************************************)
EXTENDS Names, FiniteSetTheorems, TLAPS

-----------------------------------------------------------------------------
(* What is known of a place in the code c.                                 *)

\* Before place i, the variable n of the function is the one defined at r.
LastLocal(c, i, n, r) ==
  /\ r \in 1 .. i - 1
  /\ c[r].op = "local" /\ c[r].name = n
  /\ \A k \in r + 1 .. i - 1 : /\ c[k].op # "function"
                               /\ ~(c[k].op = "local" /\ c[k].name = n)

\* Before place i, the function has no variable n.
NoLocal(c, i, n) ==
  \A r \in 1 .. i - 1 : c[r].op = "local" /\ c[r].name = n =>
    \E s \in r + 1 .. i - 1 : c[s].op = "function"

\* The function that place i is in starts at s.
StartOf(c, i, s) ==
  /\ s \in 1 .. i - 1
  /\ c[s].op = "function"
  /\ \A k \in s + 1 .. i - 1 : c[k].op # "function"

\* The function under construction starts at s.
InBody(c, s) ==
  /\ phase = "body"
  /\ StartOf(c, Len(c) + 1, s)
  /\ c[s].name = function.name

GlobalAt(c, r, n) == r \in 1 .. Len(c) /\ c[r].op = "global" /\ c[r].name = n

\* What semantic analysis knew of an access to a variable, or to a parameter.
VariableFound(c, i) ==
  \/ LastLocal(c, i, c[i].name, c[i].ref)
  \/ NoLocal(c, i, c[i].name) /\ GlobalAt(c, c[i].ref, c[i].name)
ParameterFound(c, i) ==
  \E s \in 1 .. i - 1 :
    /\ StartOf(c, i, s)
    /\ \/ /\ c[s].name \in DOMAIN functions
          /\ c[i].name \in ParamNames(functions[c[s].name])
       \/ InBody(c, s) /\ c[i].name \in ParamNames(function)

-----------------------------------------------------------------------------
(* The inductive invariant.                                                *)

Table(S, T) == UNION {[D -> T] : D \in SUBSET S}
Item == [op : Operation, kind : {"Variable", "Parameter", "Function"},
         name : Name, ref : Nat]
FunctionKind == {"none", "FunctionDefinitionKind", "FunctionDeclarationKind"}
Param == [name : Name, qualifier : Qualifier]
FunctionRecord == [name : Name \cup {Constant}, kind : FunctionKind,
                   params : Seq(Param)]
Phases == {"idle", "module", "parameters", "body", "failed", "codegen",
           "generated", "null", "dangling", "foreign"}

\* The tables are functions, which TypeOK leaves out.
Typed ==
  /\ phase \in Phases
  /\ scope \in Seq(Table(Name, Nat))
  /\ parameter \in [state : {"null", "live", "purged"},
                    table : Table(Name, Qualifier)]
  /\ function \in FunctionRecord
  /\ functions \in Table(Name, FunctionRecord)
  /\ code \in Seq(Item) /\ Len(code) <= MaxCode
  /\ pc \in 0 .. MaxCode + 1
  /\ locals \in Table(Name, Nat)
  /\ abandoned \in BOOLEAN

\* Identities of variables are places in the code.
References ==
  /\ \A i \in DOMAIN scope : \A n \in DOMAIN scope[i] : scope[i][n] \in DOMAIN code
  /\ \A n \in DOMAIN locals : locals[n] \in DOMAIN code

\* A name is open in one scope only.
Disjoint(sc) ==
  \A i, j \in DOMAIN sc : \A n \in DOMAIN sc[i] \cap DOMAIN sc[j] : i = j

\* The open scopes have all the globals, and of the variables of the function
\* the last one with its name.
Scoped(c, sc) ==
  /\ \A i \in DOMAIN sc : \A n \in DOMAIN sc[i] :
       /\ i = 1 => /\ GlobalAt(c, sc[i][n], n)
                   /\ phase = "body" => NoLocal(c, Len(c) + 1, n)
       /\ i > 1 => LastLocal(c, Len(c) + 1, n, sc[i][n])
  /\ \A i \in 1 .. Len(c) : c[i].op = "global" =>
       c[i].name \in DOMAIN sc[1] /\ sc[1][c[i].name] = i

\* Every use in the code was resolved.
AnalysedAt(c, i) ==
  /\ c[i].op \in {"load", "store"} =>
       \/ c[i].kind = "Variable" /\ VariableFound(c, i)
       \/ c[i].kind = "Parameter" /\ ParameterFound(c, i)
  /\ c[i].op = "local" => c[i].ref = i
  /\ c[i].op = "function" => c[i].name \in DOMAIN functions \/ InBody(c, i)
  /\ c[i].op = "call" => /\ c[i].name \in DOMAIN functions
                         /\ Len(functions[c[i].name].params) = c[i].ref
Analysed(c) == \A i \in 1 .. Len(c) : AnalysedAt(c, i)

\* The code generator's table has the last variable of the function with a
\* name, whether semantic analysis has closed its scope or not.
LocalsAt ==
  phase = "codegen" => \A n \in Name :
    IF n \in DOMAIN locals THEN LastLocal(code, pc, n, locals[n])
    ELSE NoLocal(code, pc, n)

Started == \E s \in DOMAIN code : InBody(code, s)
PhaseAt ==
  /\ phase = "idle" => scope = <<>> /\ code = <<>> /\ functions = Empty
  /\ phase \in {"module", "parameters", "codegen"} => Len(scope) = 1
  /\ phase = "body" => Len(scope) > 1 /\ Started
  /\ phase \in {"parameters", "body"} =>
       /\ function.name \in Name
       /\ DOMAIN parameter.table \subseteq ParamNames(function)
  /\ phase = "parameters" => Len(code) < MaxCode
  /\ phase \in {"idle", "module", "parameters", "body"} => pc = 0 /\ locals = Empty
  /\ phase = "codegen" => pc \in 1 .. Len(code) + 1

\* What is left of functionParameter.
ParameterAt ==
  /\ parameter.state = "purged" => abandoned
  /\ phase \in {"idle", "module", "codegen", "generated"} => parameter.state # "live"
  /\ phase = "failed" /\ parameter.state = "live" => abandoned
  /\ phase \in {"parameters", "body"} => parameter.state = "live"
  /\ phase = "dangling" => abandoned

Working == {"module", "parameters", "body", "codegen"}

IInv ==
  /\ Typed
  /\ References
  /\ Disjoint(scope)
  /\ phase \in Working => Scoped(code, scope) /\ Analysed(code)
  /\ LocalsAt
  /\ PhaseAt
  /\ ParameterAt

-----------------------------------------------------------------------------
(* Tables and sequences.                                                   *)

LEMMA TableElement ==
  ASSUME NEW S, NEW T, NEW t \in Table(S, T)
  PROVE  /\ DOMAIN t \subseteq S
         /\ \A x \in DOMAIN t : t[x] \in T
         /\ t \in [DOMAIN t -> T]
BY DEF Table

LEMMA TableFrom ==
  ASSUME NEW S, NEW T, NEW D \in SUBSET S, NEW t \in [D -> T]
  PROVE  t \in Table(S, T)
BY DEF Table

LEMMA EmptyTable ==
  ASSUME NEW S, NEW T
  PROVE  Empty \in Table(S, T) /\ DOMAIN Empty = {}
<1>1. Empty \in [{} -> T]
  BY DEF Empty
<1> QED
  BY <1>1, TableFrom

\* Bind adds or replaces one name.
LEMMA BindTable ==
  ASSUME NEW S, NEW T, NEW t \in Table(S, T), NEW n \in S, NEW v \in T
  PROVE  Bind(t, n, v) \in Table(S, T)
<1>1. DOMAIN t \subseteq S /\ \A x \in DOMAIN t : t[x] \in T
  BY TableElement
<1>2. Bind(t, n, v) \in [DOMAIN t \cup {n} -> T]
  BY <1>1 DEF Bind
<1> QED
  BY <1>1, <1>2, TableFrom

-----------------------------------------------------------------------------
(* What one more place in the code keeps.  d is the code c and places after *)
(* it.                                                                     *)

Longer(c, d) == /\ c \in Seq(Item) /\ d \in Seq(Item) /\ Len(c) <= Len(d)
                /\ \A i \in 1 .. Len(c) : d[i] = c[i]

\* A use that semantic analysis resolves in the open scopes sc.
Sound(a, sc) ==
  \/ a.op = "initial" /\ phase = "module"
  \/ /\ a.op = "load" \/ a.op = "store"
     /\ phase = "body"
     /\ a.kind = "Variable"
     /\ \E i \in DOMAIN sc : a.name \in DOMAIN sc[i] /\ sc[i][a.name] = a.ref
  \/ /\ a.op = "load" \/ a.op = "store"
     /\ phase = "body"
     /\ a.kind = "Parameter"
     /\ a.name \in ParamNames(function)
  \/ /\ a.op = "call"
     /\ a.name \in DOMAIN functions
     /\ Len(functions[a.name].params) = a.ref

\* What is known of a place only depends on the places before it.
LEMMA Prefix ==
  ASSUME NEW c, NEW d, Longer(c, d), NEW i \in 1 .. Len(c) + 1, NEW n, NEW r
  PROVE  /\ LastLocal(c, i, n, r) <=> LastLocal(d, i, n, r)
         /\ NoLocal(c, i, n) <=> NoLocal(d, i, n)
         /\ StartOf(c, i, r) <=> StartOf(d, i, r)
         /\ GlobalAt(c, r, n) => GlobalAt(d, r, n)
<1>1. Len(c) \in Nat /\ Len(d) \in Nat
  BY DEF Longer
<1>2. \A k \in 1 .. i - 1 : k \in 1 .. Len(c) /\ d[k] = c[k]
  BY <1>1 DEF Longer
<1>3. LastLocal(c, i, n, r) <=> LastLocal(d, i, n, r)
  <2>1. CASE r \in 1 .. i - 1
    <3>1. c[r] = d[r] /\ \A k \in r + 1 .. i - 1 : c[k] = d[k]
      BY <1>1, <1>2, <2>1
    <3> QED
      BY <3>1 DEF LastLocal
  <2>2. CASE r \notin 1 .. i - 1
    BY <2>2 DEF LastLocal
  <2> QED
    BY <2>1, <2>2
<1>4. NoLocal(c, i, n) <=> NoLocal(d, i, n)
  BY <1>1, <1>2, SMTT(30) DEF NoLocal
<1>5. StartOf(c, i, r) <=> StartOf(d, i, r)
  BY <1>1, <1>2, SMTT(30) DEF StartOf
<1>6. GlobalAt(c, r, n) => GlobalAt(d, r, n)
  BY <1>1 DEF Longer, GlobalAt
<1> QED
  BY <1>3, <1>4, <1>5, <1>6

\* Uses do not change what the names mean after them.
LEMMA AfterUses ==
  ASSUME NEW c, NEW d, Longer(c, d), NEW n, NEW r,
         \A i \in Len(c) + 1 .. Len(d) : d[i].op \notin {"function", "local"},
         NEW i \in Len(c) + 1 .. Len(d) + 1
  PROVE  /\ LastLocal(c, Len(c) + 1, n, r) => LastLocal(d, i, n, r)
         /\ NoLocal(c, Len(c) + 1, n) => NoLocal(d, i, n)
         /\ StartOf(c, Len(c) + 1, r) => StartOf(d, i, r)
<1>1. Len(c) \in Nat /\ Len(d) \in Nat
  BY DEF Longer
<1>2. \A k \in 1 .. Len(c) : d[k] = c[k]
  BY DEF Longer
<1>3. \A k \in 1 .. i - 1 : k \in 1 .. Len(c) \/ k \in Len(c) + 1 .. Len(d)
  BY <1>1
<1>4. LastLocal(c, Len(c) + 1, n, r) => LastLocal(d, i, n, r)
  BY <1>1, <1>2, <1>3, SMTT(30) DEF LastLocal
<1>5. ASSUME NoLocal(c, Len(c) + 1, n) PROVE NoLocal(d, i, n)
  <2> SUFFICES ASSUME NEW q \in 1 .. i - 1, d[q].op = "local" /\ d[q].name = n
               PROVE  \E s \in q + 1 .. i - 1 : d[s].op = "function"
    BY DEF NoLocal
  <2>1. q \in 1 .. Len(c) /\ c[q] = d[q]
    BY <1>2, <1>3
  <2>2. PICK s \in q + 1 .. (Len(c) + 1) - 1 : c[s].op = "function"
    BY <1>1, <1>5, <2>1 DEF NoLocal
  <2>3. s \in 1 .. Len(c) /\ s \in q + 1 .. i - 1
    BY <1>1, <2>1
  <2> QED
    BY <1>2, <2>2, <2>3
<1>6. StartOf(c, Len(c) + 1, r) => StartOf(d, i, r)
  BY <1>1, <1>2, <1>3, SMTT(30) DEF StartOf
<1> QED
  BY <1>4, <1>5, <1>6

\* A place in the code stays resolved.
LEMMA KeepPlace ==
  ASSUME NEW c, NEW d, Longer(c, d), NEW i \in 1 .. Len(c), AnalysedAt(c, i),
         \A s : InBody(c, s) => InBody(d, s)
  PROVE  AnalysedAt(d, i)
<1>1. Len(c) \in Nat /\ i \in 1 .. Len(c) + 1 /\ d[i] = c[i]
  BY DEF Longer
<1>2. VariableFound(c, i) => VariableFound(d, i)
  BY <1>1, Prefix DEF VariableFound
<1>3. ASSUME ParameterFound(c, i) PROVE ParameterFound(d, i)
  <2>1. PICK s \in 1 .. i - 1 :
           /\ StartOf(c, i, s)
           /\ \/ /\ c[s].name \in DOMAIN functions
                 /\ c[i].name \in ParamNames(functions[c[s].name])
              \/ InBody(c, s) /\ c[i].name \in ParamNames(function)
    BY <1>3 DEF ParameterFound
  <2>2. StartOf(d, i, s) /\ d[s] = c[s]
    BY <1>1, <2>1, Prefix, SMTT(30) DEF Longer
  <2> QED
    BY <1>1, <2>1, <2>2 DEF ParameterFound
<1> QED
  BY <1>1, <1>2, <1>3 DEF AnalysedAt

\* Uses that resolve in the open scopes.
LEMMA ExtendCode ==
  ASSUME NEW c, NEW d, Longer(c, d), NEW sc,
         phase \in {"module", "body"},
         phase = "body" => \E s \in DOMAIN c : InBody(c, s),
         Scoped(c, sc), Analysed(c),
         DOMAIN sc = 1 .. Len(sc), Len(sc) \in Nat \ {0},
         \A i \in Len(c) + 1 .. Len(d) : Sound(d[i], sc)
  PROVE  /\ Scoped(d, sc) /\ Analysed(d)
         /\ \A s : InBody(c, s) => InBody(d, s)
<1>1. Len(c) \in Nat /\ Len(d) \in Nat /\ Len(c) <= Len(d)
  BY DEF Longer
<1>2. \A i \in Len(c) + 1 .. Len(d) : d[i].op \notin {"function", "local", "global"}
  BY DEF Sound
<1>3. \A k \in 1 .. Len(c) : d[k] = c[k]
  BY DEF Longer
<1>4. \A s : InBody(c, s) => InBody(d, s)
  <2> SUFFICES ASSUME NEW s, InBody(c, s) PROVE InBody(d, s)
    OBVIOUS
  <2>1. StartOf(c, Len(c) + 1, s) /\ Len(d) + 1 \in Len(c) + 1 .. Len(d) + 1
    BY <1>1 DEF InBody
  <2>2. StartOf(d, Len(d) + 1, s)
    BY <1>2, <2>1, AfterUses
  <2> QED
    BY <1>1, <1>3, <2>1, <2>2 DEF InBody, StartOf
<1>5. Scoped(d, sc)
  <2>1. ASSUME NEW i \in DOMAIN sc, NEW n \in DOMAIN sc[i]
        PROVE  /\ i = 1 => /\ GlobalAt(d, sc[i][n], n)
                           /\ phase = "body" => NoLocal(d, Len(d) + 1, n)
               /\ i > 1 => LastLocal(d, Len(d) + 1, n, sc[i][n])
    <3>1. Len(d) + 1 \in Len(c) + 1 .. Len(d) + 1 /\ 1 \in 1 .. Len(c) + 1
      BY <1>1
    <3>2. i = 1 => GlobalAt(d, sc[i][n], n)
      BY <2>1, <3>1, Prefix DEF Scoped
    <3>3. i = 1 /\ phase = "body" => NoLocal(d, Len(d) + 1, n)
      <4>1. i = 1 /\ phase = "body" => NoLocal(c, Len(c) + 1, n)
        BY <2>1 DEF Scoped
      <4> QED
        BY <1>2, <3>1, <4>1, AfterUses
    <3>4. i > 1 => LastLocal(d, Len(d) + 1, n, sc[i][n])
      <4>1. i > 1 => LastLocal(c, Len(c) + 1, n, sc[i][n])
        BY <2>1 DEF Scoped
      <4> QED
        BY <1>2, <3>1, <4>1, AfterUses
    <3> QED
      BY <3>2, <3>3, <3>4
  <2>2. ASSUME NEW i \in 1 .. Len(d), d[i].op = "global"
        PROVE  d[i].name \in DOMAIN sc[1] /\ sc[1][d[i].name] = i
    <3>1. i \in 1 .. Len(c)
      BY <1>1, <1>2, <2>2
    <3> QED
      BY <1>3, <2>2, <3>1 DEF Scoped
  <2> QED
    BY <2>1, <2>2 DEF Scoped
<1>6. ASSUME NEW i \in 1 .. Len(d) PROVE AnalysedAt(d, i)
  <2>1. CASE i \in 1 .. Len(c)
    BY <1>4, <2>1, KeepPlace DEF Analysed
  <2>2. CASE i \in Len(c) + 1 .. Len(d)
    <3>1. Sound(d[i], sc) /\ i \in Len(c) + 1 .. Len(d) + 1
      BY <1>1, <2>2
    <3>2. CASE d[i].op = "initial"
      BY <3>2 DEF AnalysedAt
    <3>3. CASE d[i].op = "call"
      BY <3>1, <3>3 DEF AnalysedAt, Sound
    <3>4. CASE d[i].op \in {"load", "store"} /\ d[i].kind = "Variable"
      <4>1. PICK k \in DOMAIN sc : d[i].name \in DOMAIN sc[k] /\ sc[k][d[i].name] = d[i].ref
        BY <3>1, <3>4 DEF Sound
      <4>2. phase = "body"
        BY <3>1, <3>4 DEF Sound
      <4>3. CASE k = 1
        <5>1. GlobalAt(c, d[i].ref, d[i].name) /\ NoLocal(c, Len(c) + 1, d[i].name)
          BY <4>1, <4>2, <4>3 DEF Scoped
        <5>2. GlobalAt(d, d[i].ref, d[i].name)
          BY <1>1, <1>3, <5>1 DEF GlobalAt
        <5>3. NoLocal(d, i, d[i].name)
          BY <1>2, <3>1, <5>1, AfterUses
        <5> QED
          BY <3>4, <5>2, <5>3 DEF AnalysedAt, VariableFound
      <4>4. CASE k > 1
        <5>1. LastLocal(c, Len(c) + 1, d[i].name, d[i].ref)
          BY <4>1, <4>4 DEF Scoped
        <5>2. LastLocal(d, i, d[i].name, d[i].ref)
          BY <1>2, <3>1, <5>1, AfterUses
        <5> QED
          BY <3>4, <5>2 DEF AnalysedAt, VariableFound
      <4> QED
        BY <4>1, <4>3, <4>4
    <3>5. CASE d[i].op \in {"load", "store"} /\ d[i].kind = "Parameter"
      <4>1. phase = "body" /\ d[i].name \in ParamNames(function)
        BY <3>1, <3>5 DEF Sound
      <4>2. PICK s \in DOMAIN c : InBody(c, s)
        BY <4>1
      <4>3. StartOf(d, i, s) /\ InBody(d, s)
        BY <1>2, <1>4, <3>1, <4>2, AfterUses DEF InBody
      <4>4. ParameterFound(d, i)
        BY <4>1, <4>3 DEF ParameterFound, StartOf
      <4> QED
        BY <3>5, <4>4 DEF AnalysedAt
    <3> QED
      BY <3>1, <3>2, <3>3, <3>4, <3>5 DEF Sound
  <2> QED
    BY <1>1, <2>1, <2>2
<1> QED
  BY <1>4, <1>5, <1>6 DEF Analysed

\* The code ends with the definition of n.
DefinedLast(d, n) ==
  d[Len(d)] = Access(IF phase = "module" THEN "global" ELSE "local",
                     "Variable", n, Len(d))

\* The scopes sd are sc with n, defined at v, in the innermost.
WithName(sc, sd, n, v) ==
  /\ sc \in Seq(Table(Name, Nat)) /\ sd \in Seq(Table(Name, Nat))
  /\ Len(sd) = Len(sc)
  /\ \A i \in DOMAIN sc : DOMAIN sd[i] = IF i = Len(sc) THEN DOMAIN sc[i] \cup {n}
                                        ELSE DOMAIN sc[i]
  /\ \A i \in DOMAIN sc : \A x \in DOMAIN sc[i] : sd[i][x] = sc[i][x]
  /\ sd[Len(sc)][n] = v

LEMMA BindInnermost ==
  ASSUME NEW sc \in Seq(Table(Name, Nat)), NEW n \in Name, NEW v \in Nat,
         Len(sc) >= 1, \A i \in DOMAIN sc : n \notin DOMAIN sc[i]
  PROVE  WithName(sc, [sc EXCEPT ![Len(sc)] = Bind(@, n, v)], n, v)
<1> DEFINE sd == [sc EXCEPT ![Len(sc)] = Bind(@, n, v)]
           m == Len(sc)
<1>1. m \in Nat /\ m \in DOMAIN sc /\ DOMAIN sc = 1 .. m
  OBVIOUS
<1>2. sc[m] \in Table(Name, Nat) /\ v \in Nat
  BY <1>1
<1>3. /\ Bind(sc[m], n, v) \in Table(Name, Nat)
      /\ DOMAIN Bind(sc[m], n, v) = DOMAIN sc[m] \cup {n}
      /\ Bind(sc[m], n, v)[n] = v
      /\ \A x \in DOMAIN sc[m] : x # n => Bind(sc[m], n, v)[x] = sc[m][x]
  <2>1. Bind(sc[m], n, v) \in Table(Name, Nat)
    BY <1>2, BindTable, Zenon
  <2> QED
    BY <2>1 DEF Bind
<1>4. sd \in Seq(Table(Name, Nat)) /\ Len(sd) = m /\ DOMAIN sd = 1 .. m
  BY <1>1, <1>3
<1>5. sd[m] = Bind(sc[m], n, v) /\ \A i \in DOMAIN sc : i # m => sd[i] = sc[i]
  BY <1>1
<1>6. /\ \A i \in DOMAIN sc : DOMAIN sd[i] = IF i = m THEN DOMAIN sc[i] \cup {n} ELSE DOMAIN sc[i]
      /\ \A i \in DOMAIN sc : \A x \in DOMAIN sc[i] : sd[i][x] = sc[i][x]
      /\ sd[m][n] = v
  BY <1>1, <1>3, <1>5
<1> QED
  BY <1>4, <1>6 DEF WithName

\* A definition of a name that is new in the open scopes.
LEMMA DefineCode ==
  ASSUME NEW c, NEW d, Longer(c, d), NEW sc, NEW sd, NEW n \in Name,
         WithName(sc, sd, n, Len(d)), Len(d) = Len(c) + 1,
         phase \in {"module", "body"}, Len(sc) >= 1,
         phase = "module" => Len(sc) = 1,
         phase = "body" => Len(sc) > 1,
         Scoped(c, sc), Analysed(c), Disjoint(sc),
         \A i \in DOMAIN sc : n \notin DOMAIN sc[i],
         DefinedLast(d, n)
  PROVE  /\ Disjoint(sd) /\ Scoped(d, sd) /\ Analysed(d)
         /\ \A s : InBody(c, s) => InBody(d, s)
<1> DEFINE m == Len(sc)
           v == Len(d)
<1>1. Len(c) \in Nat /\ Len(d) \in Nat /\ v \in Nat /\ m \in Nat /\ m \in DOMAIN sc
      /\ DOMAIN sc = 1 .. m /\ v = Len(c) + 1
  BY DEF Longer, WithName
<1>2. d[v] = Access(IF phase = "module" THEN "global" ELSE "local", "Variable", n, v)
  BY DEF DefinedLast
<1>4. Len(sd) = m /\ DOMAIN sd = 1 .. m
  BY DEF WithName
<1>6. /\ \A i \in DOMAIN sc : DOMAIN sd[i] = IF i = m THEN DOMAIN sc[i] \cup {n} ELSE DOMAIN sc[i]
      /\ \A i \in DOMAIN sc : \A x \in DOMAIN sc[i] : sd[i][x] = sc[i][x]
      /\ sd[m][n] = v
  BY DEF WithName
<1>7. ASSUME NEW i \in DOMAIN sd, NEW j \in DOMAIN sd,
             NEW x \in DOMAIN sd[i] \cap DOMAIN sd[j]
      PROVE  i = j
  <2>1. i \in DOMAIN sc /\ j \in DOMAIN sc
    BY <1>1, <1>4
  <2>2. CASE x = n
    BY <1>6, <1>7, <2>1, <2>2
  <2>3. CASE x # n
    <3>1. x \in DOMAIN sc[i] \cap DOMAIN sc[j]
      <4>1. \A k \in DOMAIN sc : \A y \in DOMAIN sd[k] : y # n => y \in DOMAIN sc[k]
        BY <1>6
      <4>2. x \in DOMAIN sd[i] /\ x \in DOMAIN sd[j]
        BY <1>7
      <4>3. x \in DOMAIN sc[i] /\ x \in DOMAIN sc[j]
        BY <2>1, <2>3, <4>1, <4>2
      <4> QED
        BY <4>3
    <3> QED
      BY <2>1, <3>1 DEF Disjoint
  <2> QED
    BY <2>2, <2>3
<1>8. \A k \in 1 .. Len(c) : d[k] = c[k]
  BY DEF Longer
<1>9. d[v].op # "function" /\ d[v].name = n
  BY <1>2 DEF Access
<1>10. \A s : InBody(c, s) => InBody(d, s)
  <2> SUFFICES ASSUME NEW s, InBody(c, s) PROVE InBody(d, s)
    OBVIOUS
  <2>1. s \in 1 .. Len(c) /\ s \in 1 .. Len(d)
    BY <1>1 DEF InBody, StartOf
  <2>2. \A k \in s + 1 .. (Len(d) + 1) - 1 : k \in s + 1 .. (Len(c) + 1) - 1 \/ k = v
    BY <1>1, <2>1
  <2>3. StartOf(d, Len(d) + 1, s)
    BY <1>1, <1>8, <1>9, <2>1, <2>2 DEF InBody, StartOf
  <2> QED
    BY <1>8, <2>1, <2>3 DEF InBody
<1>11. Scoped(d, sd)
  <2>1. ASSUME NEW i \in DOMAIN sc, NEW x \in DOMAIN sc[i]
        PROVE  /\ i = 1 => /\ GlobalAt(d, sc[i][x], x)
                           /\ phase = "body" => NoLocal(d, Len(d) + 1, x)
               /\ i > 1 => LastLocal(d, Len(d) + 1, x, sc[i][x])
    <3>1. x # n
      BY <2>1
    <3>2. i = 1 => GlobalAt(d, sc[i][x], x)
      BY <1>1, <1>8, <2>1 DEF Scoped, GlobalAt
    <3>3. ASSUME i = 1, phase = "body" PROVE NoLocal(d, Len(d) + 1, x)
      <4>1. NoLocal(c, Len(c) + 1, x)
        BY <2>1, <3>3 DEF Scoped
      <4> SUFFICES ASSUME NEW q \in 1 .. (Len(d) + 1) - 1, d[q].op = "local" /\ d[q].name = x
                   PROVE  \E s \in q + 1 .. (Len(d) + 1) - 1 : d[s].op = "function"
        BY DEF NoLocal
      <4>2. q \in 1 .. (Len(c) + 1) - 1 /\ c[q] = d[q]
        BY <1>1, <1>8, <1>9, <3>1
      <4>3. PICK s \in q + 1 .. (Len(c) + 1) - 1 : c[s].op = "function"
        BY <4>1, <4>2 DEF NoLocal
      <4>4. s \in 1 .. Len(c) /\ s \in q + 1 .. (Len(d) + 1) - 1
        BY <1>1, <4>2
      <4> QED
        BY <1>8, <4>3, <4>4
    <3>4. ASSUME i > 1 PROVE LastLocal(d, Len(d) + 1, x, sc[i][x])
      <4> DEFINE r == sc[i][x]
      <4>1. LastLocal(c, Len(c) + 1, x, r)
        BY <2>1, <3>4 DEF Scoped
      <4> HIDE DEF r
      <4>2. r \in 1 .. Len(c) /\ r \in 1 .. Len(d)
        BY <1>1, <4>1 DEF LastLocal
      <4>3. \A k \in r + 1 .. (Len(d) + 1) - 1 :
              (k \in r + 1 .. (Len(c) + 1) - 1 /\ d[k] = c[k]) \/ k = v
        BY <1>1, <1>8, <4>2, SMTT(30)
      <4>4. LastLocal(d, Len(d) + 1, x, r)
        BY <1>1, <1>8, <1>9, <3>1, <4>1, <4>2, <4>3 DEF LastLocal
      <4> QED
        BY <4>4 DEF r
    <3> QED
      BY <3>2, <3>3, <3>4
  <2>2. /\ m = 1 => GlobalAt(d, v, n) /\ phase # "body"
        /\ m > 1 => LastLocal(d, Len(d) + 1, n, v)
    BY <1>1, <1>2 DEF Access, GlobalAt, LastLocal
  <2>3. ASSUME NEW i \in DOMAIN sd, NEW x \in DOMAIN sd[i]
        PROVE  /\ i = 1 => /\ GlobalAt(d, sd[i][x], x)
                           /\ phase = "body" => NoLocal(d, Len(d) + 1, x)
               /\ i > 1 => LastLocal(d, Len(d) + 1, x, sd[i][x])
    <3>1. CASE i = m /\ x = n
      BY <1>6, <2>2, <3>1
    <3>2. CASE ~(i = m /\ x = n)
      <4>1. i \in DOMAIN sc /\ x \in DOMAIN sc[i] /\ sd[i][x] = sc[i][x]
        BY <1>1, <1>4, <1>6, <2>3, <3>2
      <4> QED
        BY <2>1, <4>1
    <3> QED
      BY <3>1, <3>2
  <2>4. ASSUME NEW i \in 1 .. Len(d), d[i].op = "global"
        PROVE  d[i].name \in DOMAIN sd[1] /\ sd[1][d[i].name] = i
    <3>1. CASE i = v
      <4>1. phase = "module" /\ m = 1 /\ d[i].name = n
        BY <1>2, <2>4, <3>1 DEF Access
      <4> QED
        BY <1>1, <1>6, <3>1, <4>1
    <3>2. CASE i # v
      <4>1. i \in 1 .. Len(c) /\ c[i] = d[i] /\ 1 \in DOMAIN sc
        BY <1>1, <1>8, <3>2
      <4>2. c[i].name \in DOMAIN sc[1] /\ sc[1][c[i].name] = i
        BY <2>4, <4>1 DEF Scoped
      <4> QED
        <5>1. \A x \in DOMAIN sc[1] : x \in DOMAIN sd[1] /\ sd[1][x] = sc[1][x]
          BY <1>6, <4>1
        <5>2. c[i].name \in DOMAIN sd[1] /\ sd[1][c[i].name] = i
          BY <4>2, <5>1
        <5> QED
          BY <4>1, <5>2
    <3> QED
      BY <3>1, <3>2
  <2> QED
    BY <2>3, <2>4 DEF Scoped
<1>12. ASSUME NEW i \in 1 .. Len(d) PROVE AnalysedAt(d, i)
  <2>1. CASE i \in 1 .. Len(c)
    BY <1>10, <2>1, KeepPlace DEF Analysed
  <2>2. CASE i = v
    BY <1>2, <2>2 DEF AnalysedAt, Access
  <2> QED
    BY <1>1, <2>1, <2>2
<1>13. Analysed(d)
  BY <1>12 DEF Analysed
<1> QED
  BY <1>7, <1>10, <1>11, <1>13 DEF Disjoint

\* What the tables are set to.
LEMMA NoTables ==
  /\ Empty \in Table(Name, Nat) /\ Empty \in Table(Name, FunctionRecord)
  /\ DOMAIN Empty = {}
  /\ NullTable \in [state : {"null", "live", "purged"}, table : Table(Name, Qualifier)]
  /\ [state |-> "live", table |-> Empty]
       \in [state : {"null", "live", "purged"}, table : Table(Name, Qualifier)]
  /\ [state |-> "purged", table |-> Empty]
       \in [state : {"null", "live", "purged"}, table : Table(Name, Qualifier)]
  /\ NoFunction \in FunctionRecord
  /\ MaxCode \in Nat
<1>1. /\ Empty \in Table(Name, Nat) /\ Empty \in Table(Name, FunctionRecord)
      /\ Empty \in Table(Name, Qualifier) /\ DOMAIN Empty = {}
  BY EmptyTable, Zenon
<1>2. NoFunction \in FunctionRecord
  BY DEF NoFunction, FunctionRecord, FunctionKind
<1> QED
  BY <1>1, <1>2, BoundsAssumption DEF NullTable

\* Scoped and Analysed depend on these variables only.
LEMMA SameCode ==
  ASSUME NEW d, NEW sd, code' = d, scope' = sd,
         UNCHANGED <<phase, function, functions>>
  PROVE  /\ Scoped(d, sd) => Scoped(code, scope)'
         /\ Analysed(d) => Analysed(code)'
         /\ \A s : InBody(d, s) => InBody(code, s)'
<1>1. Scoped(d, sd) => Scoped(code, scope)'
  BY DEF Scoped, GlobalAt, NoLocal, LastLocal
<1>2. \A s : InBody(d, s) <=> InBody(code, s)'
  BY DEF InBody, StartOf
<1>3. \A i : VariableFound(d, i) <=> VariableFound(code, i)'
  BY DEF VariableFound, LastLocal, NoLocal, GlobalAt
<1>4. \A i : ParameterFound(d, i) <=> ParameterFound(code, i)'
  <2>1. \A i, s : StartOf(d, i, s) <=> StartOf(code, i, s)'
    BY DEF StartOf
  <2>2. /\ \A n : functions'[n] = functions[n]
        /\ DOMAIN functions' = DOMAIN functions /\ function' = function
    OBVIOUS
  <2> QED
    BY <1>2, <2>1, <2>2 DEF ParameterFound
<1>5. Analysed(d) => Analysed(code)'
  BY <1>2, <1>3, <1>4 DEF Analysed, AnalysedAt
<1> QED
  BY <1>1, <1>2, <1>5

-----------------------------------------------------------------------------
(* Steps of semantic analysis.                                             *)

\* Nothing is open, and there is no code.
LEMMA InitIInv == Init => IInv
<1> SUFFICES ASSUME Init PROVE IInv
  OBVIOUS
<1> USE DEF Init
<1>1. Typed
  <2>1. pc \in 0 .. MaxCode + 1 /\ Len(code) <= MaxCode
    BY NoTables
  <2>2. scope \in Seq(Table(Name, Nat)) /\ code \in Seq(Item)
    OBVIOUS
  <2> QED
    BY <2>1, <2>2, NoTables DEF Typed, Phases
<1>2. References
  BY NoTables DEF References
<1> QED
  BY <1>1, <1>2 DEF IInv, Disjoint, Working, LocalsAt, PhaseAt, ParameterAt, NullTable

\* An error leaves nothing of the module but functionParameter.
LEMMA FailStep ==
  ASSUME IInv, phase \in {"module", "parameters", "body"}, Fail
  PROVE  IInv'
<1> USE DEF IInv, Fail
<1>1. locals = Empty
  BY DEF PhaseAt
<1>2. Typed'
  BY NoTables DEF Typed, Phases
<1>3. References'
  BY <1>1, NoTables DEF References
<1>4. ParameterAt'
  BY DEF ParameterAt, Typed
<1> QED
  BY <1>2, <1>3, <1>4 DEF Disjoint, Working, LocalsAt, PhaseAt

LEMMA DanglingStep ==
  ASSUME IInv, parameter.state = "purged", Dangling
  PROVE  IInv'
<1> USE DEF IInv, Dangling
<1>1. Typed'
  BY DEF Typed, Phases
<1>2. References' /\ Disjoint(scope)'
  BY DEF References, Disjoint
<1>3. ParameterAt'
  BY DEF ParameterAt
<1> QED
  BY <1>1, <1>2, <1>3 DEF Working, LocalsAt, PhaseAt

\* The uses that resolve, and what the resolution of an expression returns.
Uses == {a \in Item : Sound(a, scope)}
Outcome(r) ==
  \/ \E items \in Seq(Uses) : r = Result("ok", items)
  \/ \E items : r = Result("error", items)
  \/ /\ \E items : r = Result("dangling", items)
     /\ parameter.state = "purged"

\* c and uses after it.
LEMMA Concatenated ==
  ASSUME NEW c \in Seq(Item), NEW items \in Seq(Uses), NEW d, d = c \o items
  PROVE  /\ Longer(c, d) /\ Len(d) = Len(c) + Len(items)
         /\ \A i \in Len(c) + 1 .. Len(d) : Sound(d[i], scope)
<1>1. items \in Seq(Item) /\ \A i \in 1 .. Len(items) : Sound(items[i], scope)
  BY DEF Uses
<1>2. /\ d \in Seq(Item) /\ Len(d) = Len(c) + Len(items)
      /\ \A i \in 1 .. Len(c) + Len(items) :
           d[i] = IF i <= Len(c) THEN c[i] ELSE items[i - Len(c)]
  BY <1>1
<1>3. Len(c) \in Nat /\ Len(items) \in Nat
  OBVIOUS
<1>4. Longer(c, d)
  BY <1>2, <1>3 DEF Longer
<1>5. ASSUME NEW i \in Len(c) + 1 .. Len(d) PROVE Sound(d[i], scope)
  <2>1. d[i] = items[i - Len(c)] /\ i - Len(c) \in 1 .. Len(items)
    BY <1>2, <1>3
  <2> QED
    BY <1>1, <2>1
<1> QED
  BY <1>2, <1>4, <1>5

\* An identifier resolves to what Sound says.
LEMMA ResolveOutcome ==
  ASSUME IInv, phase \in {"module", "body"}, NEW n \in Name, NEW readable, NEW op,
         \/ op = "initial" /\ phase = "module"
         \/ (op = "load" \/ op = "store") /\ phase = "body"
  PROVE  Outcome(Resolve(op, n, readable))
<1>1. CASE IsVariable(n)
  <2>1. PICK k \in DOMAIN scope : n \in DOMAIN scope[k]
    BY <1>1 DEF IsVariable, ScopesWith
  <2>2. ScopesWith(n) = {k}
    BY <2>1 DEF IInv, Disjoint, ScopesWith
  <2>3. scope[k][n] \in Nat
    <3>1. scope[k][n] \in DOMAIN code /\ DOMAIN code = 1 .. Len(code)
      BY <2>1 DEF IInv, Typed, References
    <3> QED
      BY <3>1
  <2>4. VariableOf(n) = scope[k][n]
    <3>1. scope \in Seq(Table(Name, Nat))
      BY DEF IInv, Typed
    <3>2. k \in Nat /\ k <= k
      BY <2>1, <3>1
    <3>3. Outermost({k}) = k
      BY <3>2 DEF Outermost
    <3> QED
      BY <2>2, <3>3 DEF VariableOf
  <2> DEFINE a == Access(op, "Variable", n, scope[k][n])
  <2>5. a \in Uses
    BY <2>1, <2>3 DEF Uses, Sound, Access, Item, Operation
  <2>6. <<a>> \in Seq(Uses)
    BY <2>5
  <2>7. Resolve(op, n, readable) = Result("ok", <<a>>)
    BY <1>1, <2>4 DEF Resolve
  <2> QED
    BY <2>6, <2>7 DEF Outcome
<1>2. CASE ~IsVariable(n)
  <2>1. CASE parameter.state = "purged"
    BY <1>2, <2>1 DEF Resolve, Outcome
  <2>2. CASE /\ parameter.state # "purged"
             /\ n \in DOMAIN parameter.table /\ parameter.table[n] \in readable
    <3> DEFINE a == Access(op, "Parameter", n, 0)
    <3>1. phase = "body" => n \in ParamNames(function)
      BY <2>2 DEF IInv, PhaseAt
    <3>2. a \in Uses
      BY <3>1 DEF Uses, Sound, Access, Item, Operation
    <3>3. <<a>> \in Seq(Uses)
      BY <3>2
    <3>4. Resolve(op, n, readable) = Result("ok", <<a>>)
      BY <1>2, <2>2 DEF Resolve
    <3> QED
      BY <3>3, <3>4 DEF Outcome
  <2> QED
    BY <1>2, <2>1, <2>2 DEF Resolve, Outcome
<1> QED
  BY <1>1, <1>2

LEMMA EvaluateOutcome ==
  ASSUME IInv, phase \in {"module", "body"}, NEW e \in Expression
  PROVE  Outcome(Evaluate(e))
<1>1. CASE e = Constant
  <2>1. <<>> \in Seq(Uses)
    OBVIOUS
  <2> QED
    BY <1>1, <2>1 DEF Evaluate, Outcome
<1>2. CASE e # Constant
  <2>1. e \in Name
    BY <1>2 DEF Expression
  <2>2. CASE phase = "module"
    BY <1>2, <2>1, <2>2, ResolveOutcome DEF Evaluate
  <2>3. CASE phase = "body"
    BY <1>2, <2>1, <2>3, ResolveOutcome DEF Evaluate
  <2> QED
    BY <2>2, <2>3
<1> QED
  BY <1>1, <1>2

\* Uses that resolve keep the invariant, and so does the scope of a block
\* that opens after them.
LEMMA UseStep ==
  ASSUME IInv, phase \in {"module", "body"}, NEW items \in Seq(Uses),
         Len(code) + Len(items) <= MaxCode, code' = code \o items,
         \/ scope' = scope
         \/ phase = "body" /\ scope' = Append(scope, Empty),
         UNCHANGED <<phase, parameter, function, functions, pc, locals, abandoned>>
  PROVE  IInv'
<1> DEFINE c == code
           d == code \o items
<1>1. /\ code \in Seq(Item) /\ Longer(c, d) /\ Len(d) = Len(c) + Len(items)
      /\ \A i \in Len(c) + 1 .. Len(d) : Sound(d[i], scope)
  <2>1. code \in Seq(Item)
    BY DEF IInv, Typed
  <2>2. c \in Seq(Item) /\ d = c \o items
    BY <2>1
  <2> HIDE DEF c, d
  <2>3. Longer(c, d) /\ Len(d) = Len(c) + Len(items)
    BY <2>2, Concatenated
  <2>4. \A i \in Len(c) + 1 .. Len(d) : Sound(d[i], scope)
    BY <2>2, Concatenated, Zenon
  <2> QED
    BY <2>1, <2>3, <2>4
<1>2. Len(c) \in Nat /\ Len(items) \in Nat /\ d \in Seq(Item)
  BY <1>1 DEF Longer
<1>3. /\ scope \in Seq(Table(Name, Nat)) /\ Len(scope) \in Nat \ {0}
      /\ DOMAIN scope = 1 .. Len(scope)
  <2>1. scope \in Seq(Table(Name, Nat))
    BY DEF IInv, Typed
  <2>2. Len(scope) = 1 \/ Len(scope) > 1
    BY DEF IInv, PhaseAt
  <2>3. Len(scope) \in Nat /\ DOMAIN scope = 1 .. Len(scope)
    BY <2>1
  <2> QED
    BY <2>1, <2>2, <2>3
<1>4. /\ Scoped(d, scope) /\ Analysed(d)
      /\ \A s : InBody(c, s) => InBody(d, s)
  <2>1. Scoped(c, scope) /\ Analysed(c)
    BY DEF IInv, Working
  <2>2. phase = "body" => \E s \in DOMAIN c : InBody(c, s)
    BY DEF IInv, PhaseAt, Started
  <2>3. Longer(c, d) /\ \A i \in Len(c) + 1 .. Len(d) : Sound(d[i], scope)
    BY <1>1
  <2> HIDE DEF c, d
  <2> QED
    BY <1>3, <2>1, <2>2, <2>3, ExtendCode
<1>5. /\ scope' \in Seq(Table(Name, Nat)) /\ Len(scope') \in Nat
      /\ DOMAIN scope' = 1 .. Len(scope')
      /\ phase = "module" => Len(scope') = Len(scope)
      /\ Len(scope') >= Len(scope)
      /\ \A i \in DOMAIN scope' : \A n \in DOMAIN scope'[i] :
           i \in DOMAIN scope /\ scope'[i] = scope[i]
      /\ DOMAIN scope'[1] = DOMAIN scope[1] /\ scope'[1] = scope[1]
  <2>1. CASE scope' = scope
    BY <1>3, <2>1
  <2>2. CASE phase = "body" /\ scope' = Append(scope, Empty)
    <3>1. /\ scope' \in Seq(Table(Name, Nat)) /\ Len(scope') = Len(scope) + 1
          /\ DOMAIN scope' = 1 .. Len(scope) + 1
          /\ scope'[Len(scope) + 1] = Empty
          /\ \A i \in 1 .. Len(scope) : scope'[i] = scope[i]
      BY <1>3, <2>2, NoTables
    <3>2. ASSUME NEW i \in DOMAIN scope', NEW n \in DOMAIN scope'[i]
          PROVE  i \in DOMAIN scope /\ scope'[i] = scope[i]
      <4>1. i # Len(scope) + 1
        BY <3>1, <3>2, NoTables
      <4> QED
        BY <1>3, <3>1, <4>1
    <3> QED
      BY <1>3, <2>2, <3>1, <3>2
  <2> QED
    BY <2>1, <2>2
<1>6. Scoped(d, scope')
  BY <1>3, <1>4, <1>5 DEF Scoped
<1>7. Disjoint(scope)'
  BY <1>5 DEF IInv, Disjoint
<1>8. phase' \in Working => Scoped(code, scope)' /\ Analysed(code)'
  BY <1>4, <1>6, SameCode
<1>9. PhaseAt'
  <2>1. ASSUME phase = "body" PROVE Len(scope') > 1 /\ Started'
    <3>1. Len(scope) > 1 /\ Started
      BY <2>1 DEF IInv, PhaseAt
    <3>2. PICK s \in DOMAIN code : InBody(code, s)
      BY <3>1 DEF Started
    <3>3. s \in 1 .. Len(d) /\ InBody(d, s)
      BY <1>1, <1>2, <1>4, <3>2
    <3>4. code' = d
      OBVIOUS
    <3> HIDE DEF d
    <3>5. InBody(code, s)'
      BY <3>3, <3>4 DEF InBody
    <3>6. s \in DOMAIN code'
      BY <1>2, <3>3, <3>4
    <3>7. Started'
      BY <3>5, <3>6, Zenon DEF Started, InBody
    <3>8. Len(scope) \in Nat /\ Len(scope') \in Nat /\ Len(scope') >= Len(scope)
      BY <1>3, <1>5
    <3>9. Len(scope') > 1
      BY <3>1, <3>8
    <3> QED
      BY <3>7, <3>9
  <2>2. phase = "module" => Len(scope') = 1
    BY <1>5 DEF IInv, PhaseAt
  <2> QED
    BY <2>1, <2>2 DEF IInv, PhaseAt
<1>10. Typed'
  <2>1. code' \in Seq(Item) /\ Len(code') <= MaxCode
    BY <1>1, <1>2
  <2> QED
    BY <1>5, <2>1 DEF IInv, Typed
<1>11. References'
  <2>1. locals' = Empty
    BY DEF IInv, PhaseAt
  <2>2. \A i \in DOMAIN scope' : \A n \in DOMAIN scope'[i] : scope'[i][n] \in DOMAIN d
    <3>1. DOMAIN code \subseteq DOMAIN d
      BY <1>1, <1>2
    <3> QED
      BY <1>5, <3>1 DEF IInv, References
  <2> QED
    BY <2>1, <2>2, NoTables DEF References
<1> QED
  BY <1>7, <1>8, <1>9, <1>10, <1>11 DEF IInv, LocalsAt, ParameterAt

\* A definition after the uses in its initializer keeps the invariant.
LEMMA DefineStep ==
  ASSUME IInv, phase \in {"module", "body"}, NEW n \in Name, NEW items \in Seq(Uses),
         AddVarToScope(n, items)
  PROVE  IInv'
<1> DEFINE v == Len(code) + Len(items) + 1
           c == code \o items
           a == Access(IF phase = "module" THEN "global" ELSE "local", "Variable", n, v)
           sd == [scope EXCEPT ![Len(scope)] = Bind(@, n, v)]
<1>1. CASE IsVariable(n)
  BY <1>1, FailStep DEF AddVarToScope
<1>2. CASE ~IsVariable(n)
  <2>1. /\ v <= MaxCode /\ code' = c \o <<a>> /\ scope' = sd
        /\ UNCHANGED <<phase, parameter, function, functions, pc, locals, abandoned>>
    BY <1>2 DEF AddVarToScope
  <2>2. code \in Seq(Item) /\ scope \in Seq(Table(Name, Nat))
    BY DEF IInv, Typed
  <2>3. /\ Longer(code, c) /\ Len(c) = Len(code) + Len(items)
        /\ \A i \in Len(code) + 1 .. Len(c) : Sound(c[i], scope)
    <3>1. c = code \o items
      OBVIOUS
    <3> HIDE DEF c
    <3>2. Longer(code, c) /\ Len(c) = Len(code) + Len(items)
      BY <2>2, <3>1, Concatenated
    <3>3. \A i \in Len(code) + 1 .. Len(c) : Sound(c[i], scope)
      BY <2>2, <3>1, Concatenated, Zenon
    <3> QED
      BY <3>2, <3>3
  <2>4. /\ Len(code) \in Nat /\ Len(items) \in Nat /\ Len(scope) \in Nat
        /\ DOMAIN scope = 1 .. Len(scope)
        /\ DOMAIN code = 1 .. Len(code)
    BY <2>2
  <2>5. c \in Seq(Item)
    BY <2>3 DEF Longer
  <2> HIDE DEF c
  <2>6. Len(c) \in Nat /\ v = Len(c) + 1 /\ v \in Nat
    BY <2>3, <2>4
  <2> HIDE DEF v
  <2>7. a \in Item
    BY <2>6 DEF Access, Item, Operation
  <2>8. /\ code' \in Seq(Item) /\ Len(code') = v /\ code'[v] = a
        /\ \A i \in 1 .. Len(c) : code'[i] = c[i]
    <3> HIDE DEF a
    <3> QED
      BY <2>1, <2>5, <2>6, <2>7
  <2>9. Longer(c, code')
    BY <2>5, <2>6, <2>8 DEF Longer
  <2>10. /\ Len(scope) >= 1
         /\ phase = "module" => Len(scope) = 1
         /\ phase = "body" => Len(scope) > 1
    BY <2>4 DEF IInv, PhaseAt
  <2>11. \A i \in DOMAIN scope : n \notin DOMAIN scope[i]
    BY <1>2 DEF IsVariable, ScopesWith
  <2>12. /\ Scoped(c, scope) /\ Analysed(c)
         /\ \A s : InBody(code, s) => InBody(c, s)
    <3>1. phase = "body" => \E s \in DOMAIN code : InBody(code, s)
      BY DEF IInv, PhaseAt, Started
    <3>2. Scoped(code, scope) /\ Analysed(code)
      BY DEF IInv, Working
    <3> QED
      BY <2>3, <2>4, <2>10, <3>1, <3>2, ExtendCode, SMTT(30)
  <2>13. Disjoint(scope)
    BY DEF IInv
  <2>14. sd \in Seq(Table(Name, Nat)) /\ Len(sd) = Len(scope) /\ WithName(scope, sd, n, v)
    <3>1. WithName(scope, sd, n, v)
      BY <2>2, <2>6, <2>10, <2>11, BindInnermost
    <3> QED
      BY <3>1 DEF WithName
  <2> HIDE DEF sd
  <2>15. /\ Disjoint(sd) /\ Scoped(code', sd) /\ Analysed(code')
         /\ \A s : InBody(c, s) => InBody(code', s)
    <3>1. DefinedLast(code', n)
      BY <2>8 DEF DefinedLast
    <3>2. WithName(scope, sd, n, Len(code')) /\ Len(code') = Len(c) + 1
      BY <2>6, <2>8, <2>14
    <3> QED
      BY <2>9, <2>10, <2>11, <2>12, <2>13, <3>1, <3>2, DefineCode
  <2>16. Typed'
    BY <2>1, <2>6, <2>8, <2>14 DEF IInv, Typed
  <2>17. References'
    <3>1. locals' = Empty
      BY <2>1 DEF IInv, PhaseAt
    <3>2. DOMAIN code' = 1 .. v
      BY <2>8
    <3>3. ASSUME NEW i \in DOMAIN sd, NEW x \in DOMAIN sd[i]
          PROVE  sd[i][x] \in 1 .. v
      <4>1. i = 1 => GlobalAt(code', sd[i][x], x)
        BY <2>15, <3>3 DEF Scoped
      <4>2. i > 1 => LastLocal(code', Len(code') + 1, x, sd[i][x])
        BY <2>15, <3>3 DEF Scoped
      <4>3. i = 1 \/ i > 1
        BY <2>14, <3>3
      <4> QED
        BY <2>6, <2>8, <4>1, <4>2, <4>3 DEF GlobalAt, LastLocal
    <3> QED
      BY <2>1, <3>1, <3>2, <3>3, NoTables DEF References
  <2>18. PhaseAt'
    <3>1. ASSUME phase = "body" PROVE Started'
      <4>1. PICK s \in DOMAIN code : InBody(code, s)
        BY <3>1 DEF IInv, PhaseAt, Started
      <4>2. InBody(code', s) /\ s \in 1 .. v
        BY <2>3, <2>4, <2>6, <2>12, <2>15, <4>1
      <4>3. s \in DOMAIN code' /\ InBody(code, s)'
        BY <2>1, <2>8, <4>2 DEF InBody
      <4> QED
        BY <4>3, Zenon DEF Started, InBody
    <3> QED
      BY <2>1, <2>10, <2>14, <3>1 DEF IInv, PhaseAt
  <2>19. (phase \in Working)' => Scoped(code, scope)' /\ Analysed(code)'
    BY <2>1, <2>15, SameCode
  <2>20. Disjoint(scope)'
    BY <2>1, <2>15 DEF Disjoint
  <2> QED
    BY <2>1, <2>16, <2>17, <2>18, <2>19, <2>20 DEF IInv, LocalsAt, ParameterAt
<1> QED
  BY <1>1, <1>2

\* A statement that resolves, or does not.
LEMMA AcceptStep ==
  ASSUME IInv, phase \in {"module", "body"}, NEW res, Outcome(res), Accept(res)
  PROVE  IInv'
<1>1. ASSUME NEW items \in Seq(Uses), res = Result("ok", items) PROVE IInv'
  <2>1. res.status = "ok" /\ res.items = items
    BY <1>1 DEF Result
  <2> QED
    BY <2>1, UseStep DEF Accept
<1>2. CASE \E items : res = Result("error", items)
  <2>1. res.status = "error"
    BY <1>2 DEF Result
  <2> QED
    BY <2>1, FailStep DEF Accept
<1>3. CASE /\ \E items : res = Result("dangling", items)
           /\ parameter.state = "purged"
  <2>1. res.status = "dangling"
    BY <1>3 DEF Result
  <2> QED
    BY <1>3, <2>1, DanglingStep DEF Accept
<1> QED
  BY <1>1, <1>2, <1>3 DEF Outcome

\* An outcome with the uses of another one after it.
LEMMA OutcomeWith ==
  ASSUME NEW res, Outcome(res), NEW more \in Seq(Uses)
  PROVE  Outcome([res EXCEPT !.items = @ \o more])
<1> DEFINE all == res.items \o more
           with == [res EXCEPT !.items = all]
<1>1. ASSUME NEW status, NEW items, res = Result(status, items)
      PROVE  with = Result(status, all) /\ res.items = items
  <2>1. res.items = items
    BY <1>1 DEF Result
  <2> HIDE DEF all
  <2> QED
    BY <1>1, <2>1 DEF Result
<1>2. ASSUME NEW items \in Seq(Uses), res = Result("ok", items) PROVE all \in Seq(Uses)
  BY <1>1, <1>2
<1> HIDE DEF all, with
<1>3. Outcome(with)
  <2>1. CASE \E items \in Seq(Uses) : res = Result("ok", items)
    <3>1. with = Result("ok", all) /\ all \in Seq(Uses)
      BY <1>1, <1>2, <2>1
    <3> QED
      BY <3>1 DEF Outcome
  <2>2. CASE \E items : res = Result("error", items)
    BY <1>1, <2>2 DEF Outcome
  <2>3. CASE /\ \E items : res = Result("dangling", items)
             /\ parameter.state = "purged"
    BY <1>1, <2>3 DEF Outcome
  <2> QED
    BY <2>1, <2>2, <2>3 DEF Outcome
<1> QED
  BY <1>3 DEF with, all

LEMMA DeclareStep ==
  ASSUME IInv, NEW n \in Name, CreateDecl(n)
  PROVE  IInv'
<1>1. <<>> \in Seq(Uses)
  OBVIOUS
<1> QED
  BY <1>1, DefineStep DEF CreateDecl

LEMMA CreateDefStep ==
  ASSUME IInv, NEW n \in Name, NEW e \in Expression, CreateDef(n, e)
  PROVE  IInv'
<1> DEFINE init == Evaluate(e)
<1>1. phase \in {"module", "body"} /\ Outcome(init)
  BY EvaluateOutcome DEF CreateDef
<1>2. ASSUME NEW items \in Seq(Uses), init = Result("ok", items) PROVE IInv'
  <2>1. init.status = "ok" /\ init.items = items
    BY <1>2 DEF Result
  <2>2. AddVarToScope(n, items)
    BY <2>1 DEF CreateDef
  <2> QED
    BY <1>1, <2>2, DefineStep
<1>3. CASE \E items : init = Result("error", items)
  <2>1. init.status = "error"
    BY <1>3 DEF Result
  <2>2. phase' = "null" /\ UNCHANGED <<scope, parameter, function, functions, code, pc,
                                      locals, abandoned>>
    BY <2>1 DEF CreateDef
  <2> QED
    BY <2>2 DEF IInv, Typed, Phases, References, Disjoint, Working, LocalsAt,
                PhaseAt, ParameterAt
<1>4. CASE /\ \E items : init = Result("dangling", items)
           /\ parameter.state = "purged"
  <2>1. init.status = "dangling"
    BY <1>4 DEF Result
  <2> QED
    BY <1>4, <2>1, DanglingStep DEF CreateDef
<1> QED
  BY <1>1, <1>2, <1>3, <1>4 DEF Outcome

LEMMA CreateAssignStep ==
  ASSUME IInv, NEW n \in Name, NEW e \in Expression, CreateAssign(n, e)
  PROVE  IInv'
<1> DEFINE to == Store(n)
           value == Evaluate(e)
<1>1. phase = "body" /\ Outcome(to) /\ Outcome(value)
  BY EvaluateOutcome, ResolveOutcome DEF CreateAssign, Store
<1>2. CASE to.status # "ok"
  BY <1>1, <1>2, AcceptStep DEF CreateAssign
<1>3. CASE to.status = "ok"
  <2>1. PICK items \in Seq(Uses) : to = Result("ok", items)
    BY <1>1, <1>3 DEF Outcome, Result
  <2>2. to.items = items
    BY <2>1 DEF Result
  <2>3. Accept([value EXCEPT !.items = @ \o items])
    BY <1>3, <2>2 DEF CreateAssign
  <2>4. Outcome([value EXCEPT !.items = @ \o items])
    BY <1>1, OutcomeWith
  <2> QED
    BY <1>1, <2>3, <2>4, AcceptStep
<1> QED
  BY <1>2, <1>3

LEMMA CreateReturnStep ==
  ASSUME IInv, NEW e \in Expression, CreateReturn(e)
  PROVE  IInv'
BY EvaluateOutcome, AcceptStep DEF CreateReturn

LEMMA CreateFuncallStep ==
  ASSUME IInv, NEW f \in Name,
         NEW args \in {<<>>} \cup {<<e>> : e \in Expression}, CreateFuncall(f, args)
  PROVE  IInv'
<1>1. phase = "body"
  BY DEF CreateFuncall
<1>2. CASE ~(f \in DOMAIN functions /\ Len(functions[f].params) = Len(args))
  BY <1>1, <1>2, FailStep DEF CreateFuncall
<1>3. CASE f \in DOMAIN functions /\ Len(functions[f].params) = Len(args)
  <2> DEFINE arg == IF args = <<>> THEN Result("ok", <<>>) ELSE Evaluate(args[1])
             call == Access("call", "Function", f, Len(args))
  <2>1. Outcome(arg)
    <3>1. CASE args = <<>>
      <4>1. <<>> \in Seq(Uses)
        OBVIOUS
      <4> QED
        BY <3>1, <4>1 DEF Outcome
    <3>2. ASSUME NEW e \in Expression, args = <<e>> PROVE Outcome(arg)
      <4>1. arg = Evaluate(e)
        BY <3>2
      <4> QED
        BY <1>1, <4>1, EvaluateOutcome
    <3> QED
      BY <3>1, <3>2
  <2>2. <<call>> \in Seq(Uses)
    <3>1. Len(args) \in Nat
      OBVIOUS
    <3>2. call \in Uses
      BY <1>3, <3>1 DEF Uses, Sound, Access, Item, Operation
    <3> QED
      BY <3>2
  <2>3. Accept([arg EXCEPT !.items = @ \o <<call>>])
    BY <1>3 DEF CreateFuncall
  <2> HIDE DEF arg, call
  <2>4. Outcome([arg EXCEPT !.items = @ \o <<call>>])
    BY <2>1, <2>2, OutcomeWith
  <2> QED
    BY <1>1, <2>3, <2>4, AcceptStep
<1> QED
  BY <1>2, <1>3

LEMMA BeginBlockStep ==
  ASSUME IInv, NEW e \in Expression, BeginBlock(e)
  PROVE  IInv'
<1> DEFINE cond == Evaluate(e)
<1>1. phase = "body" /\ Outcome(cond)
  BY EvaluateOutcome DEF BeginBlock
<1>2. CASE cond.status # "ok"
  BY <1>1, <1>2, AcceptStep DEF BeginBlock
<1>3. CASE cond.status = "ok"
  <2>1. PICK items \in Seq(Uses) : cond = Result("ok", items)
    BY <1>1, <1>3 DEF Outcome, Result
  <2>2. cond.items = items
    BY <2>1 DEF Result
  <2> QED
    BY <1>1, <1>3, <2>2, UseStep DEF BeginBlock
<1> QED
  BY <1>2, <1>3

LEMMA CreateSetStep ==
  ASSUME IInv, CreateSet
  PROVE  IInv'
<1> USE DEF CreateSet
<1>1. /\ scope' \in Seq(Table(Name, Nat)) /\ Len(scope') = 1 /\ scope'[1] = Empty
      /\ DOMAIN scope' = {1} /\ code' = <<>> /\ Len(code') = 0
  BY NoTables DEF IInv, PhaseAt
<1>2. Typed' /\ References'
  BY <1>1, NoTables DEF IInv, Typed, Phases, References, PhaseAt
<1>3. Disjoint(scope)' /\ Scoped(code, scope)'
  BY <1>1, NoTables DEF Disjoint, Scoped
<1>4. Analysed(code)'
  BY <1>1 DEF Analysed
<1> QED
  BY <1>1, <1>2, <1>3, <1>4 DEF IInv, LocalsAt, PhaseAt, ParameterAt

LEMMA EndBlockStep ==
  ASSUME IInv, EndBlock
  PROVE  IInv'
<1> USE DEF EndBlock
<1>1. /\ scope \in Seq(Table(Name, Nat)) /\ Len(scope) \in Nat
      /\ DOMAIN scope = 1 .. Len(scope)
  BY DEF IInv, Typed
<1>2. /\ scope' \in Seq(Table(Name, Nat)) /\ Len(scope') = Len(scope) - 1
      /\ DOMAIN scope' = 1 .. Len(scope) - 1
      /\ \A i \in 1 .. Len(scope) - 1 : scope'[i] = scope[i]
  BY <1>1
<1>3. /\ DOMAIN scope' \subseteq DOMAIN scope
      /\ \A i \in DOMAIN scope' : scope'[i] = scope[i]
      /\ 1 \in DOMAIN scope' /\ Len(scope') > 1
  BY <1>1, <1>2
<1>4. Typed' /\ References' /\ Disjoint(scope)'
  BY <1>2, <1>3 DEF IInv, Typed, References, Disjoint
<1>5. Scoped(code, scope')
  BY <1>3 DEF IInv, Working, Scoped
<1>6. Scoped(code, scope)' /\ Analysed(code)'
  <2>1. Analysed(code)
    BY DEF IInv, Working
  <2> QED
    BY <1>5, <2>1, SameCode
<1>7. PhaseAt'
  BY <1>3 DEF IInv, PhaseAt, Started, InBody
<1> QED
  BY <1>4, <1>6, <1>7 DEF IInv, LocalsAt, ParameterAt

\* The code stays resolved when the function under construction, if there is
\* one, becomes one of the functions.
LEMMA KeepAnalysed ==
  ASSUME Analysed(code), Longer(code, code'),
         \A n \in DOMAIN functions : n \in DOMAIN functions' /\ functions'[n] = functions[n],
         \A s \in 1 .. Len(code) : InBody(code, s) =>
           /\ code[s].name \in DOMAIN functions'
           /\ functions'[code[s].name] = function,
         NEW i \in 1 .. Len(code)
  PROVE  AnalysedAt(code, i)'
<1> DEFINE d == code'
<1>1. Longer(code, d) /\ Len(code) \in Nat /\ i \in 1 .. Len(code) + 1
  BY DEF Longer
<1>2. AnalysedAt(code, i) /\ d[i] = code[i]
  BY <1>1 DEF Analysed, Longer
<1>3. ASSUME code[i].op \in {"load", "store"}, code[i].kind = "Variable"
      PROVE  VariableFound(code, i)'
  <2>1. VariableFound(code, i) => VariableFound(d, i)
    <3> HIDE DEF d
    <3> QED
      BY <1>1, <1>2, Prefix DEF VariableFound
  <2>2. VariableFound(code, i)
    BY <1>2, <1>3 DEF AnalysedAt
  <2> QED
    BY <2>1, <2>2 DEF VariableFound, LastLocal, NoLocal, GlobalAt
<1>4. ASSUME ParameterFound(code, i) PROVE ParameterFound(code, i)'
  <2>1. PICK s \in 1 .. i - 1 :
           /\ StartOf(code, i, s)
           /\ \/ /\ code[s].name \in DOMAIN functions
                 /\ code[i].name \in ParamNames(functions[code[s].name])
              \/ InBody(code, s) /\ code[i].name \in ParamNames(function)
    BY <1>4 DEF ParameterFound
  <2>2. s \in 1 .. Len(code) /\ d[s] = code[s]
    BY <1>1, <2>1 DEF Longer
  <2>3. StartOf(d, i, s)
    <3> HIDE DEF d
    <3> QED
      BY <1>1, <2>1, Prefix
  <2>4. StartOf(code, i, s)'
    BY <2>3 DEF StartOf
  <2>5. /\ code[s].name \in DOMAIN functions'
        /\ code[i].name \in ParamNames(functions'[code[s].name])
    BY <2>1, <2>2
  <2> QED
    BY <1>2, <2>2, <2>4, <2>5 DEF ParameterFound, ParamNames
<1>5. code[i].op = "function" => code[i].name \in DOMAIN functions'
  BY <1>2 DEF AnalysedAt
<1>6. code[i].op = "call" =>
        /\ code[i].name \in DOMAIN functions'
        /\ Len(functions'[code[i].name].params) = code[i].ref
  BY <1>2 DEF AnalysedAt
<1> QED
  BY <1>2, <1>3, <1>4, <1>5, <1>6 DEF AnalysedAt

\* Outside of a body, what is analysed stays so while the code and the
\* functions do not change.
LEMMA KeepCode ==
  ASSUME IInv, phase \in Working \ {"body"}, phase' # "body",
         UNCHANGED <<scope, functions, code>>
  PROVE  Scoped(code, scope)' /\ Analysed(code)'
<1>1. Scoped(code, scope) /\ Analysed(code) /\ code \in Seq(Item)
  BY DEF IInv, Typed
<1>2. Scoped(code, scope)'
  BY <1>1 DEF Scoped, GlobalAt, LastLocal, NoLocal
<1>3. Longer(code, code') /\ \A s : ~InBody(code, s)
  BY <1>1 DEF Longer, InBody, Working
<1>4. ASSUME NEW i \in 1 .. Len(code) PROVE AnalysedAt(code, i)'
  BY <1>1, <1>3, KeepAnalysed
<1>5. Analysed(code)'
  BY <1>4 DEF Analysed
<1> QED
  BY <1>2, <1>5

LEMMA BeginFunctionStep ==
  ASSUME IInv, NEW f \in Name,
         NEW kind \in {"FunctionDefinitionKind", "FunctionDeclarationKind"},
         BeginFunction(f, kind)
  PROVE  IInv'
<1> USE DEF BeginFunction
<1>1. function' \in FunctionRecord
  BY DEF FunctionRecord, FunctionKind
<1>2. Typed' /\ References' /\ Disjoint(scope)'
  BY <1>1, NoTables DEF IInv, Typed, Phases, References, Disjoint
<1>3. Scoped(code, scope)' /\ Analysed(code)'
  BY KeepCode DEF Working
<1>4. PhaseAt' /\ ParameterAt'
  BY NoTables DEF IInv, PhaseAt, ParameterAt
<1> QED
  BY <1>2, <1>3, <1>4 DEF IInv, LocalsAt

LEMMA CreateParamStep ==
  ASSUME IInv, NEW n \in Name, NEW q \in Qualifier, CreateParam(n, q)
  PROVE  IInv'
<1>1. CASE n \in DOMAIN parameter.table
  BY <1>1, FailStep DEF CreateParam
<1>2. CASE n \notin DOMAIN parameter.table
  <2> DEFINE p == [name |-> n, qualifier |-> q]
  <2>1. /\ phase = "parameters"
        /\ function' = [function EXCEPT !.params = Append(@, p)]
        /\ parameter' = [parameter EXCEPT !.table = Bind(@, n, q)]
        /\ UNCHANGED <<phase, scope, functions, code, pc, locals, abandoned>>
    BY <1>2 DEF CreateParam
  <2>2. function \in FunctionRecord /\ p \in Param /\ parameter.table \in Table(Name, Qualifier)
    BY DEF IInv, Typed, Param
  <2>3. /\ function' \in FunctionRecord /\ function'.name = function.name
        /\ function'.params = Append(function.params, p)
    <3> DEFINE params == Append(function.params, p)
    <3>1. params \in Seq(Param) /\ function' = [function EXCEPT !.params = params]
      BY <2>1, <2>2 DEF FunctionRecord
    <3> HIDE DEF params
    <3>2. /\ function' \in FunctionRecord /\ function'.name = function.name
          /\ function'.params = params
      BY <2>2, <3>1 DEF FunctionRecord
    <3> QED
      BY <3>2 DEF params
  <2>4. ParamNames(function) \cup {n} \subseteq ParamNames(function')
    <3>1. function.params \in Seq(Param)
      BY <2>2 DEF FunctionRecord
    <3>2. /\ DOMAIN function.params = 1 .. Len(function.params)
          /\ DOMAIN function'.params = 1 .. Len(function.params) + 1
          /\ \A i \in 1 .. Len(function.params) : function'.params[i] = function.params[i]
          /\ function'.params[Len(function.params) + 1] = p
          /\ Len(function.params) \in Nat
      BY <2>2, <2>3, <3>1
    <3>3. \A i \in DOMAIN function.params : i \in DOMAIN function'.params
      BY <3>2
    <3>4. Len(function.params) + 1 \in DOMAIN function'.params
      BY <3>2
    <3> QED
      BY <3>2, <3>3, <3>4 DEF ParamNames
  <2>5. parameter'.table = Bind(parameter.table, n, q) /\ parameter'.state = parameter.state
    BY <2>1 DEF IInv, Typed
  <2>6. Bind(parameter.table, n, q) \in Table(Name, Qualifier)
    BY <2>2, BindTable, Zenon
  <2>7. parameter' \in [state : {"null", "live", "purged"}, table : Table(Name, Qualifier)]
    BY <2>1, <2>6 DEF IInv, Typed
  <2>8. Typed' /\ References' /\ Disjoint(scope)'
    BY <2>1, <2>3, <2>7 DEF IInv, Typed, References, Disjoint
  <2>9. Scoped(code, scope)' /\ Analysed(code)'
    BY <2>1, KeepCode DEF Working
  <2>10. PhaseAt'
    <3>1. DOMAIN parameter'.table = DOMAIN parameter.table \cup {n}
      BY <2>5 DEF Bind
    <3> QED
      BY <2>1, <2>3, <2>4, <3>1 DEF IInv, PhaseAt
  <2> QED
    BY <2>1, <2>5, <2>8, <2>9, <2>10 DEF IInv, LocalsAt, ParameterAt
<1> QED
  BY <1>1, <1>2

LEMMA BeginBodyStep ==
  ASSUME IInv, BeginBody
  PROVE  IInv'
<1> DEFINE a == Access("function", "Function", function.name, 0)
           m == Len(code)
<1>0. /\ phase = "parameters" /\ phase' = "body"
      /\ scope' = Append(scope, Empty) /\ code' = Append(code, a)
      /\ UNCHANGED <<parameter, function, functions, pc, locals, abandoned>>
  BY DEF BeginBody
<1>1. /\ code \in Seq(Item) /\ scope \in Seq(Table(Name, Nat)) /\ Len(scope) = 1
      /\ m < MaxCode /\ function.name \in Name /\ m \in Nat /\ MaxCode \in Nat
  BY <1>0, NoTables DEF IInv, Typed, PhaseAt
<1>2. a \in Item /\ a.op = "function" /\ a.name = function.name
  BY <1>1 DEF Access, Item, Operation
<1> HIDE DEF a
<1>3. /\ code' \in Seq(Item) /\ Len(code') = m + 1 /\ code'[m + 1] = a
      /\ \A i \in 1 .. m : code'[i] = code[i]
      /\ DOMAIN code' = 1 .. m + 1
  BY <1>0, <1>1, <1>2
<1>4. /\ scope' \in Seq(Table(Name, Nat)) /\ Len(scope') = 2 /\ DOMAIN scope' = 1 .. 2
      /\ scope'[1] = scope[1] /\ scope'[2] = Empty /\ 1 \in DOMAIN scope
  <2>1. Empty \in Table(Name, Nat)
    BY NoTables
  <2>2. /\ scope' \in Seq(Table(Name, Nat)) /\ Len(scope') = Len(scope) + 1
        /\ DOMAIN scope' = 1 .. Len(scope) + 1
        /\ scope'[Len(scope) + 1] = Empty
        /\ \A i \in 1 .. Len(scope) : scope'[i] = scope[i]
        /\ DOMAIN scope = 1 .. Len(scope)
    <3>1. scope' = Append(scope, Empty) /\ scope \in Seq(Table(Name, Nat))
      BY <1>0, <1>1
    <3>2. Len(scope) \in Nat
      BY <3>1
    <3> QED
      BY <2>1, <3>1, <3>2
  <2>3. Len(scope) + 1 = 2 /\ 1 \in 1 .. Len(scope)
    BY <1>1
  <2> QED
    BY <2>2, <2>3
<1>5. /\ phase' = "body"
      /\ UNCHANGED <<parameter, function, functions, pc, locals, abandoned>>
  BY <1>0
<1>6. Longer(code, code')
  BY <1>1, <1>3 DEF Longer
<1>7. Typed' /\ References' /\ Disjoint(scope)'
  <2>1. Typed'
    BY <1>1, <1>3, <1>4, <1>5 DEF IInv, Typed, Phases
  <2>2. Disjoint(scope)'
    BY <1>4, NoTables DEF Disjoint
  <2>3. References'
    BY <1>1, <1>3, <1>4, <1>5, NoTables DEF IInv, References
  <2> QED
    BY <2>1, <2>2, <2>3
<1>8. Scoped(code, scope) /\ Analysed(code) /\ \A s : ~InBody(code, s)
  BY <1>0 DEF IInv, Working, InBody
<1>9. ASSUME NEW n PROVE NoLocal(code', Len(code') + 1, n)
  BY <1>1, <1>2, <1>3 DEF NoLocal
<1>10. Scoped(code, scope)'
  <2>1. ASSUME NEW n \in DOMAIN scope[1] PROVE GlobalAt(code', scope[1][n], n)
    BY <1>1, <1>3, <1>4, <1>8 DEF Scoped, GlobalAt
  <2>2. ASSUME NEW i \in 1 .. Len(code'), code'[i].op = "global"
        PROVE  code'[i].name \in DOMAIN scope'[1] /\ scope'[1][code'[i].name] = i
    BY <1>1, <1>2, <1>3, <1>4, <1>8, <2>2, SMTT(30) DEF Scoped
  <2>3. ASSUME NEW i \in DOMAIN scope', NEW n \in DOMAIN scope'[i]
        PROVE  i = 1 /\ GlobalAt(code', scope'[i][n], n) /\ NoLocal(code', Len(code') + 1, n)
    <3>1. i = 1
      BY <1>4, <2>3, NoTables
    <3> QED
      BY <1>4, <1>9, <2>1, <2>3, <3>1
  <2> QED
    BY <2>2, <2>3 DEF Scoped, NoLocal, GlobalAt
<1>11. /\ StartOf(code', Len(code') + 1, m + 1) /\ code'[m + 1].name = function'.name
       /\ m + 1 \in DOMAIN code' /\ code'[m + 1].op = "function"
  BY <1>1, <1>2, <1>3, <1>5 DEF StartOf
<1>12. Analysed(code)'
  <2>1. ASSUME NEW i \in 1 .. m PROVE AnalysedAt(code, i)'
    BY <1>5, <1>6, <1>8, KeepAnalysed
  <2>2. ASSUME NEW i \in 1 .. Len(code'), i = m + 1 PROVE AnalysedAt(code, i)'
    BY <1>5, <1>11, <2>2 DEF AnalysedAt, InBody
  <2>3. ASSUME NEW i \in 1 .. Len(code') PROVE AnalysedAt(code, i)'
    BY <1>1, <1>3, <2>1, <2>2
  <2> QED
    BY <2>3 DEF Analysed
<1>13. PhaseAt'
  <2>1. Started'
    BY <1>5, <1>11, Zenon DEF Started, InBody
  <2> QED
    BY <1>0, <1>4, <2>1 DEF IInv, PhaseAt
<1> QED
  BY <1>0, <1>7, <1>10, <1>12, <1>13 DEF IInv, LocalsAt, ParameterAt

\* The function under construction becomes one of the functions, whatever
\* code follows.
LEMMA EndFunctionStep ==
  ASSUME IInv, EndFunction
  PROVE  IInv'
<1> DEFINE f == function
<1>1. /\ phase \in {"parameters", "body"} /\ Register /\ parameter' = NullTable
      /\ scope' = SubSeq(scope, 1, 1)
      /\ UNCHANGED <<code, pc, locals, abandoned>>
  BY DEF EndFunction
<1>2. /\ scope \in Seq(Table(Name, Nat)) /\ Len(scope) >= 1 /\ Len(scope) \in Nat
      /\ function \in FunctionRecord /\ functions \in Table(Name, FunctionRecord)
      /\ function.name \in Name /\ code \in Seq(Item)
  BY <1>1 DEF IInv, Typed, PhaseAt
<1>3. /\ scope' \in Seq(Table(Name, Nat)) /\ Len(scope') = 1 /\ DOMAIN scope' = {1}
      /\ scope'[1] = scope[1] /\ 1 \in DOMAIN scope
  BY <1>1, <1>2
<1>4. References' /\ Disjoint(scope)'
  BY <1>1, <1>3 DEF IInv, References, Disjoint
<1>5. CASE function.name \in DOMAIN functions
  <2>1. phase' = "failed" /\ UNCHANGED <<functions, function>>
    BY <1>1, <1>5 DEF Register
  <2>2. Typed'
    BY <1>1, <1>3, <2>1, NoTables DEF IInv, Typed, Phases
  <2> QED
    BY <1>1, <1>4, <2>1, <2>2
       DEF IInv, Working, LocalsAt, PhaseAt, ParameterAt, NullTable
<1>6. CASE function.name \notin DOMAIN functions
  <2>1. /\ phase' = "module" /\ function' = NoFunction
        /\ functions' = Bind(functions, function.name, function)
    BY <1>1, <1>6 DEF Register
  <2>2. functions' \in Table(Name, FunctionRecord)
    BY <1>2, <2>1, BindTable, Zenon
  <2>3. Typed'
    BY <1>1, <1>3, <2>1, <2>2, NoTables DEF IInv, Typed, Phases
  <2>4. Scoped(code, scope) /\ Analysed(code)
    BY <1>1 DEF IInv, Working
  <2>5. Scoped(code, scope)'
    BY <1>1, <1>3, <2>1, <2>4 DEF Scoped, GlobalAt, LastLocal
  <2>6. /\ \A n \in DOMAIN functions : n \in DOMAIN functions' /\ functions'[n] = functions[n]
        /\ function.name \in DOMAIN functions' /\ functions'[function.name] = function
    BY <1>6, <2>1 DEF Bind
  <2>7. Longer(code, code') /\ Len(code') = Len(code)
    BY <1>1, <1>2 DEF Longer
  <2>8. ASSUME NEW i \in 1 .. Len(code) PROVE AnalysedAt(code, i)'
    <3>1. \A s \in 1 .. Len(code) : InBody(code, s) =>
            code[s].name \in DOMAIN functions' /\ functions'[code[s].name] = function
      BY <2>6 DEF InBody
    <3> QED
      BY <2>4, <2>6, <2>7, <3>1, KeepAnalysed
  <2>9. Analysed(code)'
    BY <2>7, <2>8 DEF Analysed
  <2>10. PhaseAt'
    BY <1>1, <1>3, <2>1 DEF IInv, PhaseAt
  <2> QED
    BY <1>1, <1>4, <2>1, <2>3, <2>5, <2>9, <2>10
       DEF IInv, LocalsAt, ParameterAt, NullTable
<1> QED
  BY <1>5, <1>6

-----------------------------------------------------------------------------
(* Steps of code generation.                                               *)

LEMMA BeginCodegenStep ==
  ASSUME IInv, BeginCodegen
  PROVE  IInv'
<1>1. /\ phase = "module" /\ phase' \in {"foreign", "codegen"} /\ pc' = 1
      /\ UNCHANGED <<scope, parameter, function, functions, code, locals, abandoned>>
  BY DEF BeginCodegen
<1>2. Scoped(code, scope)' /\ Analysed(code)'
  BY <1>1, KeepCode DEF Working
<1>3. Typed'
  <2>1. pc' \in 0 .. MaxCode + 1
    BY <1>1, NoTables
  <2> QED
    BY <1>1, <2>1 DEF IInv, Typed, Phases
<1>4. PhaseAt' /\ LocalsAt'
  <2>1. Len(code) \in Nat /\ locals = Empty
    BY <1>1 DEF IInv, Typed, PhaseAt
  <2> QED
    BY <1>1, <2>1, NoTables DEF IInv, PhaseAt, LocalsAt, NoLocal
<1> QED
  BY <1>1, <1>2, <1>3, <1>4 DEF IInv, References, Disjoint, ParameterAt

\* Past a place that neither starts a function nor defines n.
LEMMA NextPlace ==
  ASSUME NEW c, c \in Seq(Item), NEW i \in 1 .. Len(c), NEW n, NEW r,
         c[i].op # "function", ~(c[i].op = "local" /\ c[i].name = n)
  PROVE  /\ LastLocal(c, i, n, r) => LastLocal(c, i + 1, n, r)
         /\ NoLocal(c, i, n) => NoLocal(c, i + 1, n)
<1>1. i \in Nat /\ i >= 1
  OBVIOUS
<1>2. ASSUME LastLocal(c, i, n, r) PROVE LastLocal(c, i + 1, n, r)
  <2>1. r \in 1 .. i - 1 /\ r \in 1 .. (i + 1) - 1
    BY <1>1, <1>2 DEF LastLocal
  <2>2. \A k \in r + 1 .. (i + 1) - 1 : k \in r + 1 .. i - 1 \/ k = i
    BY <1>1, <2>1
  <2> QED
    BY <1>2, <2>1, <2>2 DEF LastLocal
<1>3. ASSUME NoLocal(c, i, n) PROVE NoLocal(c, i + 1, n)
  <2> SUFFICES ASSUME NEW q \in 1 .. (i + 1) - 1, c[q].op = "local" /\ c[q].name = n
               PROVE  \E s \in q + 1 .. (i + 1) - 1 : c[s].op = "function"
    BY DEF NoLocal
  <2>1. q \in 1 .. i - 1
    BY <1>1
  <2>2. PICK s \in q + 1 .. i - 1 : c[s].op = "function"
    BY <1>3, <2>1 DEF NoLocal
  <2>3. s \in q + 1 .. (i + 1) - 1
    BY <1>1, <2>1
  <2> QED
    BY <2>2, <2>3
<1> QED
  BY <1>2, <1>3

\* A step of code generation changes its own variables only.
LEMMA GenerateStep ==
  ASSUME IInv, phase = "codegen", pc <= Len(code), pc' = pc + 1,
         UNCHANGED <<scope, parameter, function, functions, code, abandoned>>,
         phase' \in {"codegen", "null", "failed"},
         locals' \in Table(Name, Nat),
         \A n \in DOMAIN locals' : locals'[n] \in DOMAIN code,
         phase' = "codegen" => LocalsAt'
  PROVE  IInv'
<1>1. pc \in 1 .. Len(code) /\ Len(code) \in Nat /\ Len(code) <= MaxCode /\ pc \in Nat
      /\ MaxCode \in Nat
  BY NoTables DEF IInv, Typed, PhaseAt
<1>2. Typed'
  BY <1>1 DEF IInv, Typed, Phases
<1>3. References' /\ Disjoint(scope)'
  BY DEF IInv, References, Disjoint
<1>4. phase' = "codegen" => Scoped(code, scope)' /\ Analysed(code)'
  BY KeepCode DEF Working
<1>5. PhaseAt' /\ ParameterAt'
  BY <1>1 DEF IInv, PhaseAt, ParameterAt
<1>6. LocalsAt'
  BY DEF LocalsAt
<1> QED
  BY <1>2, <1>3, <1>4, <1>5, <1>6 DEF IInv, Working

LEMMA ImplFunctionStep ==
  ASSUME IInv, ImplFunction
  PROVE  IInv'
<1>1. /\ phase = "codegen" /\ pc <= Len(code) /\ code[pc].op = "function"
      /\ locals' = Empty /\ pc' = pc + 1 /\ phase' \in {"codegen", "null", "failed"}
      /\ UNCHANGED <<scope, parameter, function, functions, code, abandoned>>
  BY DEF ImplFunction
<1>2. pc \in Nat /\ pc >= 1 /\ code \in Seq(Item)
  BY <1>1 DEF IInv, Typed, PhaseAt
<1>3. ASSUME NEW n PROVE NoLocal(code, pc + 1, n)
  BY <1>1, <1>2 DEF NoLocal
<1>4. LocalsAt'
  BY <1>1, <1>3, NoTables DEF LocalsAt, NoLocal
<1> QED
  BY <1>1, <1>4, NoTables, GenerateStep

\* A use or a global: the table stays right one place further.
LEMMA SkipStep ==
  ASSUME IInv, phase = "codegen", pc <= Len(code),
         code[pc].op \notin {"function", "local"}, pc' = pc + 1,
         phase' \in {"codegen", "null", "failed"},
         UNCHANGED <<scope, parameter, function, functions, code, locals, abandoned>>
  PROVE  IInv'
<1>1. pc \in 1 .. Len(code) /\ code \in Seq(Item)
  BY DEF IInv, Typed, PhaseAt
<1>2. ASSUME NEW n \in Name
      PROVE  IF n \in DOMAIN locals THEN LastLocal(code, pc + 1, n, locals[n])
             ELSE NoLocal(code, pc + 1, n)
  <2>1. IF n \in DOMAIN locals THEN LastLocal(code, pc, n, locals[n])
        ELSE NoLocal(code, pc, n)
    BY DEF IInv, LocalsAt
  <2> QED
    BY <1>1, <2>1, NextPlace
<1>3. LocalsAt'
  BY <1>2 DEF LocalsAt, LastLocal, NoLocal
<1>4. locals' \in Table(Name, Nat) /\ \A n \in DOMAIN locals' : locals'[n] \in DOMAIN code
  BY DEF IInv, Typed, References
<1> QED
  BY <1>3, <1>4, GenerateStep

LEMMA ImplVariableStep ==
  ASSUME IInv, ImplVariable
  PROVE  IInv'
<1> DEFINE n == code[pc].name
<1>1. /\ phase = "codegen" /\ pc <= Len(code) /\ code[pc].op = "local"
      /\ locals' = Bind(locals, n, code[pc].ref) /\ pc' = pc + 1
      /\ UNCHANGED <<phase, scope, parameter, function, functions, code, abandoned>>
  BY DEF ImplVariable
<1>2. /\ pc \in 1 .. Len(code) /\ code \in Seq(Item) /\ locals \in Table(Name, Nat)
      /\ pc \in Nat /\ Len(code) \in Nat
  BY <1>1 DEF IInv, Typed, PhaseAt
<1>3. code[pc].ref = pc /\ n \in Name
  <2>1. AnalysedAt(code, pc)
    BY <1>1, <1>2 DEF IInv, Working, Analysed
  <2>2. code[pc] \in Item
    BY <1>2
  <2> QED
    BY <1>1, <2>1, <2>2 DEF AnalysedAt, Item
<1> HIDE DEF n
<1>4. locals' = Bind(locals, n, pc)
  BY <1>1, <1>3
<1>5. locals' \in Table(Name, Nat)
  BY <1>2, <1>3, <1>4, BindTable, Zenon
<1>6. /\ DOMAIN locals' = DOMAIN locals \cup {n} /\ locals'[n] = pc
      /\ \A x \in DOMAIN locals : x # n => locals'[x] = locals[x]
  BY <1>4 DEF Bind
<1>7. \A x \in DOMAIN locals' : locals'[x] \in DOMAIN code
  BY <1>2, <1>6 DEF IInv, References
<1>8. ASSUME NEW x \in Name
      PROVE  IF x \in DOMAIN locals' THEN LastLocal(code, pc + 1, x, locals'[x])
             ELSE NoLocal(code, pc + 1, x)
  <2>1. CASE x = n
    <3>1. LastLocal(code, pc + 1, n, pc)
      BY <1>1, <1>2 DEF LastLocal, n
    <3> QED
      BY <1>6, <2>1, <3>1
  <2>2. CASE x # n
    <3>1. IF x \in DOMAIN locals THEN LastLocal(code, pc, x, locals[x])
          ELSE NoLocal(code, pc, x)
      BY <1>1 DEF IInv, LocalsAt
    <3>2. code[pc].op # "function" /\ code[pc].name # x
      BY <1>1, <2>2 DEF n
    <3>3. IF x \in DOMAIN locals THEN LastLocal(code, pc + 1, x, locals[x])
          ELSE NoLocal(code, pc + 1, x)
      BY <1>2, <3>1, <3>2, NextPlace
    <3> QED
      BY <1>6, <2>2, <3>3
  <2> QED
    BY <2>1, <2>2
<1>9. LocalsAt'
  BY <1>1, <1>8 DEF LocalsAt, LastLocal, NoLocal
<1> QED
  BY <1>1, <1>5, <1>7, <1>9, GenerateStep

LEMMA EndCodegenStep ==
  ASSUME IInv, EndCodegen
  PROVE  IInv'
BY DEF EndCodegen, IInv, Typed, Phases, References, Disjoint, Working, LocalsAt,
       PhaseAt, ParameterAt

LEMMA PurgeStep ==
  ASSUME IInv, Purge
  PROVE  IInv'
<1> USE DEF Purge
<1>1. parameter.state \in {"null", "live", "purged"}
  BY DEF IInv, Typed
<1>2. Typed'
  <2>1. pc' \in 0 .. MaxCode + 1 /\ Len(code') <= MaxCode
    BY NoTables
  <2>2. scope' \in Seq(Table(Name, Nat)) /\ code' \in Seq(Item)
    OBVIOUS
  <2> QED
    BY <2>1, <2>2, NoTables DEF IInv, Typed, Phases
<1>3. References' /\ Disjoint(scope)'
  BY NoTables DEF References, Disjoint
<1>4. ParameterAt'
  BY <1>1 DEF IInv, ParameterAt, NullTable
<1> QED
  BY <1>2, <1>3, <1>4 DEF IInv, Working, LocalsAt, PhaseAt

\* Every step keeps the invariant.
LEMMA NextIInv == IInv /\ [Next]_vars => IInv'
<1> SUFFICES ASSUME IInv, [Next]_vars PROVE IInv'
  OBVIOUS
<1>1. CASE CreateSet
  BY <1>1, CreateSetStep
<1>2. ASSUME NEW n \in Name, CreateDecl(n) PROVE IInv'
  BY <1>2, DeclareStep
<1>3. ASSUME NEW n \in Name, NEW e \in Expression, CreateDef(n, e) PROVE IInv'
  BY <1>3, CreateDefStep
<1>4. ASSUME NEW n \in Name, NEW e \in Expression, CreateAssign(n, e) PROVE IInv'
  BY <1>4, CreateAssignStep
<1>5. ASSUME NEW e \in Expression, CreateReturn(e) PROVE IInv'
  BY <1>5, CreateReturnStep
<1>6. ASSUME NEW f \in Name, NEW args \in {<<>>} \cup {<<e>> : e \in Expression},
             CreateFuncall(f, args)
      PROVE  IInv'
  BY <1>6, CreateFuncallStep
<1>7. ASSUME NEW e \in Expression, BeginBlock(e) PROVE IInv'
  BY <1>7, BeginBlockStep
<1>8. CASE EndBlock
  BY <1>8, EndBlockStep
<1>9. ASSUME NEW f \in Name,
             NEW kind \in {"FunctionDefinitionKind", "FunctionDeclarationKind"},
             BeginFunction(f, kind)
      PROVE  IInv'
  BY <1>9, BeginFunctionStep
<1>10. ASSUME NEW n \in Name, NEW q \in Qualifier, CreateParam(n, q) PROVE IInv'
  BY <1>10, CreateParamStep
<1>11. CASE BeginBody
  BY <1>11, BeginBodyStep
<1>12. CASE EndFunction
  BY <1>12, EndFunctionStep
<1>13. CASE TypeError
  BY <1>13, FailStep DEF TypeError
<1>14. CASE BeginCodegen
  BY <1>14, BeginCodegenStep
<1>15. CASE ImplFunction
  BY <1>15, ImplFunctionStep
<1>16. CASE ImplVariable
  BY <1>16, ImplVariableStep
<1>17. CASE ImplAccess
  BY <1>17, SkipStep DEF ImplAccess, IInv, Typed
<1>18. CASE ImplCall
  BY <1>18, SkipStep DEF ImplCall
<1>19. CASE SkipGlobal
  BY <1>19, SkipStep DEF SkipGlobal, IInv, Typed
<1>20. CASE EndCodegen
  BY <1>20, EndCodegenStep
<1>21. CASE Purge
  BY <1>21, PurgeStep
<1>22. CASE UNCHANGED vars
  <2> USE <1>22 DEF vars
  <2>1. Typed' /\ References' /\ Disjoint(scope)' /\ ParameterAt'
    BY DEF IInv, Typed, References, Disjoint, ParameterAt
  <2>2. (phase \in Working)' => Scoped(code, scope)' /\ Analysed(code)'
    BY SameCode DEF IInv, Working
  <2>3. LocalsAt'
    BY DEF IInv, LocalsAt, LastLocal, NoLocal
  <2>4. PhaseAt'
    BY DEF IInv, PhaseAt, Started, InBody, StartOf
  <2> QED
    BY <2>1, <2>2, <2>3, <2>4 DEF IInv
<1> QED
  BY <1>1, <1>2, <1>3, <1>4, <1>5, <1>6, <1>7, <1>8, <1>9, <1>10, <1>11, <1>12, <1>13,
     <1>14, <1>15, <1>16, <1>17, <1>18, <1>19, <1>20, <1>21, <1>22 DEF Next

LEMMA Invariance == Spec => []IInv
<1> QED
  BY InitIInv, NextIInv, PTL DEF Spec

-----------------------------------------------------------------------------
(* The properties.                                                         *)

\* The tables of semantic analysis and of code generation (Scope,
\* functionParameter, declaredFunctions, scope->vars) have the types that the
\* model gives them, whatever module is compiled and however it fails.
THEOREM TypeCorrect == Spec => []TypeOK
<1>1. IInv => TypeOK
  <2> SUFFICES ASSUME IInv PROVE TypeOK
    OBVIOUS
  <2>1. \A i \in DOMAIN scope : DOMAIN scope[i] \subseteq Name
    <3>1. \A i \in DOMAIN scope : scope[i] \in Table(Name, Nat)
      BY DEF IInv, Typed
    <3>2. \A t \in Table(Name, Nat) : DOMAIN t \subseteq Name
      BY TableElement, Zenon
    <3> QED
      BY <3>1, <3>2
  <2>2. /\ DOMAIN parameter.table \subseteq Name
        /\ \A n \in DOMAIN parameter.table : parameter.table[n] \in Qualifier
        /\ DOMAIN functions \subseteq Name
    BY TableElement DEF IInv, Typed
  <2> QED
    BY <2>1, <2>2 DEF IInv, Typed, References, Phases, Item, TypeOK
<1> QED
  BY <1>1, Invariance, PTL

\* addVarToScope (src/src/set/set.c:617) refuses every name that is open, so that the
\* search of getVariableFromScope has one answer at most.
THEOREM NameIsOpenOnce == Spec => []NameOpenOnce
<1>1. IInv => NameOpenOnce
  <2> SUFFICES ASSUME IInv, NEW n \in Name PROVE Cardinality(ScopesWith(n)) <= 1
    BY DEF NameOpenOnce
  <2>1. CASE ScopesWith(n) = {}
    BY <2>1, FS_EmptySet
  <2>2. ASSUME NEW k \in ScopesWith(n) PROVE Cardinality(ScopesWith(n)) <= 1
    <3>1. ScopesWith(n) = {k}
      BY DEF IInv, Disjoint, ScopesWith
    <3> QED
      BY <3>1, FS_Singleton
  <2> QED
    BY <2>1, <2>2
<1> QED
  BY <1>1, Invariance, PTL

\* functionParameter is gone when it is looked up only after an earlier target
\* gave up in the middle of a function, before createFunction resets it
\* (src/src/set/set.c:2630): inside a function it is
\* always the table of that function.
THEOREM DanglingOnlyAfterAbandoned == Spec => []DanglingOnlyAfterAbandonedFunction
<1>1. IInv => DanglingOnlyAfterAbandonedFunction
  BY DEF IInv, Typed, ParameterAt, DanglingOnlyAfterAbandonedFunction
<1> QED
  BY <1>1, Invariance, PTL

\* A global is in the outermost scope at its own place, so that the module
\* has one global with a name.
LEMMA OneGlobal ==
  ASSUME IInv, phase = "codegen", NEW n, NEW r, GlobalAt(code, r, n)
  PROVE  GlobalNamed(n) = {r}
<1>1. Scoped(code, scope) /\ code \in Seq(Item)
  BY DEF IInv, Working, Typed
<1>2. DOMAIN code = 1 .. Len(code)
  BY <1>1
<1>3. ASSUME NEW i \in GlobalNamed(n) PROVE i = r
  BY <1>1, <1>2 DEF Scoped, GlobalAt, GlobalNamed, Globals
<1>4. r \in GlobalNamed(n)
  BY <1>2 DEF GlobalAt, GlobalNamed, Globals
<1> QED
  BY <1>3, <1>4

\* The flat table of variables that code generation keeps for a function
\* (impl_basic_block, src/src/llvm/llvm-ir/stmt.c) has, for every name that is
\* used, the variable that semantic analysis found in its nested scopes: a
\* variable of a block that has ended is replaced before its name can be used
\* again, and none has the name of a global that is used after it.
THEOREM CodegenFindsVariables == Spec => []CodegenFindsTheVariable
<1>1. IInv => CodegenFindsTheVariable
  <2> SUFFICES ASSUME IInv, phase = "codegen", pc <= Len(code),
                      code[pc].op \in {"load", "store"}
               PROVE  \/ /\ code[pc].kind = "Variable"
                         /\ GetVariable(code[pc].name) = code[pc].ref
                      \/ /\ code[pc].kind = "Parameter"
                         /\ code[pc].name \in ParamNames(CurrentFunction)
    BY DEF CodegenFindsTheVariable
  <2> DEFINE n == code[pc].name
             r == code[pc].ref
  <2>1. pc \in 1 .. Len(code) /\ code \in Seq(Item) /\ Len(code) \in Nat
    BY DEF IInv, Typed, PhaseAt
  <2>2. code[pc] \in Item
    BY <2>1
  <2>3. n \in Name
    BY <2>2 DEF Item
  <2>4. AnalysedAt(code, pc)
    BY <2>1 DEF IInv, Working, Analysed
  <2>5. IF n \in DOMAIN locals THEN LastLocal(code, pc, n, locals[n])
        ELSE NoLocal(code, pc, n)
    BY <2>3 DEF IInv, LocalsAt
  <2>6. ASSUME code[pc].kind = "Variable", LastLocal(code, pc, n, r)
        PROVE  GetVariable(n) = r
    <3>1. ~NoLocal(code, pc, n)
      BY <2>1, <2>6 DEF LastLocal, NoLocal
    <3>2. n \in DOMAIN locals /\ LastLocal(code, pc, n, locals[n])
      BY <2>5, <3>1
    <3>3. locals[n] = r
      <4> DEFINE q == locals[n]
      <4>1. /\ q \in 1 .. pc - 1 /\ r \in 1 .. pc - 1
            /\ code[q].op = "local" /\ code[q].name = n
            /\ code[r].op = "local" /\ code[r].name = n
            /\ r \notin q + 1 .. pc - 1 /\ q \notin r + 1 .. pc - 1
        BY <2>6, <3>2 DEF LastLocal
      <4> HIDE DEF q, r
      <4>2. q = r
        BY <2>1, <4>1
      <4> QED
        BY <4>2 DEF q
    <3> QED
      BY <3>2, <3>3 DEF GetVariable
  <2>7. ASSUME code[pc].kind = "Variable", NoLocal(code, pc, n), GlobalAt(code, r, n)
        PROVE  GetVariable(n) = r
    <3>1. n \notin DOMAIN locals
      <4>1. \A q : LastLocal(code, pc, n, q) => ~NoLocal(code, pc, n)
        BY <2>1 DEF LastLocal, NoLocal
      <4> QED
        BY <2>5, <2>7, <4>1
    <3>2. GlobalNamed(n) = {r}
      BY <2>7, OneGlobal
    <3>3. Outermost({r}) = r
      BY <2>7 DEF Outermost, GlobalAt
    <3> QED
      BY <3>1, <3>2, <3>3 DEF GetVariable
  <2>8. ASSUME code[pc].kind = "Parameter", ParameterFound(code, pc)
        PROVE  n \in ParamNames(CurrentFunction)
    <3>1. PICK s \in 1 .. pc - 1 :
             /\ StartOf(code, pc, s)
             /\ code[s].name \in DOMAIN functions
             /\ n \in ParamNames(functions[code[s].name])
      BY <2>8 DEF ParameterFound, InBody
    <3> DEFINE starts == {i \in 1 .. pc : code[i].op = "function"}
    <3>2. /\ s \in starts
          /\ \A j \in starts : j <= s
          /\ \A i \in starts : (\A j \in starts : j <= i) => i = s
      <4>1. s \in Nat /\ s < pc /\ pc \in Nat /\ code[s].op = "function"
        BY <2>1, <3>1 DEF StartOf
      <4>2. \A k \in s + 1 .. pc : code[k].op # "function"
        <5>1. \A k \in s + 1 .. pc : k \in s + 1 .. pc - 1 \/ k = pc
          BY <4>1
        <5> QED
          BY <3>1, <5>1 DEF StartOf
      <4>3. s \in starts /\ \A j \in starts : j <= s
        BY <3>1, <4>1, <4>2
      <4> QED
        BY <4>1, <4>3
    <3>3. (CHOOSE i \in starts : \A j \in starts : j <= i) = s
      <4> HIDE DEF starts
      <4> QED
        BY <3>2
    <3> QED
      BY <3>1, <3>3 DEF CurrentFunction
  <2> QED
    BY <2>4, <2>6, <2>7, <2>8 DEF AnalysedAt, VariableFound
<1> QED
  BY <1>1, Invariance, PTL

\* How far code generation has come, and where it stopped.
Named(i) == code[i].op \in {"call", "function"} => NamedFunction(code[i].name)
GeneratedAt ==
  /\ phase \in {"codegen", "generated"} => \A i \in DOMAIN code : i < pc => Named(i)
  /\ phase = "generated" => pc > Len(code)
  /\ phase \in {"failed", "null"} /\ pc > 0 => GlobalNamed(code[pc - 1].name) # {}

\* The resolution of a name or an expression has one of three results, and
\* none of them starts code generation.
IsResult(r) ==
  \E status \in {"ok", "error", "dangling"} : \E items : r = Result(status, items)

LEMMA ResultsOnly ==
  /\ \A e : IsResult(Evaluate(e))
  /\ \A n : IsResult(Store(n))
<1>1. \A op, n, readable : IsResult(Resolve(op, n, readable))
  BY DEF Resolve, IsResult
<1> QED
  BY <1>1 DEF Evaluate, Store, IsResult

LEMMA AcceptStays ==
  ASSUME NEW r, IsResult(r),
         Accept(r) \/ \E more : Accept([r EXCEPT !.items = @ \o more])
  PROVE  pc' = pc /\ phase' \in {phase, "failed", "dangling"}
<1>1. PICK status \in {"ok", "error", "dangling"} : \E items : r = Result(status, items)
  BY DEF IsResult
<1>2. ASSUME NEW q, q.status \in {"ok", "error", "dangling"}, Accept(q)
      PROVE  pc' = pc /\ phase' \in {phase, "failed", "dangling"}
  BY <1>2 DEF Accept, Fail, Dangling
<1>3. r.status = status /\ \A more : [r EXCEPT !.items = @ \o more].status = status
  BY <1>1 DEF Result
<1>4. CASE Accept(r)
  <2>1. r.status \in {"ok", "error", "dangling"}
    BY <1>3
  <2> QED
    BY ONLY <2>1, <1>2, <1>4
<1>5. CASE \E more : Accept([r EXCEPT !.items = @ \o more])
  <2>1. PICK q : Accept(q) /\ q.status = status
    <3>1. PICK more : Accept([r EXCEPT !.items = @ \o more])
      BY <1>5
    <3> DEFINE q == [r EXCEPT !.items = @ \o more]
    <3>2. Accept(q) /\ q.status = status
      BY <3>1, <1>3
    <3> HIDE DEF q
    <3> QED
      BY <3>2
  <2>2. q.status \in {"ok", "error", "dangling"}
    BY <2>1
  <2> QED
    BY ONLY <2>1, <2>2, <1>2
<1> QED
  BY <1>4, <1>5

LEMMA GeneratedStep == IInv /\ GeneratedAt /\ [Next]_vars => GeneratedAt'
<1> SUFFICES ASSUME IInv, GeneratedAt, [Next]_vars PROVE GeneratedAt'
  OBVIOUS
<1>1. CASE phase \in {"idle", "module", "parameters", "body"} /\ pc' = pc
           /\ phase' \notin {"codegen", "generated"}
  BY <1>1 DEF IInv, PhaseAt, GeneratedAt
<1>2. CASE BeginCodegen
  BY <1>2 DEF BeginCodegen, GeneratedAt, IInv, Typed
<1>3. CASE ImplFunction \/ ImplVariable \/ ImplAccess \/ ImplCall \/ SkipGlobal
  <2>1. /\ phase = "codegen" /\ pc \in 1 .. Len(code) /\ pc' = pc + 1
        /\ UNCHANGED <<code, functions>>
        /\ code \in Seq(Item) /\ AnalysedAt(code, pc)
    BY <1>3 DEF IInv, PhaseAt, Working, Analysed, Typed, ImplFunction, ImplVariable,
       ImplAccess, ImplCall, SkipGlobal
  <2>2. code[pc].op \in {"call", "function"} => code[pc].name \in DOMAIN functions
    BY <2>1 DEF AnalysedAt, InBody
  <2>3. CASE phase' = "codegen" /\ Named(pc)
    <3>1. \A i \in DOMAIN code : i < pc' => i < pc \/ i = pc
      BY <2>1
    <3> QED
      BY <2>1, <2>3, <3>1 DEF GeneratedAt, Named, NamedFunction, GlobalNamed, Globals
  <2>4. CASE phase' \in {"failed", "null"} /\ code[pc].op \in {"call", "function"}
             /\ ~NamedFunction(code[pc].name)
    <3>1. GlobalNamed(code[pc].name) # {} /\ pc' - 1 = pc
      BY <2>1, <2>2, <2>4 DEF NamedFunction
    <3> QED
      BY <2>1, <2>4, <3>1 DEF GeneratedAt, GlobalNamed, Globals
  <2> QED
    BY <1>3, <2>1, <2>3, <2>4 DEF Named, ImplFunction, ImplVariable, ImplAccess, ImplCall,
       SkipGlobal
<1>4. CASE EndCodegen
  BY <1>4 DEF EndCodegen, GeneratedAt, Named, NamedFunction, GlobalNamed, Globals
<1>5. CASE Purge
  BY <1>5 DEF Purge, GeneratedAt
<1>6. CASE UNCHANGED vars
  BY <1>6 DEF vars, GeneratedAt, Named, NamedFunction, GlobalNamed, Globals
<1>7. CASE CreateSet
  BY <1>1, <1>7 DEF CreateSet
<1>8. CASE EndBlock \/ BeginBody \/ TypeError
  BY <1>1, <1>8 DEF EndBlock, BeginBody, TypeError, Fail
<1>9. CASE EndFunction
  BY <1>1, <1>9 DEF EndFunction, Register
<1>10. ASSUME NEW n \in Name, CreateDecl(n) PROVE GeneratedAt'
  BY <1>1, <1>10 DEF CreateDecl, AddVarToScope, Fail
<1>11. ASSUME NEW n \in Name, NEW e \in Expression, CreateDef(n, e) PROVE GeneratedAt'
  <2>1. Evaluate(e).status \in {"ok", "error", "dangling"}
    BY ResultsOnly DEF IsResult, Result
  <2>2. \A items : AddVarToScope(n, items) => pc' = pc /\ phase' \in {phase, "failed"}
    BY DEF AddVarToScope, Fail
  <2> QED
    BY <1>1, <1>11, <2>1, <2>2 DEF CreateDef, Dangling
<1>12. ASSUME NEW n \in Name, NEW e \in Expression, CreateAssign(n, e) PROVE GeneratedAt'
  BY <1>1, <1>12, ResultsOnly, AcceptStays DEF CreateAssign
<1>13. ASSUME NEW e \in Expression, CreateReturn(e) PROVE GeneratedAt'
  BY <1>1, <1>13, ResultsOnly, AcceptStays DEF CreateReturn
<1>14. ASSUME NEW f \in Name, NEW args, CreateFuncall(f, args) PROVE GeneratedAt'
  <2>1. IsResult(IF args = <<>> THEN Result("ok", <<>>) ELSE Evaluate(args[1]))
    BY ResultsOnly DEF IsResult
  <2> QED
    BY <1>1, <1>14, <2>1, AcceptStays DEF CreateFuncall, Fail
<1>15. ASSUME NEW e \in Expression, BeginBlock(e) PROVE GeneratedAt'
  BY <1>1, <1>15, ResultsOnly, AcceptStays DEF BeginBlock
<1>16. ASSUME NEW f \in Name, NEW kind, BeginFunction(f, kind) PROVE GeneratedAt'
  BY <1>1, <1>16 DEF BeginFunction
<1>17. ASSUME NEW n \in Name, NEW q, CreateParam(n, q) PROVE GeneratedAt'
  BY <1>1, <1>17 DEF CreateParam, Fail
<1> QED
  BY <1>2, <1>3, <1>4, <1>5, <1>6, <1>7, <1>8, <1>9, <1>10, <1>11, <1>12, <1>13, <1>14,
     <1>15, <1>16, <1>17 DEF Next

\* Code generation finds every function and every call that semantic analysis
\* accepted, by name and with as many parameters, or it stops there because a
\* variable of the module has that name: no module in which a function and a
\* variable share a name is ever generated, and no other is refused here.
THEOREM CodegenFindsFunctions == Spec => []CodegenFindsTheFunction
<1>1. Init => GeneratedAt
  BY DEF Init, GeneratedAt
<1>2. IInv /\ GeneratedAt => CodegenFindsTheFunction
  <2> SUFFICES ASSUME IInv, GeneratedAt PROVE CodegenFindsTheFunction
    OBVIOUS
  <2>1. ASSUME phase = "codegen", pc <= Len(code), code[pc].op \in {"call", "function"}
        PROVE  \/ /\ NamedFunction(code[pc].name)
                  /\ code[pc].op = "call" =>
                       Len(functions[code[pc].name].params) = code[pc].ref
               \/ GlobalNamed(code[pc].name) # {}
    <3>1. pc \in 1 .. Len(code)
      BY <2>1 DEF IInv, PhaseAt
    <3>2. AnalysedAt(code, pc)
      BY <2>1, <3>1 DEF IInv, Working, Analysed
    <3> QED
      BY <2>1, <3>2 DEF AnalysedAt, InBody, NamedFunction
  <2>2. ASSUME phase = "generated", NEW i \in DOMAIN code,
               code[i].op \in {"call", "function"}
        PROVE  GlobalNamed(code[i].name) = {}
    <3>1. code \in Seq(Item) /\ i < pc
      BY <2>2 DEF IInv, Typed, GeneratedAt
    <3> QED
      BY <2>2, <3>1 DEF GeneratedAt, Named, NamedFunction
  <2> QED
    BY <2>1, <2>2 DEF CodegenFindsTheFunction, GeneratedAt
<1> QED
  BY <1>1, <1>2, GeneratedStep, Invariance, PTL DEF Spec
=============================================================================
