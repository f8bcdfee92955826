----------------------------- MODULE DriverProofs -----------------------------
(***************************************************************************)
(* How a module is loaded with everything it imports, for every file       *)
(* system: however many files there are and however they import one        *)
(* another.                                                                *)
(***************************************************************************)
EXTENDS Driver, FiniteSetTheorems, WellFoundedInduction, TLAPS

-----------------------------------------------------------------------------
(* The inductive invariant.                                                *)

Node == {ImportNode(n) : n \in ImportName} \cup {DeclNode(p) : p \in Path}
SourceFile == [path : Path, open : BOOLEAN]

Typed ==
  /\ \A p \in Path : tree[p].imports \in Seq(ImportName)
  /\ root \in [Target -> Path]
  /\ importPaths \in [Target -> Seq(Dir)]
  /\ pc \in {"start", "targets", "imports", "report", "returned", "crashed"}
  /\ queue \subseteq Target /\ failed \subseteq Target
  /\ children \in Seq(Node) /\ i \in 0 .. Len(children) + 1
  /\ imports \subseteq Path
  /\ files \in Seq(SourceFile)
  /\ err \in {EXIT_SUCCESS, EXIT_FAILURE}

\* There is a tree while its imports are loaded, and none between targets.
OneTree ==
  IF pc = "imports" THEN target \in Target /\ i \in 1 .. Len(children) + 1
  ELSE target = "none" /\ children = <<>>

\* Every import that the loop has passed is in the table.
PassedAreLoaded ==
  \A k \in DOMAIN children : k < i =>
    \A n \in ImportName : children[k] = ImportNode(n) => Resolved(n) \in imports

\* Each file has come once for the table and once for being the root.
Times(p) == (IF p \in imports THEN 1 ELSE 0) + (IF p = root[target] THEN 1 ELSE 0)
Counted ==
  pc = "imports" => \A p \in Path : Cardinality(DeclsOf(p)) = Times(p)

\* What lies ahead of the loop are the ends of files that are being loaded,
\* one for the sake of the next: each file ahead reaches all that comes
\* between the loop and its declarations.
Names(p) == {tree[p].imports[k] : k \in DOMAIN tree[p].imports}
Leads(f, n) == \E g \in {f} \cup Reachable(f) : n \in Names(g)
ChainAhead ==
  \A k, l \in DOMAIN children : i <= k /\ k < l =>
    \A f \in Path : children[l] = DeclNode(f) =>
      /\ \A n \in ImportName : children[k] = ImportNode(n) => Leads(f, n)
      /\ \A g \in Path : children[k] = DeclNode(g) => g \in Reachable(f)

\* An import of a file is ahead, in front of the declarations of the file, or
\* the declarations it led to are there.
Ahead(n, l) == \E k \in DOMAIN children : i <= k /\ k < l /\ children[k] = ImportNode(n)
Behind(n, l) ==
  /\ Resolved(n) \in imports
  /\ \A h \in DOMAIN children : children[h] = DeclNode(Resolved(n)) => h < l
InOrder ==
  \A l \in DOMAIN children, p \in Path : children[l] = DeclNode(p) =>
    \A n \in Names(p) : Ahead(n, l) \/ Behind(n, l)
OrderedSoFar == pc = "imports" /\ Acyclic => InOrder

\* A target of its own is built once at most.
OneBuild ==
  (\E t \in Target : known = {t}) =>
    /\ pc = "start" => files = <<>> /\ failed = {} /\ err = EXIT_SUCCESS
    /\ pc = "targets" /\ files = <<>> => failed \cap known = {} /\ err = EXIT_SUCCESS
    /\ pc = "imports" => files # <<>> /\ failed \cap known = {} /\ target \in known
                         /\ err = EXIT_SUCCESS
    /\ pc \in {"targets", "imports", "report", "returned"} /\ files # <<>> =>
         queue \cap known = {}
    /\ pc \in {"targets", "report", "returned"} /\ files # <<>> =>
         (err = EXIT_FAILURE <=> known \subseteq failed)
    /\ pc = "returned" => files # <<>>

IInv ==
  /\ Typed
  /\ OneTree
  /\ PassedAreLoaded
  /\ Counted
  /\ ChainAhead
  /\ OrderedSoFar
  /\ OneBuild

-----------------------------------------------------------------------------
(* Where names lead.                                                       *)

LEMMA Least ==
  ASSUME NEW S \in SUBSET Nat, S # {}
  PROVE  \E k \in S : \A l \in S : k <= l
<1> DEFINE R == OpToRel(<, Nat)
<1>1. IsWellFoundedOn(R, Nat)
  BY NatLessThanWellFounded
<1> HIDE DEF R
<1>2. PICK k \in S : \A l \in S : <<l, k>> \notin R
  BY <1>1, WFMin
<1>3. \A l \in S : ~(l < k)
  BY <1>2 DEF OpToRel, R
<1> QED
  BY <1>3

LEMMA PathsAreNotEmpty == \A p \in Path : p # NoPath /\ DirOf[p] \in Dir
BY PathAssumption

\* A node says what it is.
LEMMA ImportIs ==
  ASSUME NEW n \in ImportName
  PROVE  /\ ImportNode(n) \in Node
         /\ ImportNode(n).kind = "AST_Import" /\ ImportNode(n).value = n
         /\ \A m \in ImportName : ImportNode(n) = ImportNode(m) => n = m
BY DEF Node, ImportNode

LEMMA DeclIs ==
  ASSUME NEW p \in Path
  PROVE  /\ DeclNode(p) \in Node
         /\ DeclNode(p).kind = "declarations" /\ DeclNode(p).value = p
         /\ \A q \in Path : DeclNode(p) = DeclNode(q) => p = q
         /\ \A n \in ImportName : DeclNode(p) # ImportNode(n)
BY ImportIs DEF Node, DeclNode

LEMMA NodeIs ==
  ASSUME NEW x \in Node
  PROVE  \/ \E n \in ImportName : x = ImportNode(n)
         \/ \E p \in Path : x = DeclNode(p)
BY DEF Node

\* The first number of a set.
IsFirst(k, S) == k \in S /\ \A l \in S : k <= l
LEMMA First ==
  ASSUME NEW S \in SUBSET Nat, NEW k, IsFirst(k, S)
  PROVE  (CHOOSE j \in S : \A l \in S : j <= l) = k
<1>1. \A j \in S : (\A l \in S : j <= l) => j = k
  BY DEF IsFirst
<1> QED
  BY <1>1 DEF IsFirst

\* A name leads to the file in the first directory that has it.
LEMMA ResolvedIs ==
  ASSUME Typed, target \in Target, NEW n \in ImportName
  PROVE  /\ Resolved(n) = NoPath \/ Resolved(n) \in Path
         /\ Resolved(n) # NoPath =>
              \E k \in PathsTo(n) : /\ IsFirst(k, PathsTo(n))
                                    /\ Resolved(n) = PathIn[importPaths[target][k]][n]
<1>1. importPaths[target] \in Seq(Dir) /\ PathsTo(n) \in SUBSET Nat
      /\ \A k \in PathsTo(n) : PathIn[importPaths[target][k]][n] \in Path
  BY PathAssumption DEF Typed, PathsTo
<1>2. CASE PathsTo(n) = {}
  BY <1>2 DEF Resolved
<1>3. CASE PathsTo(n) # {}
  <2>1. PICK k : IsFirst(k, PathsTo(n))
    BY <1>1, <1>3, Least DEF IsFirst
  <2>2. (CHOOSE j \in PathsTo(n) : \A l \in PathsTo(n) : j <= l) = k
    BY <1>1, <2>1, First
  <2>3. Resolved(n) = PathIn[importPaths[target][k]][n]
    BY <1>3, <2>2 DEF Resolved
  <2> QED
    BY <1>1, <2>1, <2>3 DEF IsFirst
<1> QED
  BY <1>2, <1>3

\* What a step of the loop does to where names lead.
KeepsLooking ==
  /\ target \in Target /\ target' = target /\ tree' = tree
  /\ \/ importPaths' = importPaths
     \/ \E d \in Dir : importPaths' = [importPaths EXCEPT ![target] = Append(@, d)]
Settled == \A n \in ImportName : Resolved(n) # NoPath => Resolved(n)' = Resolved(n)

LEMMA LookingOn == Typed /\ KeepsLooking => Settled
<1> SUFFICES ASSUME Typed, KeepsLooking, NEW n \in ImportName, Resolved(n) # NoPath
             PROVE  Resolved(n)' = Resolved(n)
  BY DEF Settled
<1>1. importPaths[target] \in Seq(Dir) /\ target \in Target
  BY DEF Typed, KeepsLooking
<1>2. CASE importPaths' = importPaths
  <2>1. importPaths'[target'] = importPaths[target] /\ tree' = tree
    BY <1>2 DEF KeepsLooking
  <2>2. PathsTo(n)' = PathsTo(n)
    BY <2>1 DEF PathsTo
  <2>3. PICK k \in PathsTo(n) : /\ IsFirst(k, PathsTo(n))
                                /\ Resolved(n) = PathIn[importPaths[target][k]][n]
    BY <1>1, ResolvedIs
  <2>4. PathsTo(n)' \in SUBSET Nat /\ IsFirst(k, PathsTo(n)')
    <3>1. PathsTo(n) \in SUBSET Nat
      BY <1>1 DEF PathsTo
    <3> QED
      BY <2>2, <2>3, <3>1
  <2>5. (CHOOSE j \in PathsTo(n)' : \A l \in PathsTo(n)' : j <= l) = k
    BY <2>4, First
  <2>6. Resolved(n)' = PathIn[importPaths'[target'][k]][n]
    BY <2>4, <2>5 DEF Resolved, IsFirst
  <2> QED
    BY <2>1, <2>3, <2>6 DEF KeepsLooking
<1>3. CASE importPaths' # importPaths
  <2>1. PICK d \in Dir : importPaths' = [importPaths EXCEPT ![target] = Append(@, d)]
    BY <1>3 DEF KeepsLooking
  <2>2. importPaths'[target'] = Append(importPaths[target], d)
    BY <1>1, <2>1 DEF Typed, KeepsLooking
  <2>3. PICK k \in PathsTo(n) : /\ IsFirst(k, PathsTo(n))
                                /\ Resolved(n) = PathIn[importPaths[target][k]][n]
    BY <1>1, ResolvedIs
  <2>4. /\ \A l \in DOMAIN importPaths[target] :
             l \in DOMAIN importPaths'[target'] /\ importPaths'[target'][l] = importPaths[target][l]
        /\ \A l \in DOMAIN importPaths'[target'] :
             l \in DOMAIN importPaths[target] \/ \A j \in DOMAIN importPaths[target] : j <= l
        /\ DOMAIN importPaths'[target'] \subseteq Nat
    BY <1>1, <2>2
  <2>5. PathsTo(n)' \in SUBSET Nat /\ IsFirst(k, PathsTo(n)')
    BY <2>3, <2>4 DEF KeepsLooking, IsFirst, PathsTo
  <2>6. (CHOOSE j \in PathsTo(n)' : \A l \in PathsTo(n)' : j <= l) = k
    BY <2>5, First
  <2>7. Resolved(n)' = PathIn[importPaths'[target'][k]][n]
    BY <2>5, <2>6 DEF Resolved, IsFirst
  <2>8. importPaths'[target'][k] = importPaths[target][k]
    BY <2>3, <2>4 DEF PathsTo
  <2> QED
    BY <2>3, <2>7, <2>8
<1> QED
  BY <1>2, <1>3

\* What a file imports are files, and it reaches all that they reach.
LEMMA ImportsAreFiles ==
  ASSUME Typed, target \in Target, NEW p \in Path
  PROVE  /\ ImportsOf(p) \subseteq Path
         /\ \A n : n \in Names(p) =>
              n \in ImportName /\ (Resolved(n) # NoPath => Resolved(n) \in ImportsOf(p))
<1>1. \A k \in DOMAIN tree[p].imports : tree[p].imports[k] \in ImportName
  BY DEF Typed
<1> QED
  BY <1>1, ResolvedIs DEF ImportsOf, Names

LEMMA Reaches ==
  ASSUME Typed, target \in Target, NEW p \in Path
  PROVE  /\ Reachable(p) \subseteq Path
         /\ ImportsOf(p) \subseteq Reachable(p)
         /\ \A q \in Reachable(p) : Reachable(q) \subseteq Reachable(p)
<1>1. Reachable(p) \subseteq Path
  BY DEF Reachable
<1>2. ImportsOf(p) \subseteq Reachable(p)
  BY ImportsAreFiles DEF Reachable
<1>3. ASSUME NEW q \in Reachable(p), NEW r \in Reachable(q) PROVE r \in Reachable(p)
  <2> SUFFICES ASSUME NEW S \in SUBSET Path, ImportsOf(p) \subseteq S, Closed(S)
               PROVE  r \in S
    BY <1>3 DEF Reachable
  <2>1. q \in S
    BY <1>3 DEF Reachable
  <2>2. ImportsOf(q) \subseteq S
    BY <2>1 DEF Closed
  <2> QED
    BY <1>3, <2>2 DEF Reachable
<1> QED
  BY <1>1, <1>2, <1>3

LEMMA LeadsTo ==
  ASSUME Typed, target \in Target, NEW f \in Path, NEW n, Leads(f, n), Resolved(n) # NoPath
  PROVE  Resolved(n) \in Reachable(f)
<1>1. PICK g \in {f} \cup Reachable(f) : n \in Names(g)
  BY DEF Leads
<1>2. g \in Path /\ Reachable(g) \subseteq Reachable(f)
  BY <1>1, Reaches
<1>3. Resolved(n) \in ImportsOf(g)
  BY <1>1, <1>2, ImportsAreFiles
<1> QED
  BY <1>2, <1>3, Reaches

\* Looking in further directories, a file reaches more.
LEMMA ReachesMore ==
  ASSUME Typed, KeepsLooking, NEW p \in Path
  PROVE  /\ Reachable(p) \subseteq Reachable(p)'
         /\ \A n : Leads(p, n) => Leads(p, n)'
<1>1. \A q \in Path : ImportsOf(q) \subseteq ImportsOf(q)'
  <2>1. \A q \in Path : \A k \in DOMAIN tree[q].imports : tree[q].imports[k] \in ImportName
    BY DEF Typed
  <2>2. ASSUME NEW q \in Path, NEW r \in ImportsOf(q) PROVE r \in ImportsOf(q)'
    <3>1. PICK k \in DOMAIN tree[q].imports : r = Resolved(tree[q].imports[k]) /\ r # NoPath
      BY <2>2 DEF ImportsOf
    <3>2. Resolved(tree[q].imports[k])' = r
      <4>1. tree'[q].imports[k] = tree[q].imports[k] /\ tree[q].imports[k] \in ImportName
        BY <2>1, <3>1 DEF KeepsLooking
      <4> QED
        BY <3>1, <4>1, LookingOn DEF Settled
    <3> QED
      BY <3>1, <3>2 DEF ImportsOf, KeepsLooking
  <2> QED
    BY <2>2
<1>2. Reachable(p) \subseteq Reachable(p)'
  <2> SUFFICES ASSUME NEW q \in Reachable(p),
                      NEW S \in SUBSET Path, ImportsOf(p)' \subseteq S, Closed(S)'
               PROVE  q \in S
    BY DEF Reachable
  <2>1. ImportsOf(p) \subseteq S /\ Closed(S)
    BY <1>1 DEF Closed
  <2> QED
    BY <2>1 DEF Reachable
<1>3. \A n : Leads(p, n) => Leads(p, n)'
  BY <1>2 DEF Leads, Names, KeepsLooking
<1> QED
  BY <1>2, <1>3

-----------------------------------------------------------------------------
(* A file is merged behind the node that the loop is at.                   *)

\* One sequence behind another.
Joined(a, b, c) ==
  /\ Len(c) = Len(a) + Len(b)
  /\ \A k \in 1 .. Len(a) : c[k] = a[k]
  /\ \A k \in 1 .. Len(b) : c[Len(a) + k] = b[k]
LEMMA Concatenation ==
  ASSUME NEW S, NEW a \in Seq(S), NEW b \in Seq(S)
  PROVE  a \o b \in Seq(S) /\ Joined(a, b, a \o b)
BY DEF Joined

LEMMA NodesAre ==
  ASSUME Typed, NEW p \in Path
  PROVE  \E m \in Nat :
           /\ Nodes(p) \in Seq(Node) /\ Len(Nodes(p)) = m + 1
           /\ \A k \in 1 .. m : \E n \in Names(p) : Nodes(p)[k] = ImportNode(n)
           /\ \A n \in Names(p) : \E k \in 1 .. m : Nodes(p)[k] = ImportNode(n)
           /\ Nodes(p)[m + 1] = DeclNode(p)
<1> DEFINE names == tree[p].imports
           nodes == [k \in DOMAIN names |-> ImportNode(names[k])]
<1>1. names \in Seq(ImportName) /\ Len(names) \in Nat /\ DOMAIN names = 1 .. Len(names)
  BY DEF Typed
<1>2. nodes \in Seq(Node) /\ Len(nodes) = Len(names)
      /\ \A k \in 1 .. Len(names) : nodes[k] = ImportNode(names[k])
  <2>1. \A k \in 1 .. Len(names) : names[k] \in ImportName
    BY <1>1
  <2>2. \A k \in 1 .. Len(names) : ImportNode(names[k]) \in Node
    BY <2>1, ImportIs
  <2> QED
    BY <1>1, <2>2
<1>3. Nodes(p) = nodes \o <<DeclNode(p)>> /\ DeclNode(p) \in Node
  BY DeclIs DEF Nodes
<1>4. \A k \in 1 .. Len(names) : names[k] \in Names(p)
  BY <1>1 DEF Names
<1>5. \A n \in Names(p) : \E k \in 1 .. Len(names) : n = names[k]
  BY <1>1 DEF Names
<1> HIDE DEF nodes
<1>6. /\ Nodes(p) \in Seq(Node) /\ Len(Nodes(p)) = Len(names) + 1
      /\ \A k \in 1 .. Len(names) : Nodes(p)[k] = nodes[k]
      /\ Nodes(p)[Len(names) + 1] = DeclNode(p)
  <2> DEFINE last == <<DeclNode(p)>>
  <2>1. last \in Seq(Node) /\ 1 = Len(last) /\ last[1] = DeclNode(p) /\ 1 \in 1 .. 1
    BY <1>3
  <2>2. Nodes(p) = nodes \o last /\ Len(names) = Len(nodes)
    BY <1>2, <1>3
  <2> HIDE DEF last
  <2>3. /\ nodes \o last \in Seq(Node) /\ Joined(nodes, last, nodes \o last)
    BY <1>2, <2>1, Concatenation
  <2>4. \A k \in 1 .. Len(names) : (nodes \o last)[k] = nodes[k]
    BY <2>2, <2>3 DEF Joined
  <2>5. (nodes \o last)[Len(names) + 1] = last[1]
    BY <2>1, <2>2, <2>3 DEF Joined
  <2> QED
    BY <2>1, <2>2, <2>3, <2>4, <2>5 DEF Joined
<1>7. Len(names) \in Nat /\ Nodes(p) \in Seq(Node) /\ Len(Nodes(p)) = Len(names) + 1
      /\ Nodes(p)[Len(names) + 1] = DeclNode(p)
  BY <1>1, <1>6
<1>8. \A k \in 1 .. Len(names) : Nodes(p)[k] = ImportNode(names[k])
  BY <1>2, <1>6
<1> HIDE DEF names
<1>9. /\ \A k \in 1 .. Len(names) : \E n \in Names(p) : Nodes(p)[k] = ImportNode(n)
      /\ \A n \in Names(p) : \E k \in 1 .. Len(names) : Nodes(p)[k] = ImportNode(n)
  BY <1>4, <1>5, <1>8
<1> QED
  BY <1>7, <1>9

\* Where the nodes have gone when m of them come after the one at i.
Shift(k, m) == IF k <= i THEN k ELSE k + m
Merged(p, m) ==
  /\ m \in Nat /\ m > 0
  /\ children' \in Seq(Node) /\ Len(children') = Len(children) + m
  /\ \A k \in 1 .. Len(children) : children'[Shift(k, m)] = children[k]
  /\ \A k \in 1 .. Len(children') :
       \/ \E j \in 1 .. Len(children) : k = Shift(j, m)
       \/ k \in i + 1 .. i + m - 1 /\ \E n \in Names(p) : children'[k] = ImportNode(n)
       \/ k = i + m
  /\ \A n \in Names(p) : \E k \in i + 1 .. i + m - 1 : children'[k] = ImportNode(n)
  /\ children'[i + m] = DeclNode(p)

LEMMA MergeIs ==
  ASSUME Typed, NEW p \in Path, i \in 1 .. Len(children),
         children' = MergeAfter(i, Nodes(p))
  PROVE  \E m \in Nat : Merged(p, m)
<1>1. PICK m \in Nat :
           /\ Nodes(p) \in Seq(Node) /\ Len(Nodes(p)) = m + 1
           /\ \A k \in 1 .. m : \E n \in Names(p) : Nodes(p)[k] = ImportNode(n)
           /\ \A n \in Names(p) : \E k \in 1 .. m : Nodes(p)[k] = ImportNode(n)
           /\ Nodes(p)[m + 1] = DeclNode(p)
  BY NodesAre
<1> DEFINE new == Nodes(p)
           len == Len(children)
<1>2. children \in Seq(Node) /\ len \in Nat /\ i \in 1 .. len
  BY DEF Typed
<1>3. children' = SubSeq(children, 1, i) \o new \o SubSeq(children, i + 1, len)
  BY DEF MergeAfter
<1>4. /\ children' \in Seq(Node) /\ Len(children') = len + m + 1
      /\ \A k \in 1 .. i : children'[k] = children[k]
      /\ \A k \in 1 .. m + 1 : children'[i + k] = new[k]
      /\ \A k \in i + 1 .. len : children'[k + m + 1] = children[k]
  <2> HIDE DEF new
  <2>1. SubSeq(children, 1, i) \in Seq(Node) /\ Len(SubSeq(children, 1, i)) = i
        /\ \A k \in 1 .. i : SubSeq(children, 1, i)[k] = children[k]
    BY <1>2
  <2>2. SubSeq(children, i + 1, len) \in Seq(Node)
        /\ Len(SubSeq(children, i + 1, len)) = len - i
        /\ \A k \in 1 .. len - i : SubSeq(children, i + 1, len)[k] = children[k + i]
    BY <1>2
  <2> DEFINE before == SubSeq(children, 1, i)
             after == SubSeq(children, i + 1, len)
  <2> HIDE DEF before, after, len
  <2>3. new \in Seq(Node) /\ Len(new) = m + 1
    BY <1>1 DEF new
  <2>4. before \in Seq(Node) /\ Len(before) = i /\ after \in Seq(Node) /\ Len(after) = len - i
    BY <2>1, <2>2 DEF before, after
  <2>5. children' = (before \o new) \o after
    BY <1>3 DEF before, after
  <2>6. /\ before \o new \in Seq(Node) /\ Len(before \o new) = i + m + 1
        /\ \A k \in 1 .. i : (before \o new)[k] = before[k]
        /\ \A k \in 1 .. m + 1 : (before \o new)[i + k] = new[k]
    <3>1. i = Len(before) /\ m + 1 = Len(new)
      BY <2>3, <2>4
    <3>2. /\ before \o new \in Seq(Node) /\ Joined(before, new, before \o new)
      BY <2>3, <2>4, Concatenation
    <3>3. Len(before) + Len(new) = i + m + 1
      BY <1>1, <1>2, <3>1, SMTT(30)
    <3> QED
      BY <3>1, <3>2, <3>3 DEF Joined
  <2>7. /\ children' \in Seq(Node) /\ Len(children') = len + m + 1
        /\ \A k \in 1 .. i + m + 1 : children'[k] = (before \o new)[k]
        /\ \A k \in 1 .. len - i : children'[i + m + 1 + k] = after[k]
    <3> DEFINE front == before \o new
    <3>1. front \in Seq(Node) /\ i + m + 1 = Len(front) /\ len - i = Len(after)
      BY <2>4, <2>6
    <3>2. children' = front \o after
      BY <2>5
    <3> HIDE DEF front
    <3>3. /\ front \o after \in Seq(Node) /\ Joined(front, after, front \o after)
      BY <2>4, <3>1, Concatenation
    <3>4. Len(front) + Len(after) = len + m + 1
      BY <1>1, <1>2, <3>1, SMTT(30) DEF len
    <3> QED
      BY <3>1, <3>2, <3>3, <3>4 DEF front, Joined
  <2>8. \A k \in 1 .. i : children'[k] = children[k]
    <3> SUFFICES ASSUME NEW k \in 1 .. i PROVE children'[k] = children[k]
      OBVIOUS
    <3>1. k \in 1 .. i + m + 1
      BY <1>1, <1>2
    <3> QED
      BY <2>1, <2>6, <2>7, <3>1 DEF before
  <2>9. \A k \in 1 .. m + 1 : children'[i + k] = new[k]
    <3> SUFFICES ASSUME NEW k \in 1 .. m + 1 PROVE children'[i + k] = new[k]
      OBVIOUS
    <3>1. i + k \in 1 .. i + m + 1
      BY <1>1, <1>2
    <3> QED
      BY <2>6, <2>7, <3>1
  <2>10. ASSUME NEW k \in i + 1 .. len PROVE children'[k + m + 1] = children[k]
    <3>1. k - i \in 1 .. len - i /\ i + m + 1 + (k - i) = k + m + 1 /\ (k - i) + i = k
      BY <1>2
    <3>2. children'[i + m + 1 + (k - i)] = after[k - i]
      BY <2>7, <3>1
    <3>3. after[k - i] = children[(k - i) + i]
      BY <2>2, <3>1 DEF after
    <3> QED
      BY <3>1, <3>2, <3>3
  <2> QED
    BY <2>7, <2>8, <2>9, <2>10
<1> HIDE DEF new
<1>5. \A k \in 1 .. len : children'[Shift(k, m + 1)] = children[k]
  <2> SUFFICES ASSUME NEW k \in 1 .. len PROVE children'[Shift(k, m + 1)] = children[k]
    OBVIOUS
  <2>1. CASE k <= i
    <3>1. Shift(k, m + 1) = k /\ k \in 1 .. i
      BY <1>2, <2>1 DEF Shift
    <3> QED
      BY <1>4, <3>1
  <2>2. CASE ~(k <= i)
    <3>1. Shift(k, m + 1) = k + m + 1 /\ k \in i + 1 .. len
      BY <1>2, <2>2 DEF Shift
    <3>2. children'[k + m + 1] = children[k]
      BY <1>4, <3>1
    <3> HIDE DEF Shift
    <3> QED
      BY <3>1, <3>2
  <2> QED
    BY <2>1, <2>2
<1>6. ASSUME NEW k \in 1 .. Len(children')
      PROVE  \/ \E j \in 1 .. len : k = Shift(j, m + 1)
             \/ k \in i + 1 .. i + m /\ \E n \in Names(p) : children'[k] = ImportNode(n)
             \/ k = i + m + 1
  <2>1. CASE k <= i
    BY <1>2, <2>1 DEF Shift
  <2>2. CASE k > i /\ k <= i + m
    <3>1. k - i \in 1 .. m /\ k = i + (k - i)
      BY <1>2, <2>2
    <3>2. children'[k] = new[k - i]
      BY <1>2, <1>4, <3>1
    <3> QED
      BY <1>1, <1>2, <2>2, <3>1, <3>2, SMTT(30) DEF new
  <2>3. CASE k > i + m + 1
    <3>1. k - (m + 1) \in 1 .. len /\ k - (m + 1) > i /\ k = (k - (m + 1)) + (m + 1)
      BY <1>2, <1>4, <2>3
    <3>2. k = Shift(k - (m + 1), m + 1)
      BY <1>2, <3>1 DEF Shift
    <3> QED
      BY <3>1, <3>2
  <2> QED
    BY <1>2, <2>1, <2>2, <2>3
<1>7. ASSUME NEW n \in Names(p)
      PROVE  \E k \in i + 1 .. i + m : children'[k] = ImportNode(n)
  <2>1. PICK k \in 1 .. m : new[k] = ImportNode(n)
    BY <1>1 DEF new
  <2>2. children'[i + k] = ImportNode(n) /\ i + k \in i + 1 .. i + m
    BY <1>2, <1>4, <2>1
  <2> QED
    BY <2>2
<1>8. children'[i + m + 1] = DeclNode(p)
  BY <1>1, <1>2, <1>4 DEF new
<1>9. i + (m + 1) - 1 = i + m /\ i + (m + 1) = i + m + 1 /\ m + 1 \in Nat /\ m + 1 > 0
      /\ len + m + 1 = len + (m + 1)
  BY <1>2
<1>10. Merged(p, m + 1)
  BY <1>4, <1>5, <1>6, <1>7, <1>8, <1>9 DEF Merged
<1> QED
  BY <1>9, <1>10

\* Where a node has gone, which node has gone there, and in which order.
LEMMA Shifts ==
  ASSUME i \in Nat, NEW m \in Nat, NEW j \in Nat, NEW k \in Nat
  PROVE  /\ Shift(k, m) \in Nat /\ Shift(k, m) >= k
         /\ Shift(j, m) < Shift(k, m) <=> j < k
         /\ Shift(j, m) = Shift(k, m) => j = k
         /\ k <= i <=> Shift(k, m) <= i
         /\ k > i <=> Shift(k, m) > i + m
BY DEF Shift

LEMMA ShiftedSet ==
  ASSUME i \in Nat, NEW m \in Nat, NEW S \in SUBSET Nat, IsFiniteSet(S)
  PROVE  /\ IsFiniteSet({Shift(k, m) : k \in S})
         /\ Cardinality({Shift(k, m) : k \in S}) = Cardinality(S)
<1> DEFINE T == {Shift(k, m) : k \in S}
           f == [k \in S |-> Shift(k, m)]
<1>1. f \in Bijection(S, T)
  <2>1. \A j, k \in S : Shift(j, m) = Shift(k, m) => j = k
    BY Shifts
  <2> QED
    BY <2>1 DEF Bijection, Injection, Surjection, IsInjective
<1>2. ExistsBijection(S, T)
  BY <1>1 DEF ExistsBijection
<1> QED
  BY <1>2, FS_Bijection

-----------------------------------------------------------------------------
(* The loop over the children.                                             *)

\* A module without a cycle had none before.
LEMMA WasAcyclic ==
  ASSUME Typed, KeepsLooking, imports \subseteq imports', root' = root, Acyclic'
  PROVE  Acyclic
<1>1. target \in Target /\ target' = target /\ root[target] \in Path /\ imports \subseteq Path
  BY DEF Typed, KeepsLooking
<1>2. ASSUME NEW p \in imports \cup {root[target]} PROVE p \notin Reachable(p)
  <2>1. p \notin Reachable(p)'
    BY <1>1 DEF Acyclic
  <2> QED
    BY <1>1, <2>1, ReachesMore
<1> QED
  BY <1>2 DEF Acyclic

\* The state of the loop, and a step that passes the node it is at.
Looping ==
  /\ Typed /\ OneTree /\ PassedAreLoaded /\ Counted /\ ChainAhead /\ OrderedSoFar
  /\ pc = "imports" /\ i \in 1 .. Len(children)
Passes == KeepsLooking /\ root' = root /\ pc' = "imports" /\ i' = i + 1

\* A node that needs no file.
Skips ==
  /\ Passes /\ children' = children /\ imports' = imports
  /\ \A n \in ImportName : children[i] = ImportNode(n) => Resolved(n) \in imports

LEMMA SkipPassed == ASSUME Looping, Skips PROVE PassedAreLoaded'
<1> SUFFICES ASSUME NEW k \in DOMAIN children, k < i + 1, NEW n \in ImportName,
                    children[k] = ImportNode(n)
             PROVE  Resolved(n)' \in imports
  BY DEF PassedAreLoaded, Skips, Passes
<1>1. k < i \/ k = i
  BY DEF Looping, Typed
<1>2. Resolved(n) \in imports /\ imports \subseteq Path
  BY <1>1 DEF Looping, PassedAreLoaded, Skips, Typed
<1> QED
  BY <1>2, LookingOn, PathsAreNotEmpty DEF Looping, Skips, Passes, Settled

LEMMA SkipCounted == ASSUME Looping, Skips PROVE Counted'
BY DEF Looping, Skips, Passes, KeepsLooking, Counted, DeclsOf, Times

LEMMA SkipChain == ASSUME Looping, Skips PROVE ChainAhead'
<1> SUFFICES ASSUME NEW k \in DOMAIN children, NEW l \in DOMAIN children, i + 1 <= k, k < l,
                    NEW f \in Path, children[l] = DeclNode(f)
             PROVE  /\ \A n \in ImportName : children[k] = ImportNode(n) => Leads(f, n)'
                    /\ \A g \in Path : children[k] = DeclNode(g) => g \in Reachable(f)'
  BY DEF ChainAhead, Skips, Passes
<1>1. i <= k
  BY DEF Looping, Typed
<1>2. /\ \A n \in ImportName : children[k] = ImportNode(n) => Leads(f, n)
      /\ \A g \in Path : children[k] = DeclNode(g) => g \in Reachable(f)
  BY <1>1 DEF Looping, ChainAhead
<1> QED
  BY <1>2, ReachesMore DEF Looping, Skips, Passes

\* Were the declarations of the file not behind, the file that imports it
\* would be one that it reaches.
LEMMA SkippedIsBehind ==
  ASSUME Looping, Acyclic, NEW l \in DOMAIN children, NEW f \in Path,
         children[l] = DeclNode(f), NEW n \in Names(f), i < l,
         children[i] = ImportNode(n), Resolved(n) \in imports
  PROVE  Behind(n, l)
<1> DEFINE q == Resolved(n)
<1>1. target \in Target /\ imports \subseteq Path /\ q \in Path /\ q # NoPath
      /\ children \in Seq(Node) /\ i \in Nat
  BY PathsAreNotEmpty DEF Looping, Typed, OneTree
<1>2. q \in ImportsOf(f) /\ q \in Reachable(f)
  BY <1>1, ImportsAreFiles, Reaches DEF Looping
<1>3. q \notin Reachable(q)
  BY DEF Acyclic
<1>4. ASSUME NEW h \in DOMAIN children, children[h] = DeclNode(q), ~(h < l) PROVE FALSE
  <2>1. h = l \/ l < h
    BY <1>1, <1>4
  <2>2. CASE h = l
    <3>1. f = q
      BY <1>1, <1>4, <2>2, DeclIs
    <3> QED
      BY <1>2, <1>3, <3>1
  <2>3. CASE l < h
    <3>1. i <= l
      BY <1>1
    <3>2. f \in Reachable(q)
      BY <1>1, <1>4, <2>3, <3>1 DEF Looping, ChainAhead
    <3> QED
      BY <1>1, <1>2, <1>3, <3>2, Reaches DEF Looping
  <2> QED
    BY <2>1, <2>2, <2>3
<1> QED
  BY <1>4 DEF Behind

LEMMA SkipOrdered == ASSUME Looping, Skips PROVE OrderedSoFar'
<1> SUFFICES ASSUME Acyclic' PROVE InOrder'
  BY DEF OrderedSoFar
<1>1. Acyclic /\ InOrder
  BY WasAcyclic DEF Looping, Skips, Passes, OrderedSoFar
<1> SUFFICES ASSUME NEW l \in DOMAIN children, NEW f \in Path, children[l] = DeclNode(f),
                    NEW n \in Names(f)
             PROVE  Ahead(n, l)' \/ Behind(n, l)'
  BY DEF InOrder, Names, Skips, Passes, KeepsLooking
<1>2. target \in Target /\ i \in Nat /\ children \in Seq(Node) /\ imports \subseteq Path
      /\ n \in ImportName
  BY ImportsAreFiles DEF Looping, OneTree, Typed
<1>3. Behind(n, l) => Behind(n, l)'
  <2> SUFFICES ASSUME Behind(n, l) PROVE Behind(n, l)'
    OBVIOUS
  <2>1. Resolved(n) \in imports /\ Resolved(n)' = Resolved(n)
    BY <1>2, LookingOn, PathsAreNotEmpty DEF Looping, Skips, Passes, Settled, Behind
  <2> QED
    BY <2>1 DEF Behind, Skips
<1>4. CASE Ahead(n, l)
  <2>1. PICK k \in DOMAIN children : i <= k /\ k < l /\ children[k] = ImportNode(n)
    BY <1>4 DEF Ahead
  <2>2. CASE k = i
    <3>1. i < l /\ children[i] = ImportNode(n) /\ Resolved(n) \in imports
      BY <1>2, <2>1, <2>2 DEF Skips
    <3> QED
      BY <1>1, <1>3, <3>1, SkippedIsBehind
  <2>3. CASE k # i
    <3>1. i + 1 <= k
      BY <1>2, <2>1, <2>3
    <3> QED
      BY <2>1, <3>1 DEF Ahead, Skips, Passes
  <2> QED
    BY <2>2, <2>3
<1> QED
  BY <1>1, <1>3, <1>4 DEF InOrder

\* A node whose file p is loaded: p is merged behind it.
Loads(n, p, m) ==
  /\ Passes
  /\ n \in ImportName /\ children[i] = ImportNode(n) /\ Resolved(n) = p
  /\ p \in Path /\ p \notin imports /\ imports' = imports \cup {p}
  /\ Merged(p, m)

\* What a node of the merged module is.
LEMMA MergedNodes ==
  ASSUME Looping, NEW n, NEW p, NEW m, Loads(n, p, m), NEW k \in DOMAIN children'
  PROVE  \/ \E j \in DOMAIN children : k = Shift(j, m) /\ children'[k] = children[j]
         \/ k \in i + 1 .. i + m - 1 /\ \E x \in Names(p) : x \in ImportName /\ children'[k] = ImportNode(x)
         \/ k = i + m /\ children'[k] = DeclNode(p)
<1>1. DOMAIN children = 1 .. Len(children) /\ DOMAIN children' = 1 .. Len(children')
  BY DEF Looping, Typed, Loads, Merged
<1>2. \A x \in Names(p) : x \in ImportName
  BY ImportsAreFiles DEF Looping, OneTree, Loads
<1>3. \/ \E j \in 1 .. Len(children) : k = Shift(j, m)
      \/ k \in i + 1 .. i + m - 1 /\ \E x \in Names(p) : children'[k] = ImportNode(x)
      \/ k = i + m
  BY <1>1 DEF Loads, Merged
<1>4. CASE \E j \in 1 .. Len(children) : k = Shift(j, m)
  BY <1>1, <1>4 DEF Loads, Merged
<1>5. CASE k = i + m
  BY <1>5 DEF Loads, Merged
<1> QED
  BY <1>2, <1>3, <1>4, <1>5

LEMMA LoadFacts ==
  ASSUME Looping, NEW n, NEW p, NEW m, Loads(n, p, m)
  PROVE  /\ target \in Target /\ target' = target /\ imports \subseteq Path
         /\ i \in Nat /\ m \in Nat /\ m > 0 /\ children \in Seq(Node) /\ children' \in Seq(Node)
         /\ DOMAIN children \subseteq Nat /\ DOMAIN children' \subseteq Nat
         /\ i + m \in DOMAIN children'
         /\ \A k \in DOMAIN children : Shift(k, m) \in DOMAIN children'
                                       /\ children'[Shift(k, m)] = children[k]
<1>1. target \in Target /\ imports \subseteq Path /\ children \in Seq(Node)
      /\ i \in 1 .. Len(children) /\ target' = target
  BY DEF Looping, Typed, OneTree, Loads, Passes, KeepsLooking
<1>2. m \in Nat /\ m > 0 /\ children' \in Seq(Node) /\ Len(children') = Len(children) + m
      /\ \A k \in 1 .. Len(children) : children'[Shift(k, m)] = children[k]
  BY DEF Loads, Merged
<1>3. \A k \in 1 .. Len(children) : Shift(k, m) \in 1 .. Len(children')
  BY <1>1, <1>2 DEF Shift
<1>4. DOMAIN children = 1 .. Len(children) /\ DOMAIN children' = 1 .. Len(children')
  BY <1>1, <1>2
<1> QED
  BY <1>1, <1>2, <1>3, <1>4

LEMMA LoadPassed ==
  ASSUME Looping, NEW n, NEW p, NEW m, Loads(n, p, m) PROVE PassedAreLoaded'
<1> SUFFICES ASSUME NEW k \in DOMAIN children', k < i + 1, NEW x \in ImportName,
                    children'[k] = ImportNode(x)
             PROVE  Resolved(x)' \in imports'
  BY DEF PassedAreLoaded, Loads, Passes
<1>1. i \in Nat /\ m \in Nat /\ m > 0 /\ DOMAIN children \subseteq Nat /\ k \in Nat
  BY LoadFacts
<1>2. PICK j \in DOMAIN children : k = Shift(j, m) /\ children'[k] = children[j]
  BY <1>1, MergedNodes
<1>3. j = k /\ (j < i \/ j = i)
  BY <1>1, <1>2 DEF Shift
<1>4. CASE j < i
  <2>1. Resolved(x) \in imports /\ Resolved(x) # NoPath
    BY <1>2, <1>4, LoadFacts, PathsAreNotEmpty DEF Looping, PassedAreLoaded
  <2>2. Resolved(x)' = Resolved(x)
    BY <2>1, LookingOn DEF Looping, Loads, Passes, Settled
  <2> QED
    BY <2>1, <2>2 DEF Loads
<1>5. CASE j = i
  <2>1. x = n
    BY <1>2, <1>5, ImportIs DEF Loads
  <2>2. Resolved(x) = p /\ p # NoPath
    BY <2>1, PathsAreNotEmpty DEF Loads
  <2>3. Resolved(x)' = Resolved(x)
    BY <2>2, LookingOn DEF Looping, Loads, Passes, Settled
  <2> QED
    BY <2>2, <2>3 DEF Loads
<1> QED
  BY <1>3, <1>4, <1>5

LEMMA LoadCounted ==
  ASSUME Looping, NEW n, NEW p, NEW m, Loads(n, p, m) PROVE Counted'
<1> SUFFICES ASSUME NEW q \in Path
             PROVE  Cardinality(DeclsOf(q)') = Times(q)'
  BY DEF Counted
<1> DEFINE old == DeclsOf(q)
           new == {Shift(k, m) : k \in old}
<1>1. i \in Nat /\ m \in Nat /\ m > 0 /\ old \in SUBSET Nat /\ p \in Path
  BY LoadFacts DEF DeclsOf, Loads
<1>2. IsFiniteSet(old)
  <2>1. DOMAIN children = 1 .. Len(children) /\ Len(children) \in Int
    BY LoadFacts
  <2>2. IsFiniteSet(1 .. Len(children))
    BY <2>1, FS_Interval
  <2> QED
    BY <2>1, <2>2, FS_Subset DEF DeclsOf
<1>3. IsFiniteSet(new) /\ Cardinality(new) = Cardinality(old)
  <2> HIDE DEF old
  <2> QED
    BY <1>1, <1>2, ShiftedSet
<1>4. i + m \notin new
  <2>1. \A k \in old : k \in Nat
    BY <1>1
  <2>2. \A k \in old : Shift(k, m) # i + m
    BY <1>1, <2>1 DEF Shift
  <2> QED
    BY <2>2
<1>5. DeclsOf(q)' = new \cup (IF p = q THEN {i + m} ELSE {})
  <2>1. ASSUME NEW k \in DeclsOf(q)' PROVE k \in new \cup (IF p = q THEN {i + m} ELSE {})
    <3>1. k \in DOMAIN children' /\ children'[k] = DeclNode(q)
      BY <2>1 DEF DeclsOf
    <3>2. CASE \E j \in DOMAIN children : k = Shift(j, m) /\ children'[k] = children[j]
      BY <3>1, <3>2 DEF DeclsOf
    <3>3. CASE k = i + m /\ children'[k] = DeclNode(p)
      BY <1>1, <3>1, <3>3, DeclIs
    <3> QED
      BY <3>1, <3>2, <3>3, MergedNodes, DeclIs
  <2>2. ASSUME NEW k \in new PROVE k \in DeclsOf(q)'
    BY <2>2, LoadFacts DEF DeclsOf
  <2>3. p = q => i + m \in DeclsOf(q)'
    BY LoadFacts DEF DeclsOf, Loads, Merged
  <2> QED
    BY <2>1, <2>2, <2>3
<1>6. Cardinality(old) = Times(q) /\ Cardinality(old) \in Nat
  BY <1>2, FS_CardinalityType DEF Looping, Counted
<1>7. CASE p = q
  <2>1. DeclsOf(q)' = new \cup {i + m}
    BY <1>5, <1>7
  <2>2. Cardinality(DeclsOf(q)') = Cardinality(new) + 1
    <3> HIDE DEF new
    <3> QED
      BY <1>3, <1>4, <2>1, FS_AddElement
  <2>3. Times(q)' = Times(q) + 1
    BY <1>7 DEF Times, Loads, Passes, KeepsLooking
  <2> QED
    BY <1>3, <1>6, <2>2, <2>3
<1>8. CASE p # q
  <2>1. DeclsOf(q)' = new
    BY <1>5, <1>8
  <2>2. Times(q)' = Times(q)
    BY <1>8 DEF Times, Loads, Passes, KeepsLooking
  <2> QED
    BY <1>3, <1>6, <2>1, <2>2
<1> QED
  BY <1>7, <1>8

\* What comes between the loop and a file ahead is reached by that file: the
\* merged file is, and all that the merged file imports.
LEMMA LoadChain ==
  ASSUME Looping, NEW n, NEW p, NEW m, Loads(n, p, m) PROVE ChainAhead'
<1> SUFFICES ASSUME NEW k \in DOMAIN children', NEW l \in DOMAIN children',
                    i + 1 <= k, k < l, NEW f \in Path, children'[l] = DeclNode(f)
             PROVE  /\ \A x \in ImportName : children'[k] = ImportNode(x) => Leads(f, x)'
                    /\ \A g \in Path : children'[k] = DeclNode(g) => g \in Reachable(f)'
  BY DEF ChainAhead, Loads, Passes
<1>1. i \in Nat /\ m \in Nat /\ m > 0 /\ DOMAIN children \subseteq Nat /\ k \in Nat
      /\ l \in Nat /\ target \in Target /\ p \in Path /\ Typed /\ KeepsLooking
  BY LoadFacts DEF Loads, Passes, Looping
<1>2. \A x \in Names(p) : x \in Names(p)'
  BY <1>1 DEF Names, KeepsLooking
\* Before the declarations of the merged file are its imports only.
<1>3. CASE k < i + m
  <2>1. PICK x \in Names(p) : children'[k] = ImportNode(x) /\ x \in ImportName
    <3>1. \A j \in DOMAIN children : k # Shift(j, m)
      BY <1>1, <1>3 DEF Shift
    <3> QED
      BY <1>1, <1>3, <3>1, MergedNodes
  <2>2. CASE f = p \/ p \in Reachable(f)'
    <3>1. Leads(f, x)'
      BY <1>2, <2>2 DEF Leads
    <3> QED
      BY <2>1, <3>1, ImportIs, DeclIs
  <2>3. CASE \E j \in DOMAIN children : l = Shift(j, m) /\ children'[l] = children[j]
    <3>1. PICK j \in DOMAIN children : l = Shift(j, m) /\ children'[l] = children[j]
      BY <2>3
    <3>2. i <= i /\ i < j /\ i \in DOMAIN children
      BY <1>1, <3>1 DEF Shift, Looping
    <3>3. Leads(f, n)
      BY <3>1, <3>2 DEF Looping, ChainAhead, Loads
    <3>4. p \in Reachable(f)
      BY <1>1, <3>3, LeadsTo, PathsAreNotEmpty DEF Loads
    <3>5. p \in Reachable(f)'
      BY <1>1, <3>4, ReachesMore
    <3> QED
      BY <2>2, <3>5
  <2>4. CASE l = i + m /\ children'[l] = DeclNode(p)
    BY <1>1, <2>2, <2>4, DeclIs
  <2> QED
    BY <2>3, <2>4, MergedNodes, DeclIs
\* The others have come from behind the loop, and so has f.
<1>4. CASE ~(k < i + m)
  <2>1. PICK j \in DOMAIN children : l = Shift(j, m) /\ children'[l] = children[j]
    BY <1>1, <1>4, MergedNodes
  <2>2. i \in DOMAIN children /\ i <= i /\ i < j
    BY <1>1, <1>4, <2>1 DEF Shift, Looping
  <2>3. CASE k = i + m /\ children'[k] = DeclNode(p)
    <3>1. Leads(f, n)
      BY <2>1, <2>2 DEF Looping, ChainAhead, Loads
    <3>2. p \in Reachable(f)'
      BY <1>1, <3>1, LeadsTo, PathsAreNotEmpty, ReachesMore DEF Loads
    <3> QED
      BY <1>1, <2>3, <3>2, DeclIs
  <2>4. CASE \E h \in DOMAIN children : k = Shift(h, m) /\ children'[k] = children[h]
    <3>1. PICK h \in DOMAIN children : k = Shift(h, m) /\ children'[k] = children[h]
      BY <2>4
    <3>2. i <= h /\ h < j
      BY <1>1, <2>1, <3>1 DEF Shift
    <3>3. /\ \A x \in ImportName : children[h] = ImportNode(x) => Leads(f, x)
          /\ \A g \in Path : children[h] = DeclNode(g) => g \in Reachable(f)
      BY <2>1, <3>2 DEF Looping, ChainAhead
    <3> QED
      BY <1>1, <3>1, <3>3, ReachesMore
  <2> QED
    BY <1>1, <1>4, <2>3, <2>4, MergedNodes
<1> QED
  BY <1>3, <1>4

LEMMA LoadOrdered ==
  ASSUME Looping, NEW n, NEW p, NEW m, Loads(n, p, m) PROVE OrderedSoFar'
<1> SUFFICES ASSUME Acyclic' PROVE InOrder'
  BY DEF OrderedSoFar
<1>1. InOrder
  BY WasAcyclic DEF Looping, Loads, Passes, OrderedSoFar
<1>2. i \in Nat /\ m \in Nat /\ m > 0 /\ DOMAIN children \subseteq Nat
      /\ DOMAIN children' \subseteq Nat /\ target \in Target /\ p \in Path /\ p # NoPath
      /\ Typed /\ KeepsLooking /\ i' = i + 1 /\ p \in imports' /\ imports \subseteq imports'
      /\ i \in DOMAIN children
  BY LoadFacts, PathsAreNotEmpty DEF Loads, Passes, Looping
<1> SUFFICES ASSUME NEW l \in DOMAIN children', NEW f \in Path, children'[l] = DeclNode(f),
                    NEW x \in Names(f)
             PROVE  Ahead(x, l)' \/ Behind(x, l)'
  BY <1>2 DEF InOrder, Names, KeepsLooking
<1>3. CASE l = i + m /\ children'[l] = DeclNode(p)
  <2>1. x \in Names(p)
    BY <1>2, <1>3, DeclIs
  <2>2. PICK k \in i + 1 .. i + m - 1 : children'[k] = ImportNode(x)
    BY <2>1 DEF Loads, Merged
  <2>3. k \in DOMAIN children' /\ i + 1 <= k /\ k < l
    <3>1. DOMAIN children' = 1 .. Len(children') /\ i + m \in DOMAIN children'
      BY LoadFacts
    <3> QED
      BY <1>2, <1>3, <2>2, <3>1
  <2> QED
    BY <1>2, <2>2, <2>3 DEF Ahead
<1>4. CASE \E j \in DOMAIN children : l = Shift(j, m) /\ children'[l] = children[j]
  <2>1. PICK j \in DOMAIN children : l = Shift(j, m) /\ children'[l] = children[j]
    BY <1>4
  <2>2. ASSUME NEW k \in DOMAIN children, i <= k, k < j, children[k] = ImportNode(x), k # i
        PROVE  Ahead(x, l)'
    <3>1. Shift(k, m) \in DOMAIN children' /\ children'[Shift(k, m)] = ImportNode(x)
      BY <2>2, LoadFacts
    <3>2. i + 1 <= Shift(k, m) /\ Shift(k, m) < l
      BY <1>2, <2>1, <2>2 DEF Shift
    <3> QED
      BY <1>2, <3>1, <3>2 DEF Ahead
  \* The import that is loaded now leads to declarations that come before.
  <2>3. ASSUME i < j, children[i] = ImportNode(x) PROVE Behind(x, l)'
    <3>1. x \in ImportName /\ x = n
      BY <1>2, <2>3, ImportIs, ImportsAreFiles DEF Loads
    <3>2. Resolved(x)' = p
      BY <1>2, <3>1, LookingOn DEF Loads, Settled
    <3>3. ASSUME NEW h \in DOMAIN children', children'[h] = DeclNode(p), ~(h < l) PROVE FALSE
      <4>1. PICK g \in DOMAIN children : h = Shift(g, m) /\ children'[h] = children[g]
        <5>1. h # i + m
          BY <1>2, <2>1, <2>3, <3>3 DEF Shift
        <5> QED
          BY <1>2, <3>3, <5>1, MergedNodes, DeclIs
      <4>2. i <= i /\ i < g
        BY <1>2, <2>1, <2>3, <3>3, <4>1 DEF Shift
      <4>3. Leads(p, n)
        BY <1>2, <3>3, <4>1, <4>2 DEF Looping, ChainAhead, Loads
      <4>4. p \in Reachable(p)'
        BY <1>2, <4>3, LeadsTo, ReachesMore DEF Loads
      <4> QED
        BY <1>2, <4>4 DEF Acyclic
    <3> QED
      BY <1>2, <3>2, <3>3 DEF Behind
  <2>4. ASSUME Behind(x, j) PROVE Behind(x, l)'
    <3>1. x \in ImportName /\ Resolved(x) \in imports /\ Resolved(x) \in Path
      BY <1>2, <2>4, ImportsAreFiles DEF Behind, Typed
    <3>2. Resolved(x)' = Resolved(x) /\ Resolved(x) # p
      BY <1>2, <3>1, LookingOn, PathsAreNotEmpty DEF Loads, Settled
    <3>3. ASSUME NEW h \in DOMAIN children', children'[h] = DeclNode(Resolved(x)) PROVE h < l
      <4>1. PICK g \in DOMAIN children : h = Shift(g, m) /\ children'[h] = children[g]
        BY <1>2, <3>1, <3>2, <3>3, MergedNodes, DeclIs
      <4>2. g < j
        BY <2>4, <3>3, <4>1 DEF Behind
      <4> QED
        BY <1>2, <2>1, <4>1, <4>2 DEF Shift
    <3> QED
      BY <1>2, <3>1, <3>2, <3>3 DEF Behind
  <2>5. Ahead(x, j) \/ Behind(x, j)
    BY <1>1, <2>1 DEF InOrder
  <2>6. CASE Ahead(x, j)
    <3>1. PICK k \in DOMAIN children : i <= k /\ k < j /\ children[k] = ImportNode(x)
      BY <2>6 DEF Ahead
    <3> QED
      BY <2>2, <2>3, <3>1
  <2> QED
    BY <2>4, <2>5, <2>6
<1> QED
  BY <1>3, <1>4, MergedNodes, DeclIs

-----------------------------------------------------------------------------
(* The steps.                                                              *)

\* Without a tree the invariant says nothing of one.
LEMMA WithoutTree ==
  ASSUME Typed', OneBuild', pc' # "imports", target' = "none", children' = <<>>
  PROVE  IInv'
<1>1. DOMAIN children' = {}
  OBVIOUS
<1> QED
  BY <1>1 DEF IInv, OneTree, PassedAreLoaded, Counted, ChainAhead, OrderedSoFar

LEMMA InitIInv == Init => IInv
<1> SUFFICES ASSUME Init PROVE IInv
  OBVIOUS
<1>1. Typed
  <2>1. tree \in [Path -> File \cup {NoFile}] /\ root \in [Target -> Path]
        /\ importPaths \in [Target -> {<<Cwd>>} \cup {<<Cwd, d>> : d \in Dir \ {Cwd}}]
        /\ pc = "start" /\ queue = {} /\ failed = {} /\ children = <<>> /\ i = 0
        /\ imports = {} /\ files = <<>> /\ err = EXIT_SUCCESS
    BY DEF Init
  <2>2. \A f \in File \cup {NoFile} : f.imports \in Seq(ImportName)
    <3>1. NoFile.imports \in Seq(ImportName)
      BY DEF NoFile
    <3>2. ASSUME NEW f \in File PROVE f.imports \in Seq(ImportName)
      <4>1. PICK k \in 0 .. MaxImports : f.imports \in [1 .. k -> ImportName]
        BY DEF File
      <4> QED
        BY <4>1, FaultAssumption
    <3> QED
      BY <3>1, <3>2
  <2>3. \A p \in Path : tree[p].imports \in Seq(ImportName)
    BY <2>1, <2>2
  <2>4. importPaths \in [Target -> Seq(Dir)]
    <3> DEFINE starts == {<<Cwd>>} \cup {<<Cwd, d>> : d \in Dir \ {Cwd}}
    <3>1. <<Cwd>> \in Seq(Dir) /\ \A d \in Dir : <<Cwd, d>> \in Seq(Dir)
      BY CwdAssumption
    <3>2. \A x \in starts : x \in Seq(Dir)
      BY <3>1
    <3>3. importPaths \in [Target -> starts]
      BY <2>1
    <3> HIDE DEF starts
    <3> QED
      BY <3>2, <3>3
  <2> QED
    BY <2>1, <2>3, <2>4 DEF Typed
<1> QED
  BY <1>1 DEF Init, IInv, OneTree, PassedAreLoaded, Counted, ChainAhead, OrderedSoFar, OneBuild

\* Before, between and after the targets there is no tree.
LEMMA OutsideStep ==
  IInv /\ (\/ \E ts \in SUBSET Target : BuildProject(ts)
           \/ LoadProjectFails
           \/ \E t \in Target : CompileFile(t)
           \/ CompileNothing
           \/ InvalidMode
           \/ \E t \in Target : UnknownTarget(t)
           \/ TargetsDone) => IInv'
<1> SUFFICES ASSUME IInv,
                    \/ \E ts \in SUBSET Target : BuildProject(ts)
                    \/ LoadProjectFails
                    \/ \E t \in Target : CompileFile(t)
                    \/ CompileNothing
                    \/ InvalidMode
                    \/ \E t \in Target : UnknownTarget(t)
                    \/ TargetsDone
             PROVE  IInv'
  OBVIOUS
<1> USE DEF BuildProject, LoadProjectFails, CompileFile, CompileNothing, InvalidMode,
            UnknownTarget, TargetsDone, command
<1>1. /\ UNCHANGED <<tree, root, importPaths, known, target, children, i, imports, files>>
      /\ pc \in {"start", "targets"} /\ pc' \in {"targets", "report"}
      /\ queue' \subseteq Target /\ failed' \subseteq Target
      /\ err' \in {EXIT_SUCCESS, EXIT_FAILURE}
  BY DEF IInv, Typed
<1>2. Typed'
  BY <1>1 DEF IInv, Typed
<1>3. target' = "none" /\ children' = <<>>
  BY <1>1 DEF IInv, OneTree
<1>4. OneBuild'
  BY <1>1, <1>3 DEF IInv, OneBuild, EXIT_SUCCESS, EXIT_FAILURE
<1> QED
  BY <1>1, <1>2, <1>3, <1>4, WithoutTree

\* delete_files closes what is on the stack.
LEMMA DeleteFilesStep == IInv /\ DeleteFiles => IInv'
<1> SUFFICES ASSUME IInv, DeleteFiles PROVE IInv'
  OBVIOUS
<1>1. /\ UNCHANGED <<tree, root, importPaths, known, queue, target, children, i, imports, err, failed>>
      /\ pc = "report" /\ pc' = IF files = <<>> THEN "crashed" ELSE "returned"
  BY DEF DeleteFiles, command
<1>2. files' \in Seq(SourceFile) /\ (files # <<>> => files' # <<>>)
  <2>1. files \in Seq(SourceFile) /\ DOMAIN files = 1 .. Len(files) /\ Len(files) \in Nat
    BY DEF IInv, Typed
  <2>2. files' = [k \in 1 .. Len(files) |-> [files[k] EXCEPT !.open = FALSE]]
    BY <2>1 DEF DeleteFiles
  <2>3. \A k \in 1 .. Len(files) : [files[k] EXCEPT !.open = FALSE] \in SourceFile
    <3>1. \A x \in SourceFile : [x EXCEPT !.open = FALSE] \in SourceFile
      BY DEF SourceFile
    <3> QED
      BY <2>1, <3>1
  <2>4. files' \in Seq(SourceFile) /\ Len(files') = Len(files)
    BY <2>1, <2>2, <2>3
  <2> QED
    BY <2>1, <2>4
<1>3. Typed' /\ target' = "none" /\ children' = <<>>
  BY <1>1, <1>2 DEF IInv, Typed, OneTree
<1>4. OneBuild'
  BY <1>1, <1>2 DEF IInv, OneBuild
<1> QED
  BY <1>1, <1>3, <1>4, WithoutTree

\* A file is put on the stack.
LEMMA PushedFile ==
  ASSUME Typed, NEW p \in Path, PushAndOpen(p)
  PROVE  files' \in Seq(SourceFile) /\ files' # <<>>
<1>1. [path |-> p, open |-> tree[p].fault \notin {"absent", "unreadable"}] \in SourceFile
  BY DEF SourceFile
<1> QED
  BY <1>1 DEF PushAndOpen, Typed

\* A target of its own that ends is in failed unless its result is zero.
LEMMA FinishStep ==
  ASSUME IInv, pc = "imports", NEW e \in {EXIT_SUCCESS, EXIT_FAILURE}, FinishTarget(e),
         UNCHANGED <<command, importPaths, queue>>,
         files' \in Seq(SourceFile), files' # <<>>
  PROVE  IInv'
<1>1. Typed' /\ pc' = "targets" /\ target' = "none" /\ children' = <<>>
  BY DEF FinishTarget, NoTargetState, command, IInv, Typed, OneTree
<1>2. OneBuild'
  <2> SUFFICES ASSUME NEW t \in Target, known = {t} PROVE OneBuild'
    BY DEF OneBuild, command
  <2>1. target = t /\ files # <<>> /\ queue \cap known = {} /\ failed \cap known = {}
    BY DEF IInv, OneBuild
  <2> QED
    BY <1>1, <2>1 DEF OneBuild, FinishTarget, command, EXIT_SUCCESS, EXIT_FAILURE
<1> QED
  BY <1>1, <1>2, WithoutTree

LEMMA BuildTargetStep == ASSUME IInv, NEW t \in Target, BuildTarget(t) PROVE IInv'
<1>1. /\ UNCHANGED <<tree, root, known, importPaths>> /\ pc = "targets" /\ t \in queue \cap known
      /\ queue' = queue \ {t} /\ root[t] \in Path /\ target = "none" /\ children = <<>>
  BY DEF BuildTarget, command, IInv, Typed, OneTree
<1>2. files' \in Seq(SourceFile) /\ files' # <<>>
  BY <1>1, PushedFile DEF BuildTarget, IInv
<1>3. ASSUME NEW s \in Target, known = {s}
      PROVE  t = s /\ queue' \cap known = {} /\ failed \cap known = {} /\ err = EXIT_SUCCESS
  BY <1>1, <1>3 DEF IInv, OneBuild
<1>4. CASE ~Parses(root[t])
  <2>1. /\ err' = EXIT_FAILURE /\ failed' = failed \cup {t}
        /\ UNCHANGED <<pc, target, children, i, imports>>
    BY <1>4 DEF BuildTarget
  <2>2. Typed'
    BY <1>1, <1>2, <2>1 DEF IInv, Typed
  <2>3. OneBuild'
    BY <1>1, <1>2, <1>3, <2>1 DEF OneBuild
  <2> QED
    BY <1>1, <2>1, <2>2, <2>3, WithoutTree
<1>5. CASE Parses(root[t])
  <2> DEFINE p == root[t]
  <2>1. /\ pc' = "imports" /\ target' = t /\ children' = Nodes(p) /\ i' = 1 /\ imports' = {}
        /\ UNCHANGED <<err, failed>>
    BY <1>5 DEF BuildTarget
  <2>2. PICK m \in Nat :
           /\ Nodes(p) \in Seq(Node) /\ Len(Nodes(p)) = m + 1
           /\ \A k \in 1 .. m : \E n \in Names(p) : Nodes(p)[k] = ImportNode(n)
           /\ \A n \in Names(p) : \E k \in 1 .. m : Nodes(p)[k] = ImportNode(n)
           /\ Nodes(p)[m + 1] = DeclNode(p)
    BY <1>1, NodesAre DEF IInv
  <2>3. Typed' /\ OneTree'
    BY <1>1, <1>2, <2>1, <2>2 DEF IInv, Typed, OneTree
  <2>4. DOMAIN children' = 1 .. m + 1 /\ p \in Path /\ \A n \in Names(p) : n \in ImportName
    <3>1. \A k \in DOMAIN tree[p].imports : tree[p].imports[k] \in ImportName
      BY <1>1 DEF IInv, Typed
    <3> QED
      BY <1>1, <2>1, <2>2, <3>1 DEF Names
  <2>5. \A k \in 1 .. m + 1 : k < m + 1 => \E n \in Names(p) : children'[k] = ImportNode(n)
    BY <2>1, <2>2
  <2>6. \A k \in 1 .. m + 1, f \in Path : children'[k] = DeclNode(f) <=> k = m + 1 /\ f = p
    BY <2>1, <2>2, <2>4, <2>5, DeclIs
  <2>7. PassedAreLoaded'
    BY <2>1, <2>4 DEF PassedAreLoaded
  <2>8. Counted'
    <3> SUFFICES ASSUME NEW q \in Path PROVE Cardinality(DeclsOf(q)') = Times(q)'
      BY DEF Counted
    <3>1. DeclsOf(q)' = IF q = p THEN {m + 1} ELSE {}
      BY <2>2, <2>4, <2>6 DEF DeclsOf
    <3>2. Times(q)' = IF q = p THEN 1 ELSE 0
      BY <1>1, <2>1 DEF Times
    <3> QED
      BY <3>1, <3>2, FS_EmptySet, FS_Singleton
  <2>9. ChainAhead'
    <3> SUFFICES ASSUME NEW k \in 1 .. m + 1, NEW l \in 1 .. m + 1, k < l, NEW f \in Path,
                        children'[l] = DeclNode(f)
                 PROVE  /\ \A n \in ImportName : children'[k] = ImportNode(n) => Leads(f, n)'
                        /\ \A g \in Path : children'[k] = DeclNode(g) => g \in Reachable(f)'
      BY <2>4 DEF ChainAhead
    <3>1. l = m + 1 /\ f = p /\ k < m + 1
      BY <2>2, <2>6
    <3>2. PICK n \in Names(p) : children'[k] = ImportNode(n)
      BY <2>5, <3>1
    <3>3. Leads(f, n)'
      BY <1>1, <3>1, <3>2 DEF Leads, Names
    <3> QED
      BY <2>4, <3>2, <3>3, ImportIs, DeclIs
  <2>10. OrderedSoFar'
    <3> SUFFICES ASSUME NEW l \in 1 .. m + 1, NEW f \in Path, children'[l] = DeclNode(f),
                        NEW n \in Names(f)
                 PROVE  Ahead(n, l)'
      BY <1>1, <2>4 DEF OrderedSoFar, InOrder, Names
    <3>1. l = m + 1 /\ f = p
      BY <2>6
    <3>2. PICK k \in 1 .. m : children'[k] = ImportNode(n)
      BY <2>1, <2>2, <3>1
    <3>3. k \in 1 .. m + 1 /\ 1 <= k /\ k < l
      BY <2>2, <3>1, <3>2
    <3> QED
      BY <2>1, <2>4, <3>2, <3>3 DEF Ahead
  <2>11. OneBuild'
    BY <1>1, <1>2, <1>3, <2>1 DEF OneBuild
  <2> QED
    BY <2>3, <2>7, <2>8, <2>9, <2>10, <2>11 DEF IInv
<1> QED
  BY <1>4, <1>5

LEMMA SkipChildStep == IInv /\ SkipChild => IInv'
<1> SUFFICES ASSUME IInv, SkipChild PROVE IInv'
  OBVIOUS
<1>1. /\ UNCHANGED <<tree, root, importPaths, known, pc, queue, target, children, imports,
                     files, err, failed>>
      /\ pc = "imports" /\ i' = i + 1 /\ i \in 1 .. Len(children) /\ target \in Target
  BY DEF SkipChild, command, IInv, OneTree, Typed
<1>2. Looping /\ Skips
  <2>1. Looping
    BY <1>1 DEF Looping, IInv
  <2>2. ASSUME NEW n \in ImportName, children[i] = ImportNode(n)
        PROVE  Resolved(n) \in imports
    BY <2>2, ImportIs DEF SkipChild, Unresolved
  <2> QED
    BY <1>1, <2>1, <2>2 DEF Skips, Passes, KeepsLooking
<1>3. Typed' /\ OneTree' /\ OneBuild'
  BY <1>1 DEF IInv, Typed, OneTree, OneBuild
<1> QED
  BY <1>2, <1>3, SkipPassed, SkipCounted, SkipChain, SkipOrdered DEF IInv

LEMMA ImportModuleStep == IInv /\ ImportModule => IInv'
<1> SUFFICES ASSUME IInv, ImportModule PROVE IInv'
  OBVIOUS
<1> DEFINE n == children[i].value
           p == Resolved(n)
<1>1. /\ pc = "imports" /\ i \in 1 .. Len(children) /\ target \in Target
      /\ children[i] \in Node /\ children[i].kind = "AST_Import"
      /\ UNCHANGED <<tree, root, known, queue>>
  BY DEF ImportModule, command, IInv, OneTree, Typed
<1>2. n \in ImportName /\ children[i] = ImportNode(n)
  BY <1>1, NodeIs, ImportIs, DeclIs
<1>3. p \in Path /\ p \notin imports
  BY <1>1, <1>2, ResolvedIs DEF ImportModule, IInv
<1>4. files' \in Seq(SourceFile) /\ files' # <<>>
  BY <1>3, PushedFile DEF ImportModule, IInv
<1>5. CASE Parses(p)
  <2>1. /\ children' = MergeAfter(i, Nodes(p)) /\ imports' = imports \cup {p}
        /\ importPaths' = [importPaths EXCEPT ![target] = Append(@, DirOf[p])]
        /\ i' = i + 1 /\ UNCHANGED <<pc, target, err, failed>>
    BY <1>5 DEF ImportModule
  <2>2. PICK m \in Nat : Merged(p, m)
    BY <1>1, <1>3, <2>1, MergeIs DEF IInv
  <2>3. KeepsLooking
    BY <1>1, <1>3, <2>1, PathsAreNotEmpty DEF KeepsLooking
  <2>4. Looping
    BY <1>1 DEF Looping, IInv
  <2>5. Loads(n, p, m)
    BY <1>1, <1>2, <1>3, <2>1, <2>2, <2>3 DEF Loads, Passes
  <2>6. Typed' /\ OneTree'
    <3>1. importPaths' \in [Target -> Seq(Dir)]
      <4>1. DirOf[p] \in Dir /\ importPaths \in [Target -> Seq(Dir)]
        BY <1>3, PathsAreNotEmpty DEF IInv, Typed
      <4> HIDE DEF p
      <4> QED
        BY <1>1, <2>1, <4>1
    <3>2. children' \in Seq(Node) /\ i' \in 1 .. Len(children') + 1
      BY <1>1, <2>1, <2>2 DEF Merged, IInv, Typed
    <3> QED
      BY <1>1, <1>3, <1>4, <2>1, <3>1, <3>2, SMTT(30) DEF IInv, Typed, OneTree
  <2>7. OneBuild'
    BY <1>1, <1>4, <2>1 DEF IInv, OneBuild
  <2> HIDE DEF n, p
  <2> QED
    BY <2>4, <2>5, <2>6, <2>7, LoadPassed, LoadCounted, LoadChain, LoadOrdered DEF IInv
<1>6. CASE ~Parses(p)
  <2>1. FinishTarget(EXIT_FAILURE) /\ UNCHANGED <<command, importPaths, queue>>
    BY <1>6 DEF ImportModule
  <2> QED
    BY <1>1, <1>4, <2>1, FinishStep
<1> QED
  BY <1>5, <1>6

\* The other ends of a target.
LEMMA EndStep ==
  IInv /\ (ImportNotFound \/ \E e \in {EXIT_SUCCESS, EXIT_FAILURE} : FinishBuild(e)) => IInv'
<1> SUFFICES ASSUME IInv, ImportNotFound \/ \E e \in {EXIT_SUCCESS, EXIT_FAILURE} : FinishBuild(e)
             PROVE  IInv'
  OBVIOUS
<1>1. PICK e \in {EXIT_SUCCESS, EXIT_FAILURE} :
        pc = "imports" /\ FinishTarget(e) /\ UNCHANGED <<command, importPaths, queue, files>>
  BY DEF ImportNotFound, FinishBuild
<1>2. Typed' /\ pc' = "targets" /\ target' = "none" /\ children' = <<>>
  BY <1>1 DEF FinishTarget, NoTargetState, command, IInv, Typed, OneTree
<1>3. files' \in Seq(SourceFile)
  BY <1>1 DEF IInv, Typed
<1>4. CASE files # <<>>
  BY <1>1, <1>3, <1>4, FinishStep
<1>5. CASE files = <<>>
  <2>1. ~\E t \in Target : known = {t}
    BY <1>1, <1>5 DEF IInv, OneBuild
  <2> QED
    BY <1>1, <1>2, <2>1, WithoutTree DEF OneBuild, command
<1> QED
  BY <1>4, <1>5

LEMMA NextIInv == IInv /\ [Next]_vars => IInv'
<1> SUFFICES ASSUME IInv, [Next]_vars PROVE IInv'
  OBVIOUS
<1>1. CASE UNCHANGED vars
  <2>1. /\ tree' = tree /\ root' = root /\ importPaths' = importPaths /\ known' = known
        /\ pc' = pc /\ queue' = queue /\ target' = target /\ children' = children /\ i' = i
        /\ imports' = imports /\ files' = files /\ err' = err /\ failed' = failed
    BY <1>1 DEF vars
  <2>2. Typed' /\ OneTree' /\ OneBuild'
    BY <2>1 DEF IInv, Typed, OneTree, OneBuild
  <2>3. \A n : Resolved(n)' = Resolved(n)
    BY <2>1 DEF Resolved, PathsTo
  <2>4. \A p : ImportsOf(p)' = ImportsOf(p) /\ Names(p)' = Names(p)
    BY <2>1, <2>3 DEF ImportsOf, Names
  <2>5. \A p : Reachable(p)' = Reachable(p)
    BY <2>4 DEF Reachable, Closed
  <2>6. PassedAreLoaded' /\ Counted'
    BY <2>1, <2>3 DEF IInv, PassedAreLoaded, Counted, DeclsOf, Times
  <2>7. ChainAhead'
    BY <2>1, <2>4, <2>5 DEF IInv, ChainAhead, Leads
  <2>8. OrderedSoFar'
    <3>1. Acyclic' => Acyclic
      BY <2>1, <2>5 DEF Acyclic
    <3>2. InOrder => InOrder'
      BY <2>1, <2>3, <2>4 DEF InOrder, Ahead, Behind
    <3> QED
      BY <2>1, <3>1, <3>2 DEF IInv, OrderedSoFar
  <2> QED
    BY <2>2, <2>6, <2>7, <2>8 DEF IInv
<1> QED
  BY <1>1, OutsideStep, DeleteFilesStep, BuildTargetStep, SkipChildStep, ImportModuleStep,
     EndStep DEF Next

LEMMA Invariance == Spec => []IInv
BY InitIInv, NextIInv, PTL DEF Spec

-----------------------------------------------------------------------------
(* The theorems.                                                           *)

\* A target has a tree while its imports are loaded, of nodes that the files
\* have, and every file on the stack is one of the file system.
THEOREM TypeCorrect == Spec => []TypeOK
<1>1. IInv => TypeOK
  <2> SUFFICES ASSUME IInv PROVE TypeOK
    OBVIOUS
  <2>1. \A k \in DOMAIN children : children[k] \in
           {ImportNode(n) : n \in ImportName} \cup {DeclNode(p) : p \in Path}
    BY DEF IInv, Typed, Node
  <2> QED
    BY <2>1 DEF IInv, Typed, OneTree, TypeOK, SourceFile
<1> QED
  BY <1>1, Invariance, PTL

\* Each imported file is merged once into a loaded module, however many files
\* name it and in whatever order, and all that is named is there.
THEOREM ImportsAreMergedOnce == Spec => []EveryImportMergedOnce
<1>1. IInv => EveryImportMergedOnce
  <2> SUFFICES ASSUME IInv, Loaded PROVE EveryImportMergedOnce
    BY DEF EveryImportMergedOnce
  <2>1. pc = "imports" /\ children \in Seq(Node) /\ i \in Nat /\ i > Len(children)
    BY DEF IInv, Typed, Loaded
  <2>2. ASSUME NEW k \in DOMAIN children, children[k].kind = "AST_Import"
        PROVE  Resolved(children[k].value) \in imports
    <3>1. PICK n \in ImportName : children[k] = ImportNode(n)
      BY <2>1, <2>2, NodeIs, DeclIs
    <3>2. k < i
      BY <2>1
    <3> QED
      BY <3>1, <3>2, ImportIs DEF IInv, PassedAreLoaded
  <2>3. \A p \in Path : Cardinality(DeclsOf(p)) = Times(p)
    BY <2>1 DEF IInv, Counted
  <2> QED
    BY <2>2, <2>3 DEF EveryImportMergedOnce, Times
<1> QED
  BY <1>1, Invariance, PTL

\* Whatever the imports of a module are, if they form no cycle, every file
\* comes behind all that it imports.
THEOREM UsesFollowDeclarations == Spec => []DeclarationsBeforeUses
<1>1. IInv => DeclarationsBeforeUses
  <2> SUFFICES ASSUME IInv, Loaded, Acyclic,
                      NEW p \in imports \cup {root[target]}, NEW q \in ImportsOf(p),
                      NEW k \in DeclsOf(p), NEW l \in DeclsOf(q)
               PROVE  l < k
    BY DEF DeclarationsBeforeUses
  <2>1. /\ pc = "imports" /\ children \in Seq(Node) /\ i \in Nat /\ i > Len(children)
        /\ target \in Target /\ p \in Path
    BY DEF IInv, Typed, OneTree, Loaded
  <2>2. PICK n \in Names(p) : q = Resolved(n)
    BY DEF ImportsOf, Names
  <2>3. k \in DOMAIN children /\ children[k] = DeclNode(p)
        /\ l \in DOMAIN children /\ children[l] = DeclNode(q)
    BY DEF DeclsOf
  <2>4. Ahead(n, k) \/ Behind(n, k)
    BY <2>1, <2>3 DEF IInv, OrderedSoFar, InOrder
  <2>5. ~Ahead(n, k)
    BY <2>1 DEF Ahead
  <2> QED
    BY <2>2, <2>3, <2>4, <2>5 DEF Behind
<1> QED
  BY <1>1, Invariance, PTL

\* A target of its own is built once at most, and its result is the one that
\* is returned.
THEOREM SingleTargetStatus == Spec => []StatusOfSingleTarget
<1>1. IInv => StatusOfSingleTarget
  BY DEF IInv, OneBuild, StatusOfSingleTarget
<1> QED
  BY <1>1, Invariance, PTL

\* No file that is loaded changes where a name leads that has led somewhere.
THEOREM ResolutionStays == Spec => ResolutionIsStable
<1>1. IInv /\ [Next]_vars =>
        [target # "none" /\ target' = target =>
           \A n \in ImportName : Resolved(n) # NoPath => Resolved(n)' = Resolved(n)]_vars
  <2> SUFFICES ASSUME IInv, Next, target # "none", target' = target PROVE Settled
    BY DEF Settled
  <2>1. pc = "imports" /\ target \in Target
    BY DEF IInv, OneTree
  <2>2. KeepsLooking
    <3>1. CASE SkipChild \/ ImportModule
      <4>1. tree' = tree
        BY <3>1 DEF SkipChild, ImportModule, command
      <4>2. importPaths' = importPaths \/ \E d \in Dir :
              importPaths' = [importPaths EXCEPT ![target] = Append(@, d)]
        <5>1. CASE SkipChild
          BY <5>1 DEF SkipChild
        <5>2. CASE ImportModule
          <6> DEFINE p == Resolved(children[i].value)
          <6>1. children[i] \in Node /\ children[i].kind = "AST_Import"
            BY <5>2 DEF ImportModule, IInv, OneTree, Typed
          <6>2. children[i].value \in ImportName
            BY <6>1, NodeIs, ImportIs, DeclIs
          <6>3. p \in Path
            BY <2>1, <5>2, <6>2, ResolvedIs DEF ImportModule, IInv
          <6>4. DirOf[p] \in Dir
            BY <6>3, PathsAreNotEmpty
          <6> QED
            BY <5>2, <6>4 DEF ImportModule
        <5> QED
          BY <3>1, <5>1, <5>2
      <4> QED
        BY <2>1, <4>1, <4>2 DEF KeepsLooking
    <3>2. CASE ~(SkipChild \/ ImportModule)
      <4>1. ImportNotFound \/ \E e \in {EXIT_SUCCESS, EXIT_FAILURE} : FinishBuild(e)
        BY <2>1, <3>2 DEF Next, BuildProject, LoadProjectFails, CompileFile, CompileNothing,
           InvalidMode, UnknownTarget, BuildTarget, TargetsDone, DeleteFiles
      <4>2. target' = "none"
        BY <4>1 DEF ImportNotFound, FinishBuild, FinishTarget, NoTargetState
      <4> QED
        BY <4>2
    <3> QED
      BY <3>1, <3>2
  <2> QED
    BY <2>2, LookingOn DEF IInv
<1> QED
  BY <1>1, Invariance, PTL DEF Spec, ResolutionIsStable
=============================================================================
