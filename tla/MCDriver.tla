------------------------------ MODULE MCDriver ------------------------------
(***************************************************************************)
(* Driver for TLC.  Two questions need different file systems: imports,    *)
(* with one target, and failures, with several targets and one file.       *)
(***************************************************************************)
EXTENDS Driver, TLC

CONSTANTS d, sub, deep,  \* the directory the compiler runs in, d/sub and d/sub/sub
          m, n, subN,    \* the names "m", "n" and "sub/n"
          t, u           \* targets

Files == {<<d, m>>, <<d, n>>, <<sub, m>>, <<sub, n>>, <<deep, n>>}

\* Two names lead to sub/n.  There is nothing in d/sub/sub, of which one path
\* stands for all.
Canonical ==
  [x \in Dir |-> [y \in ImportName |->
     CASE x = d /\ y = subN               -> <<sub, n>>
       [] x = deep \/ (x = sub /\ y = subN) -> <<deep, n>>
       [] OTHER                            -> <<x, y>>]]
Dirname == [p \in Files |-> p[1]]

\* Every way in which the sound files can import one another.
Importing(k) == [imports : UNION {[1 .. l -> ImportName] : l \in 0 .. k}, fault : {"none"}]
InitImports ==
  /\ tree \in [Files -> Importing(MaxImports) \cup {NoFile}]
  /\ tree[<<d, n>>] # NoFile /\ tree[<<deep, n>>] = NoFile
  /\ \A p \in {<<d, m>>, <<sub, m>>} : tree[p] # NoFile => tree[p] \in Importing(1)
  /\ root = [x \in Target |-> <<d, n>>]
  /\ importPaths \in [Target -> {<<d>>, <<d, sub>>}] /\ importPaths[u] = <<d>>
  /\ mode = "compile" /\ known = {t}

\* Every command line, with one file that has any fault and may import itself.
InitFailures ==
  /\ \E file \in [imports : {<<>>, <<n>>}, fault : Fault \cup {"none"}] \cup {NoFile} :
       tree = [p \in Files |-> IF p = <<d, n>> THEN file ELSE NoFile]
  /\ root = [x \in Target |-> <<d, n>>]
  /\ importPaths = [x \in Target |-> <<d>>]

InitMC == (InitImports \/ InitFailures) /\ Init
SpecMC == InitMC /\ [][Next]_vars /\ WF_vars(Next)
=============================================================================
