------------------------ MODULE ControlFlowSemantics ------------------------
(***************************************************************************)
(* What the source program of ControlFlow means, and that the blocks mean  *)
(* the same.  The meaning of a program is, for each of its statements and  *)
(* conditions, the one that is evaluated next; ways out of the function    *)
(* are 0.                                                                  *)
(***************************************************************************)
EXTENDS ControlFlow, FiniteSets

Exit == 0
SetMin(S) == CHOOSE x \in S : \A y \in S : x <= y

-----------------------------------------------------------------------------
(* The meaning of the source.                                              *)

Depth(p) == Cardinality({q \in 1 .. p : src[q] \in Opening})
              - Cardinality({q \in 1 .. p : src[q] = "end"})

\* The "end" of the body that token i opens, and the token that opens it.
Closer(i) == SetMin({p \in i + 1 .. Len(src) :
                       src[p] = "end" /\ Depth(p) = Depth(i) - 1})
Opener(p) == CHOOSE i \in 1 .. p - 1 : src[i] \in Opening /\ Closer(i) = p

\* What is evaluated when control gets to position p: the end of a loop goes
\* back to its condition; the end of an arm skips the arms that follow it.
Arrive ==
  LET at[p \in 1 .. Len(src) + 1] ==
        IF p > Len(src) THEN Exit
        ELSE IF src[p] \in {"elseif", "else"} THEN at[Closer(p) + 1]
        ELSE IF src[p] # "end" THEN p
        ELSE IF src[Opener(p)] = "while" THEN Opener(p)
        ELSE at[p + 1]
  IN  at

\* The way of a condition that does not hold.
Otherwise(i) ==
  LET p == Closer(i) + 1 IN
  IF src[i] = "while" \/ p > Len(src) THEN Arrive[p]
  ELSE IF src[p] = "elseif" THEN p
  ELSE IF src[p] = "else" THEN Arrive[p + 1]
  ELSE Arrive[p]

Evaluated == {i \in DOMAIN src : src[i] \in {"stmt", "while", "if", "elseif"}}
SourceNext(i) == IF src[i] = "stmt" THEN <<Arrive[i + 1]>>
                                    ELSE <<Arrive[i + 1], Otherwise(i)>>

-----------------------------------------------------------------------------
(* The meaning of the blocks.                                              *)

\* What is evaluated first when control gets to block b.  A jump is followed at
\* most as many times as there are blocks.
Enter ==
  LET from[n \in 0 .. Len(blocks)] ==
        [b \in DOMAIN blocks |->
           LET ins == blocks[b][1] IN
           IF ins.op \in {"eval", "ret"} THEN ins.token
           ELSE IF ins.op = "br" /\ n < Len(blocks) THEN from[n + 1][ins.to]
           ELSE Exit]
  IN  from[0]

\* What is evaluated when control gets to instruction ins.
Meets(ins) == IF ins.op \in {"eval", "ret"} THEN ins.token
              ELSE IF ins.op = "br" THEN Enter[ins.to]
              ELSE Exit

\* Where the code of token i is, and what is evaluated after it.
Places(i) ==
  UNION {{<<b, k>> : k \in {m \in DOMAIN blocks[b] : blocks[b][m] = Eval(i)}}
           : b \in DOMAIN blocks}
BlockNext(b, k) ==
  LET ins == blocks[b][k + 1] IN
  IF ins.op = "condbr" THEN <<Enter[ins.yes], Enter[ins.no]>> ELSE <<Meets(ins)>>

-----------------------------------------------------------------------------
\* The blocks do what the source says: the same first statement, each
\* statement and condition once, and from each of them the same next one,
\* also in code that only a loop or no way at all leads to.
SameMeaning ==
  /\ Enter[1] = Arrive[1]
  /\ \A i \in Evaluated :
       /\ Cardinality(Places(i)) = 1
       /\ \A p \in Places(i) : BlockNext(p[1], p[2]) = SourceNext(i)

\* A finished function whose else bodies all end in a return, a loop or a
\* branch, or are empty, does what its source says.
ElseEndsPlainly == \E i \in DOMAIN src : src[i] = "else" /\ src[Closer(i) - 1] = "stmt"
ControlFlowPreserved == stack = <<>> /\ ~ElseEndsPlainly => SameMeaning

\* src/src/llvm/llvm-ir/stmt.c:328-329: "in case no else block is present make
\* the after block the else".  With an else the two are different blocks, so
\* that a body before the else goes on after the branch.
ElseIsNotTheBlockAfter == stack = <<>> => SameMeaning
=============================================================================
