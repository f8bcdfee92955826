------------------------ MODULE ControlFlowInvariant ------------------------
(***************************************************************************)
(* The two inductive invariants that ControlFlowProofs proves of the walk. *)
(*                                                                         *)
(* IInv is about who owes a block its terminator.  At every moment each    *)
(* block without a terminator is owed one by exactly one of the calls that *)
(* are running (Owing): impl_func_def owes it to the entry,                *)
(* impl_basic_block to end_previous_block, impl_while to its condition,    *)
(* impl_branch to the conditions and to the last blocks of the arms that   *)
(* it has not connected yet.  An instruction goes only to a block that the *)
(* top of the stack owes, so none follows a terminator, and when the last  *)
(* call returns nothing is owed.                                           *)
(*                                                                         *)
(* Means is about what the blocks do.  What a statement leads to depends   *)
(* on tokens that the walk has not met yet, so it speaks of every way the  *)
(* program may go on: a function A says of each place of the source what   *)
(* is evaluated when control gets there, as far as the tokens so far tell  *)
(* (Respects).  Whatever A is, there are a promise for the beginning of    *)
(* each block (lab) and one for the end of each block that is not finished *)
(* (out) with which the instructions so far do what A says (Preserves),    *)
(* and every call that runs knows what is promised of the blocks it owes   *)
(* (Frames).  The code of each token is at one place (Placed), and each    *)
(* body that is open is the one of a frame on the stack (Nested).          *)
(***************************************************************************)
EXTENDS ControlFlowSemantics, Integers

-----------------------------------------------------------------------------
(* Who owes a block its terminator.                                        *)

\* The instructions of a function of N blocks whose source has n tokens.
Instruction(n, N) ==
  [op : {"eval"}, token : 1 .. n] \cup [op : {"ret"}, token : 0 .. n]
    \cup [op : {"br"}, to : 1 .. N] \cup [op : {"condbr"}, yes : 1 .. N, no : 1 .. N]

\* Every instruction is one of those, and only the last one of a block ends it.
Clean(bs) ==
  \A b \in DOMAIN bs : \A k \in 1 .. Len(bs[b]) - 1 : ~IsTerminator(bs[b][k])

\* The conditions and the last blocks of the arms are blocks of their own.
Separate(s, t) ==
  /\ \A j, m \in DOMAIN s : j # m => s[j] # s[m]
  /\ \A j, m \in DOMAIN t : j # m => t[j] # t[m]
  /\ \A j \in DOMAIN s, m \in DOMAIN t : s[j] # t[m]

\* The frames of the functions, in a function of N blocks.
IsFunc(f, N)  == f \in [fn : {"func"}, entry : 1 .. N]
IsBody(f, N)  == f \in [fn : {"basic_block"}, start : 1 .. N, last : 1 .. N]
IsWhile(f, N) == f \in [fn : {"while"}, cond : 1 .. N]
IsBranch(f, N) ==
  /\ f \in [fn : {"branch"}, conds : Seq(1 .. N), starts : Seq(1 .. N),
            ends : Seq(1 .. N), orElse : 0 .. N]
  /\ Len(f.starts) = Len(f.ends)
  /\ f.conds # <<>>
  /\ Separate(f.conds, f.ends)
IsConnect(f, N) ==
  /\ f \in [fn : {"connect"}, conds : Seq(1 .. N), starts : Seq(1 .. N),
            ends : Seq(1 .. N), after : 1 .. N, i : Nat]
  /\ Len(f.starts) = Len(f.ends)
  /\ Len(f.conds) = Len(f.ends) + 1
  /\ f.i \in 1 .. Len(f.conds)
  /\ Separate([j \in DOMAIN f.ends |-> f.conds[j]], f.ends)
  /\ \A j \in DOMAIN f.ends : f.conds[j] # f.after /\ f.ends[j] # f.after

IsFrame(f, N) ==
  \/ IsFunc(f, N) \/ IsBody(f, N) \/ IsWhile(f, N) \/ IsBranch(f, N)
  \/ IsConnect(f, N)

\* An arm of a branch is open: its condition is noted but not its end.
ArmIsOpen(f) ==
  IF f.orElse = 0 THEN Len(f.conds) = Len(f.ends) + 1
  ELSE Len(f.conds) = Len(f.ends)
\* All arms are closed and there is no else so far.
ArmsAreClosed(f) == f.orElse = 0 /\ Len(f.conds) = Len(f.ends)

\* f can be the caller of g, and f can be on top of the stack.
Calls(f, g) ==
  IF f.fn = "basic_block" THEN g.fn \in {"while", "branch", "connect"}
  ELSE /\ f.fn \in {"func", "while", "branch"}
       /\ g.fn = "basic_block"
       /\ f.fn = "branch" => ArmIsOpen(f)
IsTop(f) ==
  /\ f.fn \in {"basic_block", "branch", "connect"}
  /\ f.fn = "branch" => ArmsAreClosed(f)

\* The stack: impl_func_def at the bottom, then impl_basic_block at every
\* second place.
Stacked(st) ==
  /\ Len(st) >= 2
  /\ st[1].fn = "func"
  /\ \A k \in 1 .. Len(st) - 1 : Calls(st[k], st[k + 1])
  /\ IsTop(st[Len(st)])
  /\ \A k \in 1 .. Len(st) : st[k].fn = "basic_block" <=> k % 2 = 0

Part(s, i, n) == {s[j] : j \in i .. n}
Entries(s)    == {s[j] : j \in DOMAIN s}

\* The blocks that a frame still has to give a terminator.
Owed(f) ==
  CASE f.fn = "func"        -> {f.entry}
    [] f.fn = "basic_block" -> {f.last}
    [] f.fn = "while"       -> {f.cond}
    [] f.fn = "branch"      -> Entries(f.conds) \cup Entries(f.ends)
    [] f.fn = "connect"     -> Part(f.conds, f.i, Len(f.ends))
                                 \cup Part(f.ends, f.i, Len(f.ends))
                                 \cup {f.after}

Owing(bs, st) ==
  /\ \A k \in DOMAIN st : \A b \in Owed(st[k]) :
       b \in DOMAIN bs /\ ~HasTerminator(bs[b])
  /\ \A k, m \in DOMAIN st : k # m => Owed(st[k]) \cap Owed(st[m]) = {}
  /\ \A b \in DOMAIN bs :
       ~HasTerminator(bs[b]) => \E k \in DOMAIN st : b \in Owed(st[k])

Typed ==
  /\ src \in Seq(Token)
  /\ Len(src) <= MaxTokens
  /\ stack # <<>> => Len(src) + OpenBodies <= MaxTokens
  /\ blocks \in Seq(Seq(Instruction(Len(src), Len(blocks))))
  /\ builder \in 1 .. Len(blocks)
  /\ \E S : stack \in Seq(S)
  /\ \A k \in DOMAIN stack : IsFrame(stack[k], Len(blocks))

IInv ==
  /\ Typed
  /\ Clean(blocks)
  /\ stack # <<>> => Stacked(stack)
  /\ Owing(blocks, stack)
  /\ Running("basic_block") => builder = Frame.last

-----------------------------------------------------------------------------
(* Bodies in the source.                                                   *)

\* Depth in a source s.
DepthIn(s, p) == Cardinality({q \in 1 .. p : s[q] \in Opening})
                   - Cardinality({q \in 1 .. p : s[q] = "end"})

\* The "end" at c closes the body that token i opens.
Closes(s, c, i) ==
  /\ i \in DOMAIN s /\ s[i] \in Opening
  /\ c \in i + 1 .. Len(s) /\ s[c] = "end"
  /\ DepthIn(s, c) = DepthIn(s, i) - 1
  /\ \A q \in i + 1 .. c - 1 : ~(s[q] = "end" /\ DepthIn(s, q) = DepthIn(s, i) - 1)

\* In s there are m open bodies, and open[2 * d + 2] is the token that opened
\* the d-th (the place of its frame on the stack); every other body is closed
\* by an end of its own.
Nested(s, m, open) ==
  /\ m \in Nat /\ open \in [Nat -> Nat] /\ open[2] = 0
  /\ DepthIn(s, Len(s)) = m
  /\ \A d \in 1 .. m :
       /\ open[2 * d + 2] \in DOMAIN s
       /\ s[open[2 * d + 2]] \in Opening
       /\ DepthIn(s, open[2 * d + 2]) = d
       /\ \A q \in open[2 * d + 2] .. Len(s) : DepthIn(s, q) >= d
  /\ \A i \in DOMAIN s : s[i] \in Opening =>
       (\E d \in 1 .. m : open[2 * d + 2] = i) \/ (\E c \in DOMAIN s : Closes(s, c, i))
  /\ \A c, i, j \in DOMAIN s : Closes(s, c, i) /\ Closes(s, c, j) => i = j
  /\ \A c \in DOMAIN s : s[c] = "end" => \E i \in DOMAIN s : Closes(s, c, i)

-----------------------------------------------------------------------------
(* What the source says comes next.                                        *)

\* A says of every place of a source what is evaluated when control gets
\* there; as far as s goes, it agrees with Arrive.
Respects(s, A) ==
  /\ \A p \in DOMAIN s : s[p] \in {"stmt", "return", "while", "if"} => A[p] = p
  /\ \A c, i \in DOMAIN s : Closes(s, c, i) =>
       /\ A[c] = IF s[i] = "while" THEN i ELSE A[c + 1]
       /\ s[i] \in {"elseif", "else"} => A[i] = A[c + 1]

\* An else whose body ends with a statement.
PlainElse(s) ==
  \E c, i \in DOMAIN s : Closes(s, c, i) /\ s[i] = "else" /\ s[c - 1] = "stmt"

\* Where a condition that does not hold leads when its body ends at c.
Skips(s, A, c) ==
  IF c < Len(s) /\ s[c + 1] = "elseif" THEN c + 1
  ELSE IF c < Len(s) /\ s[c + 1] = "else" THEN A[c + 2]
  ELSE A[c + 1]
NotTaken(s, A, i, c) == IF s[i] = "while" THEN A[c + 1] ELSE Skips(s, A, c)

-----------------------------------------------------------------------------
(* What the blocks say comes next.                                         *)

\* What is evaluated when control gets to instruction ins, if lab says it of
\* the beginnings of the blocks.
MeetsIn(lab, ins) ==
  IF ins.op \in {"eval", "ret"} THEN ins.token
  ELSE IF ins.op = "br" THEN lab[ins.to]
  ELSE Exit

\* Control at place k of block b gets to v; out says it of the ends of the
\* blocks that are not finished.
Leads(bs, lab, out, b, k, v) ==
  IF k <= Len(bs[b]) THEN bs[b][k].op # "condbr" /\ MeetsIn(lab, bs[b][k]) = v
                     ELSE out[b] = v

\* A block that only jumps does so to a later one or to one that evaluates.
Begins(bs, b)  == bs[b] # <<>> /\ bs[b][1].op = "eval"
Forward(bs, b) ==
  bs[b] # <<>> /\ bs[b][1].op = "br" => bs[b][1].to > b \/ Begins(bs, bs[b][1].to)

\* Block b has condition i: it has its two ways, or it has none yet.
Decided(s, bs, A, lab, b, i, between) ==
  /\ Len(bs[b]) = 2 /\ bs[b][2].op = "condbr"
  /\ \E c \in DOMAIN s :
       /\ Closes(s, c, i)
       /\ between => c # Len(s)
       /\ lab[bs[b][2].yes] = A[i + 1]
       /\ lab[bs[b][2].no] = NotTaken(s, A, i, c)
Undecided(bs, out, b) == Len(bs[b]) = 1 /\ out[b] = -1

Follows(s, bs, A, lab, out, between, b, k, i) ==
  IF s[i] = "stmt" THEN Leads(bs, lab, out, b, k + 1, A[i + 1])
  ELSE k = 1 /\ (Undecided(bs, out, b) \/ Decided(s, bs, A, lab, b, i, between))

\* The blocks do what A says, as far as they are finished; between tells that
\* impl_branch stands between two arms.
Preserves(s, bs, A, lab, out, between) ==
  /\ lab \in [DOMAIN bs -> Nat] /\ out \in [DOMAIN bs -> Int]
  /\ 1 \in DOMAIN bs /\ lab[1] = A[1]
  /\ \A b \in DOMAIN bs : Leads(bs, lab, out, b, 1, lab[b]) /\ Forward(bs, b)
  /\ \A b \in DOMAIN bs : \A k \in DOMAIN bs[b] : bs[b][k].op = "eval" =>
       Follows(s, bs, A, lab, out, between, b, k, bs[b][k].token)

-----------------------------------------------------------------------------
(* Where the code of a token is.                                           *)

\* The tokens of s that are evaluated: statements and conditions.
EvaluatedIn(s) == {i \in DOMAIN s : s[i] \in {"stmt", "while", "if", "elseif"}}

\* The code of each token of E is at one place, and there is no other code.
Placed(E, bs) ==
  /\ \A i \in E : \E b \in DOMAIN bs : \E k \in DOMAIN bs[b] : bs[b][k] = Eval(i)
  /\ \A b, d \in DOMAIN bs : \A k \in DOMAIN bs[b], m \in DOMAIN bs[d] :
       bs[b][k].op = "eval" /\ bs[d][m] = bs[b][k] => b = d /\ k = m
  /\ \A b \in DOMAIN bs : \A k \in DOMAIN bs[b] :
       bs[b][k].op = "eval" => bs[b][k].token \in E

-----------------------------------------------------------------------------
(* What the frames keep of the meaning.  A frame that owes a block its     *)
(* terminator also owes the block the way that it will give it.            *)

\* Arm j of a branch has condition t and ends at c.
ArmAt(s, bs, A, lab, f, j, t, c) ==
  /\ bs[f.conds[j]] = <<Eval(t)>> /\ s[t] \in {"if", "elseif"} /\ Closes(s, c, t)
  /\ lab[f.starts[j]] = A[t + 1]

\* After it comes the arm of the next condition, or place e if it is the last.
FollowedBy(s, bs, f, j, c, e) ==
  IF j = Len(f.conds) THEN c + 1 = e
  ELSE bs[f.conds[j + 1]] = <<Eval(c + 1)>> /\ c + 1 \in DOMAIN s /\ s[c + 1] = "elseif"

\* The arms of a branch that are closed, when what follows them is at e.
Arms(s, bs, A, lab, out, f, e) ==
  /\ Len(f.ends) <= Len(f.conds)
  /\ \A j \in DOMAIN f.ends :
       /\ out[f.ends[j]] = A[e]
       /\ \E t, c \in DOMAIN s : ArmAt(s, bs, A, lab, f, j, t, c) /\ FollowedBy(s, bs, f, j, c, e)

\* impl_basic_block of the body that token o opens.
BodyOf(A, lab, f, o) == lab[f.start] = A[o + 1] /\ f.start <= f.last

\* f has called g; o opens the body of g, if g is impl_basic_block.
Calling(s, bs, A, lab, out, f, g, o) ==
  CASE f.fn = "func" ->
         f.entry = 1 /\ bs[1] = <<>> /\ out[1] = A[1] /\ 1 < g.start
    [] f.fn = "basic_block" ->
         LET c == IF g.fn = "while" THEN g.cond ELSE g.conds[1] IN
         /\ bs[c] # <<>> /\ bs[c][1] = Eval(out[f.last])
         /\ g.fn = "branch" /\ g.orElse # 0 => f.start < g.orElse
         /\ g.fn = "connect" => f.start <= g.after
    [] f.fn = "while" -> o \in DOMAIN s /\ s[o] = "while" /\ bs[f.cond] = <<Eval(o)>>
    [] f.fn = "branch" ->
         /\ o \in DOMAIN s /\ Arms(s, bs, A, lab, out, f, o)
         /\ IF f.orElse = 0
              THEN /\ bs[f.conds[Len(f.conds)]] = <<Eval(o)>>
                   /\ s[o] = IF f.ends = <<>> THEN "if" ELSE "elseif"
              ELSE /\ s[o] = "else" /\ g.start = f.orElse
                   /\ \A j \in DOMAIN f.ends : f.ends[j] < f.orElse

\* f is the call that runs.
Walking(s, bs, A, lab, out, f) ==
  CASE f.fn = "basic_block" ->
         /\ out[f.last] = A[Len(s) + 1]
         /\ s # <<>> /\ s[Len(s)] \in {"return", "end"} => bs[f.last] = <<>>
    [] f.fn = "branch" -> Arms(s, bs, A, lab, out, f, Len(s) + 1)
    [] f.fn = "connect" ->
         /\ \A j \in f.i .. Len(f.ends) :
              /\ out[f.ends[j]] = A[Len(s) + 1] /\ f.ends[j] < f.after
              /\ \E t, c \in DOMAIN s :
                   ArmAt(s, bs, A, lab, f, j, t, c) /\ lab[f.conds[j + 1]] = Skips(s, A, c)
         /\ lab[f.after] = A[Len(s) + 1] /\ out[f.after] = A[Len(s) + 1]
         /\ bs[f.after] = <<>>

\* All that run; open[k] opens the body of the frame at k.
Below(s, bs, A, lab, out, st, open, n) ==
  /\ \A k \in 1 .. n : st[k].fn = "basic_block" => BodyOf(A, lab, st[k], open[k])
  /\ \A k \in 1 .. n - 1 : Calling(s, bs, A, lab, out, st[k], st[k + 1], open[k + 1])
Frames(s, bs, A, lab, out, st, open) ==
  st # <<>> => /\ Below(s, bs, A, lab, out, st, open, Len(st))
               /\ Walking(s, bs, A, lab, out, st[Len(st)])

-----------------------------------------------------------------------------
(* The meaning as an invariant.                                            *)

\* m bodies are open inside the body of the function, and open names their
\* openers.  Whatever comes after the source so far, the blocks do what it says:
\* A stands for every way in which the source can go on.
MeansWith(m, open) ==
  /\ Nested(src, m, open)
  /\ IF stack = <<>> THEN m = 0 ELSE Len(stack) \in {2 * m + 2, 2 * m + 3}
  /\ Placed(EvaluatedIn(src), blocks)
  /\ \A A \in [Nat -> Nat] :
       /\ Respects(src, A) /\ ~PlainElse(src)
       /\ stack = <<>> => A[Len(src) + 1] = Exit
       => \E lab, out :
            /\ Preserves(src, blocks, A, lab, out, Running("branch"))
            /\ Frames(src, blocks, A, lab, out, stack, open)
Means == \E m, open : MeansWith(m, open)
=============================================================================
