----------------------------- MODULE ControlFlow -----------------------------
(***************************************************************************)
(* How one function body becomes LLVM basic blocks: impl_func_def,         *)
(* impl_block, impl_basic_block, impl_while, impl_cond_block and           *)
(* impl_branch of src/src/llvm/llvm-ir/func.c and stmt.c, walking the tree *)
(* that semantic analysis made (fillBlock and createBranch of set.c).      *)
(*                                                                         *)
(* The walk chooses the program as it goes: src records the statements it  *)
(* met, in source order.  The call stack of the mutually recursive C       *)
(* functions is the variable stack; what a call does before, between and   *)
(* after its inner calls is one action each.  LLVM is external: a basic    *)
(* block is the sequence of the instructions that a builder appended.      *)
(* Values and types are left out; the code that computes the value of a    *)
(* statement or of a condition is one "eval" instruction.  Errors of       *)
(* impl_expr and of the types are left out as well.                        *)
(***************************************************************************)
EXTENDS Naturals, Sequences

CONSTANT MaxTokens   \* bound: length of src
ASSUME MaxTokensAssumption == MaxTokens \in Nat

VARIABLES
  src,       \* the source program walked so far
  blocks,    \* the basic blocks of the LLVM function, in order of creation
  builder,   \* the block at whose end the LLVM builder stands
  stack      \* the frames of the C functions that are running, or <<>>

vars == <<src, blocks, builder, stack>>

\* Tokens of the source: statements, and what opens and closes a body.
Opening == {"while", "if", "elseif", "else"}
Token   == Opening \cup {"stmt", "return", "end"}

-----------------------------------------------------------------------------
(* LLVM.                                                                   *)

Eval(i)           == [op |-> "eval", token |-> i]
Ret(i)            == [op |-> "ret", token |-> i]    \* 0: the default return
Br(b)             == [op |-> "br", to |-> b]
CondBr(yes, no)   == [op |-> "condbr", yes |-> yes, no |-> no]
IsTerminator(ins) == ins.op \in {"ret", "br", "condbr"}

HasTerminator(block) == block # <<>> /\ IsTerminator(block[Len(block)])
AppendBlock(bs)      == Append(bs, <<>>)
Emit(bs, b, ins)     == [bs EXCEPT ![b] = Append(@, ins)]

-----------------------------------------------------------------------------
(* The frames.                                                             *)

\* impl_basic_block: its first block and end_previous_block.
BasicBlockFrame(start) == [fn |-> "basic_block", start |-> start, last |-> start]
\* impl_while: the condition block.
WhileFrame(cond) == [fn |-> "while", cond |-> cond]
\* impl_branch: its arrays; orElse is the first block of the else, or 0.
BranchFrame(cond) == [fn |-> "branch", conds |-> <<cond>>, starts |-> <<>>,
                      ends |-> <<>>, orElse |-> 0]
\* impl_branch in its last loop, at turn i, with the block after the branch.
ConnectFrame(f, cond, after) ==
  [fn |-> "connect", conds |-> Append(f.conds, cond), starts |-> f.starts,
   ends |-> f.ends, after |-> after, i |-> 1]
FuncFrame(entry) == [fn |-> "func", entry |-> entry]

Running(fn)  == stack # <<>> /\ stack[Len(stack)].fn = fn
Frame        == stack[Len(stack)]
Caller       == stack[Len(stack) - 1]
Pop(n)       == SubSeq(stack, 1, Len(stack) - n)
Called(fn)   == Len(stack) > 1 /\ Running("basic_block") /\ Caller.fn = fn

\* Room in the bound for n more tokens and the "end" of every open body.  An
\* open body is a frame of impl_basic_block and, but for the function's own,
\* the frame of its caller.
OpenBodies == Len(stack) \div 2 - 1
Room(n)    == Len(src) + OpenBodies + n <= MaxTokens

\* The grammar has no empty body (src/src/yacc/parser.y:366-369).
BodyHasStatement == src # <<>> /\ src[Len(src)] \notin Opening

-----------------------------------------------------------------------------
\* Mutant of AfterSimple: the builder stays in the block that is closed.
AfterSimpleStays(bs, f) ==
  /\ blocks' = IF HasTerminator(bs[f.last]) THEN AppendBlock(bs) ELSE bs
  /\ UNCHANGED <<builder, stack>>

\* The rest of the loop of impl_basic_block after a statement that did not
\* make blocks, with bs the blocks it left: a return closes the block, so the
\* following statements get a block of their own.
AfterSimple(bs, f) ==
  IF HasTerminator(bs[f.last])
    THEN /\ blocks' = AppendBlock(bs)
         /\ builder' = Len(bs) + 1
         /\ stack' = Append(Pop(1), [f EXCEPT !.last = Len(bs) + 1])
    ELSE /\ blocks' = bs
         /\ UNCHANGED <<builder, stack>>

\* The same after a statement that made blocks from start to end: rest is the
\* stack below the frame f of impl_basic_block.
AfterBlocks(bs, f, rest, start, end) ==
  IF HasTerminator(bs[f.last])
    THEN /\ blocks' = AppendBlock(bs)
         /\ builder' = Len(bs) + 1
         /\ stack' = Append(rest, [f EXCEPT !.last = Len(bs) + 1])
    ELSE /\ blocks' = Emit(bs, f.last, Br(start))
         /\ builder' = end
         /\ stack' = Append(rest, [f EXCEPT !.last = end])

\* Entry of impl_cond_block and of impl_basic_block for its body: the blocks
\* of a condition, which token i evaluates, and of the body it guards.
CondAndBody(bs, i) ==
  Append(Append(bs, <<Eval(i)>>), <<>>)

-----------------------------------------------------------------------------
\* impl_func_def and impl_block: the entry block, then the body.
Init ==
  /\ src = <<>>
  /\ blocks = <<<<>>, <<>>>>
  /\ builder = 2
  /\ stack = <<FuncFrame(1), BasicBlockFrame(2)>>

\* impl_assign_stmt, impl_var, impl_func_call.
SimpleStatement ==
  /\ Running("basic_block")
  /\ Room(1)
  /\ src' = Append(src, "stmt")
  /\ AfterSimple(Emit(blocks, builder, Eval(Len(src) + 1)), Frame)

\* impl_return.
ReturnStatement ==
  /\ Running("basic_block")
  /\ Room(1)
  /\ src' = Append(src, "return")
  /\ AfterSimple(Emit(blocks, builder, Ret(Len(src) + 1)), Frame)

\* impl_while up to the statements of the body.
BeginWhile ==
  LET cond == Len(blocks) + 1 IN
  /\ Running("basic_block")
  /\ Room(3)
  /\ src' = Append(src, "while")
  /\ blocks' = CondAndBody(blocks, Len(src) + 1)
  /\ builder' = cond + 1
  /\ stack' = stack \o <<WhileFrame(cond), BasicBlockFrame(cond + 1)>>

\* Mutants of EndWhile: the first block of the body goes back instead of the
\* last; the body leaves the loop.
EndWhileFromStart ==
  LET cond  == Caller.cond
      after == Len(blocks) + 1
      bs1   == Emit(blocks, Frame.start, Br(cond))
      bs2   == Emit(AppendBlock(bs1), cond, CondBr(Frame.start, after))
  IN
  /\ Called("while")
  /\ BodyHasStatement
  /\ src' = Append(src, "end")
  /\ AfterBlocks(bs2, stack[Len(stack) - 2], Pop(3), cond, after)

EndWhileOnce ==
  LET cond  == Caller.cond
      after == Len(blocks) + 1
      bs1   == Emit(AppendBlock(blocks), Frame.last, Br(after))
      bs2   == Emit(bs1, cond, CondBr(Frame.start, after))
  IN
  /\ Called("while")
  /\ BodyHasStatement
  /\ src' = Append(src, "end")
  /\ AfterBlocks(bs2, stack[Len(stack) - 2], Pop(3), cond, after)

\* impl_while after the body, and the rest of the enclosing block's turn.
EndWhile ==
  LET cond  == Caller.cond
      after == Len(blocks) + 1
      bs1   == Emit(blocks, Frame.last, Br(cond))
      bs2   == Emit(AppendBlock(bs1), cond, CondBr(Frame.start, after))
  IN
  /\ Called("while")
  /\ BodyHasStatement
  /\ src' = Append(src, "end")
  /\ AfterBlocks(bs2, stack[Len(stack) - 2], Pop(3), cond, after)

\* impl_branch: the if, up to the statements of its body.
BeginBranch ==
  LET cond == Len(blocks) + 1 IN
  /\ Running("basic_block")
  /\ Room(3)
  /\ src' = Append(src, "if")
  /\ blocks' = CondAndBody(blocks, Len(src) + 1)
  /\ builder' = cond + 1
  /\ stack' = stack \o <<BranchFrame(cond), BasicBlockFrame(cond + 1)>>

\* The body of an if or of an else if ends: impl_cond_block returns and
\* impl_branch notes the first and the last block of the body.
EndArm ==
  /\ Called("branch")
  /\ BodyHasStatement
  /\ Caller.orElse = 0
  /\ src' = Append(src, "end")
  /\ stack' = Append(Pop(2), [Caller EXCEPT !.starts = Append(@, Frame.start),
                                            !.ends = Append(@, Frame.last)])
  /\ UNCHANGED <<blocks, builder>>

ElseIf ==
  LET cond == Len(blocks) + 1 IN
  /\ Running("branch")
  /\ Room(3)
  /\ src' = Append(src, "elseif")
  /\ blocks' = CondAndBody(blocks, Len(src) + 1)
  /\ builder' = cond + 1
  /\ stack' = Append(Pop(1), [Frame EXCEPT !.conds = Append(@, cond)])
                \o <<BasicBlockFrame(cond + 1)>>

\* The else has no condition block of its own.
BeginElse ==
  LET start == Len(blocks) + 1 IN
  /\ Running("branch")
  /\ Room(3)
  /\ src' = Append(src, "else")
  /\ blocks' = AppendBlock(blocks)
  /\ builder' = start
  /\ stack' = Append(Pop(1), [Frame EXCEPT !.orElse = start])
                \o <<BasicBlockFrame(start)>>

\* No else: a fresh block is both the last way out and the block after.
NoElse ==
  LET after == Len(blocks) + 1 IN
  /\ Running("branch")
  /\ blocks' = AppendBlock(blocks)
  /\ builder' = after
  /\ stack' = Append(Pop(1), ConnectFrame(Frame, after, after))
  /\ UNCHANGED src

\* The else body ends: its last block is the block after the branch.
EndElse ==
  /\ Called("branch")
  /\ BodyHasStatement
  /\ Caller.orElse # 0
  /\ src' = Append(src, "end")
  /\ builder' = Frame.last
  /\ stack' = Append(Pop(2), ConnectFrame(Caller, Caller.orElse, Frame.last))
  /\ UNCHANGED blocks

\* One turn of the last loop of impl_branch: a condition gets its two ways and
\* the body it guards goes on at the block after the branch.
ConnectArm ==
  LET f == Frame IN
  /\ Running("connect")
  /\ f.i < Len(f.conds)
  /\ blocks' = Emit(Emit(blocks, f.conds[f.i],
                         CondBr(f.starts[f.i], f.conds[f.i + 1])),
                    f.ends[f.i], Br(f.after))
  /\ builder' = f.ends[f.i]
  /\ stack' = Append(Pop(1), [f EXCEPT !.i = @ + 1])
  /\ UNCHANGED src

\* impl_branch returns.
EndBranch ==
  /\ Running("connect")
  /\ Frame.i = Len(Frame.conds)
  /\ AfterBlocks(blocks, Caller, Pop(2), Frame.conds[1], Frame.after)
  /\ UNCHANGED src

\* Mutants of EndFunction: no end block; the end block is never appended.
EndFunctionOpen ==
  /\ Called("func")
  /\ BodyHasStatement
  /\ blocks' = Emit(blocks, Caller.entry, Br(Frame.start))
  /\ builder' = Caller.entry
  /\ stack' = <<>>
  /\ UNCHANGED src

EndFunctionUnappended ==
  LET bs == Emit(blocks, Caller.entry, Br(Frame.start)) IN
  /\ Called("func")
  /\ BodyHasStatement
  /\ blocks' = IF HasTerminator(bs[Frame.last]) THEN bs
                ELSE Emit(bs, Frame.last, Br(Len(blocks) + 1))
  /\ builder' = Caller.entry
  /\ stack' = <<>>
  /\ UNCHANGED src

\* impl_func_def after the body: the entry jumps to it, and a body that can
\* end without a return gets a block that returns the default value.
EndFunction ==
  LET bs == Emit(blocks, Caller.entry, Br(Frame.start))
      endBlock == Len(blocks) + 1
  IN
  /\ Called("func")
  /\ BodyHasStatement
  /\ IF HasTerminator(bs[Frame.last])
       THEN blocks' = bs
       ELSE blocks' = Append(Emit(bs, Frame.last, Br(endBlock)), <<Ret(0)>>)
  /\ builder' = Caller.entry
  /\ stack' = <<>>
  /\ UNCHANGED src

Next ==
  \/ SimpleStatement
  \/ ReturnStatement
  \/ BeginWhile
  \/ EndWhile
  \/ BeginBranch
  \/ EndArm
  \/ ElseIf
  \/ BeginElse
  \/ NoElse
  \/ EndElse
  \/ ConnectArm
  \/ EndBranch
  \/ EndFunction

Spec == Init /\ [][Next]_vars

-----------------------------------------------------------------------------
(* Properties.                                                             *)

TypeOK ==
  /\ src \in Seq(Token) /\ Len(src) <= MaxTokens
  /\ builder \in 1 .. Len(blocks)
  /\ \A b \in DOMAIN blocks : \A k \in DOMAIN blocks[b] :
       LET ins == blocks[b][k] IN
       CASE ins.op = "eval"   -> ins.token \in DOMAIN src
         [] ins.op = "ret"    -> ins.token \in DOMAIN src \cup {0}
         [] ins.op = "br"     -> ins.to \in DOMAIN blocks
         [] ins.op = "condbr" -> {ins.yes, ins.no} \subseteq DOMAIN blocks

\* LLVM takes a block whose only terminator is its last instruction.  The
\* builder never appends to a block that has one, although four functions
\* move it back and forth between the blocks of one branch or loop.
NothingAfterTerminator ==
  \A b \in DOMAIN blocks : \A k \in 1 .. Len(blocks[b]) - 1 :
    ~IsTerminator(blocks[b][k])

\* When a statement is about to be walked the builder stands where the code
\* of the statement belongs, after everything that the block already has.
BuilderAtOpenEnd ==
  Running("basic_block") =>
    builder = Frame.last /\ ~HasTerminator(blocks[builder])

\* No block of a finished function is left without a terminator.
EveryBlockTerminated ==
  stack = <<>> => \A b \in DOMAIN blocks : HasTerminator(blocks[b])
=============================================================================
