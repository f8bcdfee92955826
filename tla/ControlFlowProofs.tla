-------------------------- MODULE ControlFlowProofs --------------------------
(***************************************************************************)
(* What holds of the blocks of every function body, however long and       *)
(* however deeply nested: that they are well formed, and that they do what *)
(* the source says.  ControlFlowInvariant has the two invariants.          *)
(***************************************************************************)
EXTENDS ControlFlowInvariant, FiniteSetTheorems, WellFoundedInduction, TLAPS

-----------------------------------------------------------------------------
(* Instructions and blocks.                                                *)

\* What may be an instruction stays one when source and blocks grow.
LEMMA InstructionGrows ==
  ASSUME NEW n \in Nat, NEW m \in Nat, n <= m,
         NEW N \in Nat, NEW M \in Nat, N <= M
  PROVE  Instruction(n, N) \subseteq Instruction(m, M)
BY DEF Instruction

LEMMA SeqGrows ==
  ASSUME NEW S, NEW T, S \subseteq T
  PROVE  Seq(S) \subseteq Seq(T)
<1> SUFFICES ASSUME NEW s \in Seq(S) PROVE s \in Seq(T)
  OBVIOUS
<1>1. Len(s) \in Nat /\ s \in [1 .. Len(s) -> S]
  OBVIOUS
<1>2. s \in [1 .. Len(s) -> T]
  BY <1>1
<1> QED
  BY <1>1, <1>2

LEMMA BlocksGrow ==
  ASSUME NEW n \in Nat, NEW m \in Nat, n <= m,
         NEW N \in Nat, NEW M \in Nat, N <= M,
         NEW bs \in Seq(Seq(Instruction(n, N)))
  PROVE  bs \in Seq(Seq(Instruction(m, M)))
<1>1. Seq(Instruction(n, N)) \subseteq Seq(Instruction(m, M))
  BY InstructionGrows, SeqGrows, Zenon
<1> QED
  BY <1>1, SeqGrows, Zenon

\* What Emit does to the blocks, and that it is clean on an open block.
LEMMA EmitFacts ==
  ASSUME NEW S, NEW bs \in Seq(Seq(S)), NEW b \in DOMAIN bs, NEW ins \in S
  PROVE  /\ Emit(bs, b, ins) \in Seq(Seq(S))
         /\ Len(Emit(bs, b, ins)) = Len(bs)
         /\ DOMAIN Emit(bs, b, ins) = DOMAIN bs
         /\ \A a \in DOMAIN bs \ {b} : Emit(bs, b, ins)[a] = bs[a]
         /\ HasTerminator(Emit(bs, b, ins)[b]) <=> IsTerminator(ins)
         /\ Clean(bs) /\ ~HasTerminator(bs[b]) => Clean(Emit(bs, b, ins))
<1> DEFINE cs == Emit(bs, b, ins)
           c  == Append(bs[b], ins)
<1>1. bs[b] \in Seq(S) /\ Len(bs[b]) \in Nat /\ DOMAIN bs = 1 .. Len(bs)
      /\ Len(bs) \in Nat
  OBVIOUS
<1>2. /\ c \in Seq(S)
      /\ Len(c) = Len(bs[b]) + 1
      /\ c[Len(bs[b]) + 1] = ins
      /\ \A k \in 1 .. Len(bs[b]) : c[k] = bs[b][k]
  BY <1>1
<1> HIDE DEF c
<1>3. cs = [bs EXCEPT ![b] = c]
  BY DEF Emit, c
<1>4. /\ cs \in Seq(Seq(S)) /\ Len(cs) = Len(bs) /\ DOMAIN cs = DOMAIN bs
      /\ cs[b] = c /\ \A a \in DOMAIN bs \ {b} : cs[a] = bs[a]
  BY <1>1, <1>2, <1>3
<1>5. HasTerminator(c) <=> IsTerminator(ins)
  BY <1>1, <1>2 DEF HasTerminator
<1>6. ASSUME Clean(bs), ~HasTerminator(bs[b]) PROVE Clean(cs)
  <2> HIDE DEF cs
  <2> SUFFICES ASSUME NEW a \in DOMAIN cs, NEW k \in 1 .. Len(cs[a]) - 1
               PROVE  ~IsTerminator(cs[a][k])
    BY DEF Clean
  <2>1. CASE a # b
    BY <1>4, <1>6, <2>1 DEF Clean
  <2>2. CASE a = b
    <3>1. k \in 1 .. Len(bs[b]) /\ cs[a][k] = bs[b][k]
      BY <1>1, <1>2, <1>4, <2>2
    <3>2. CASE k = Len(bs[b])
      BY <1>1, <1>6, <3>1, <3>2 DEF HasTerminator
    <3>3. CASE k # Len(bs[b])
      BY <1>1, <1>6, <3>1, <3>3 DEF Clean
    <3> QED
      BY <3>2, <3>3
  <2> QED
    BY <2>1, <2>2
<1> QED
  BY <1>4, <1>5, <1>6

\* A new block of one instruction at most.
LEMMA NewBlockFacts ==
  ASSUME NEW S, NEW bs \in Seq(Seq(S)), NEW c \in Seq(S), Len(c) <= 1
  PROVE  /\ Append(bs, c) \in Seq(Seq(S))
         /\ Len(Append(bs, c)) = Len(bs) + 1
         /\ DOMAIN Append(bs, c) = DOMAIN bs \cup {Len(bs) + 1}
         /\ Len(bs) + 1 \notin DOMAIN bs
         /\ \A a \in DOMAIN bs : Append(bs, c)[a] = bs[a]
         /\ Append(bs, c)[Len(bs) + 1] = c
         /\ Clean(bs) => Clean(Append(bs, c))
<1> DEFINE cs == Append(bs, c)
<1>1. Len(bs) \in Nat /\ DOMAIN bs = 1 .. Len(bs) /\ Len(c) \in Nat
  OBVIOUS
<1>2. cs \in Seq(Seq(S)) /\ Len(cs) = Len(bs) + 1 /\ DOMAIN cs = 1 .. Len(cs)
  OBVIOUS
<1>3. /\ \A a \in DOMAIN bs : cs[a] = bs[a]
      /\ cs[Len(bs) + 1] = c
  BY <1>1
<1> HIDE DEF cs
<1>4. DOMAIN cs = DOMAIN bs \cup {Len(bs) + 1} /\ Len(bs) + 1 \notin DOMAIN bs
  BY <1>1, <1>2
<1>5. ASSUME Clean(bs) PROVE Clean(cs)
  <2> SUFFICES ASSUME NEW a \in DOMAIN cs, NEW k \in 1 .. Len(cs[a]) - 1
               PROVE  ~IsTerminator(cs[a][k])
    BY DEF Clean
  <2>1. a \in DOMAIN bs
    BY <1>1, <1>3, <1>4
  <2> QED
    BY <1>3, <1>5, <2>1 DEF Clean
<1> QED
  BY <1>2, <1>3, <1>4, <1>5 DEF cs

LEMMA FrameGrows ==
  ASSUME NEW f, NEW N \in Nat, NEW M \in Nat, N <= M, IsFrame(f, N)
  PROVE  IsFrame(f, M)
<1>1. Seq(1 .. N) \subseteq Seq(1 .. M)
  <2>1. 1 .. N \subseteq 1 .. M
    OBVIOUS
  <2> QED
    BY <2>1, SeqGrows, Zenon
<1>2. IsFunc(f, N) => IsFunc(f, M)
  BY DEF IsFunc
<1>3. IsBody(f, N) => IsBody(f, M)
  BY DEF IsBody
<1>4. IsWhile(f, N) => IsWhile(f, M)
  BY DEF IsWhile
<1>5. IsBranch(f, N) => IsBranch(f, M)
  BY <1>1 DEF IsBranch
<1>6. IsConnect(f, N) => IsConnect(f, M)
  BY <1>1 DEF IsConnect
<1> QED
  BY <1>2, <1>3, <1>4, <1>5, <1>6 DEF IsFrame

-----------------------------------------------------------------------------
(* The stack.                                                              *)

\* tt has the first n frames of st; above them one new frame, or two.
Kept(st, tt, n) == \A k \in 1 .. n : tt[k] = st[k]
Puts(st, tt, n, g) ==
  /\ n \in 0 .. Len(st)
  /\ Kept(st, tt, n)
  /\ Len(tt) = n + 1 /\ DOMAIN tt = 1 .. n + 1
  /\ tt[n + 1] = g
  /\ \E S : tt \in Seq(S)
PutsTwo(st, tt, n, g, h) ==
  /\ n \in 0 .. Len(st)
  /\ Kept(st, tt, n)
  /\ Len(tt) = n + 2 /\ DOMAIN tt = 1 .. n + 2
  /\ tt[n + 1] = g /\ tt[n + 2] = h
  /\ \E S : tt \in Seq(S)

LEMMA PutsFacts ==
  ASSUME NEW S, NEW st \in Seq(S), NEW n \in 0 .. Len(st), NEW g
  PROVE  Puts(st, Append(SubSeq(st, 1, n), g), n, g)
<1> DEFINE T == S \cup {g}
           low == SubSeq(st, 1, n)
<1>1. Len(st) \in Nat /\ DOMAIN st = 1 .. Len(st) /\ n \in Nat
  OBVIOUS
<1>2. /\ low \in Seq(S) /\ Len(low) = n
      /\ \A k \in 1 .. n : low[k] = st[k]
  BY <1>1
<1>3. low \in Seq(T)
  BY <1>2, SeqGrows, S \subseteq T, Zenon
<1> HIDE DEF low
<1>4. g \in T
  OBVIOUS
<1> HIDE DEF T
<1>5. /\ Append(low, g) \in Seq(T)
      /\ Len(Append(low, g)) = n + 1
      /\ DOMAIN Append(low, g) = 1 .. n + 1
      /\ Append(low, g)[n + 1] = g
      /\ \A k \in 1 .. n : Append(low, g)[k] = low[k]
  BY <1>1, <1>2, <1>3, <1>4
<1> QED
  BY <1>2, <1>5 DEF Puts, Kept, low

LEMMA PutsTwoFacts ==
  ASSUME NEW S, NEW st \in Seq(S), NEW n \in 0 .. Len(st), NEW g, NEW h
  PROVE  PutsTwo(st, Append(SubSeq(st, 1, n), g) \o <<h>>, n, g, h)
<1> DEFINE mid == Append(SubSeq(st, 1, n), g)
<1>1. Puts(st, mid, n, g)
  BY PutsFacts, Zenon
<1> HIDE DEF mid
<1>2. PICK T : mid \in Seq(T)
  BY <1>1 DEF Puts
<1> DEFINE U == T \cup {h}
<1>3. mid \in Seq(U) /\ h \in U
  BY <1>2, SeqGrows, T \subseteq U, Zenon
<1> HIDE DEF U
<1>4. n \in Nat /\ Len(mid) = n + 1 /\ mid[n + 1] = g /\ Kept(st, mid, n)
      /\ n \in 0 .. Len(st)
  BY <1>1 DEF Puts
<1>5. /\ mid \o <<h>> \in Seq(U)
      /\ Len(mid \o <<h>>) = n + 2
      /\ (mid \o <<h>>)[n + 2] = h
      /\ \A k \in 1 .. n + 1 : (mid \o <<h>>)[k] = mid[k]
  BY <1>3, <1>4
<1>6. DOMAIN (mid \o <<h>>) = 1 .. n + 2
  BY <1>5
<1> QED
  BY <1>4, <1>5, <1>6 DEF PutsTwo, Kept, mid

LEMMA PushFacts ==
  ASSUME NEW S, NEW st \in Seq(S), NEW g, NEW h
  PROVE  PutsTwo(st, st \o <<g, h>>, Len(st), g, h)
<1> DEFINE U == S \cup {g, h}
<1>1. st \in Seq(U) /\ g \in U /\ h \in U
  BY SeqGrows, S \subseteq U, Zenon
<1>2. Len(st) \in Nat
  OBVIOUS
<1> HIDE DEF U
<1>3. /\ st \o <<g, h>> \in Seq(U)
      /\ Len(st \o <<g, h>>) = Len(st) + 2
      /\ (st \o <<g, h>>)[Len(st) + 1] = g
      /\ (st \o <<g, h>>)[Len(st) + 2] = h
      /\ \A k \in 1 .. Len(st) : (st \o <<g, h>>)[k] = st[k]
  BY <1>1, <1>2
<1>4. DOMAIN (st \o <<g, h>>) = 1 .. Len(st) + 2
  BY <1>3
<1> QED
  BY <1>2, <1>3, <1>4 DEF PutsTwo, Kept

-----------------------------------------------------------------------------
(* Who owes what.                                                          *)

LEMMA OwedFacts ==
  ASSUME NEW f, NEW N
  PROVE  /\ IsFunc(f, N) => Owed(f) = {f.entry} /\ f.fn = "func"
         /\ IsBody(f, N) => Owed(f) = {f.last} /\ f.fn = "basic_block"
         /\ IsWhile(f, N) => Owed(f) = {f.cond} /\ f.fn = "while"
         /\ IsBranch(f, N) =>
              /\ f.fn = "branch"
              /\ Owed(f) = Entries(f.conds) \cup Entries(f.ends)
         /\ IsConnect(f, N) =>
              /\ f.fn = "connect"
              /\ Owed(f) = Part(f.conds, f.i, Len(f.ends))
                             \cup Part(f.ends, f.i, Len(f.ends)) \cup {f.after}
BY DEF Owed, IsFunc, IsBody, IsWhile, IsBranch, IsConnect

\* The kind of a frame is told by its name.
LEMMA FrameKinds ==
  ASSUME NEW f, NEW N, IsFrame(f, N)
  PROVE  /\ f.fn = "func" => IsFunc(f, N)
         /\ f.fn = "basic_block" => IsBody(f, N)
         /\ f.fn = "while" => IsWhile(f, N)
         /\ f.fn = "branch" => IsBranch(f, N)
         /\ f.fn = "connect" => IsConnect(f, N)
BY DEF IsFrame, IsFunc, IsBody, IsWhile, IsBranch, IsConnect

\* What the frames above the n-th owe.
Above(st, n) == UNION {Owed(st[k]) : k \in n + 1 .. Len(st)}

\* The blocks change from bs to cs, and with them the blocks that are owed
\* by the top of the stack, from lost to kept: the blocks of others are left
\* alone, and of these and the new ones exactly those in kept are open.
Settled(bs, cs, lost, kept) ==
  /\ DOMAIN bs \subseteq DOMAIN cs
  /\ \A b \in DOMAIN bs \ lost : cs[b] = bs[b]
  /\ kept \subseteq lost \cup (DOMAIN cs \ DOMAIN bs)
  /\ \A b \in lost \cup (DOMAIN cs \ DOMAIN bs) :
       ~HasTerminator(cs[b]) <=> b \in kept

\* A step that settles what the top of the stack owes keeps the account.
LEMMA AccountKept ==
  ASSUME NEW S, NEW T, NEW bs, NEW cs, NEW st \in Seq(S), NEW tt \in Seq(T),
         NEW n \in 0 .. Len(st), n <= Len(tt), Kept(st, tt, n),
         Owing(bs, st),
         Settled(bs, cs, Above(st, n), Above(tt, n)),
         \A k, m \in n + 1 .. Len(tt) :
           k # m => Owed(tt[k]) \cap Owed(tt[m]) = {}
  PROVE  Owing(cs, tt)
<1>1. /\ DOMAIN st = 1 .. Len(st) /\ Len(st) \in Nat
      /\ DOMAIN tt = 1 .. Len(tt) /\ Len(tt) \in Nat /\ n \in Nat
  OBVIOUS
<1>2. ASSUME NEW k \in 1 .. n, NEW b \in Owed(st[k])
      PROVE  b \in DOMAIN bs /\ b \notin Above(st, n) /\ ~HasTerminator(bs[b])
  BY <1>1 DEF Owing, Above
<1>3. ASSUME NEW k \in 1 .. n, NEW b \in Owed(tt[k])
      PROVE  /\ b \in DOMAIN cs /\ b \in DOMAIN bs
             /\ b \notin Above(st, n) /\ b \notin Above(tt, n)
             /\ ~HasTerminator(cs[b])
  <2>1. tt[k] = st[k]
    BY DEF Kept
  <2>2. b \in DOMAIN bs /\ b \notin Above(st, n) /\ ~HasTerminator(bs[b])
    BY <1>2, <2>1
  <2> QED
    BY <2>2 DEF Settled
<1>4. ASSUME NEW b \in Above(st, n) PROVE b \in DOMAIN bs
  BY <1>1, <1>4 DEF Owing, Above
<1>5. ASSUME NEW k \in n + 1 .. Len(tt), NEW b \in Owed(tt[k])
      PROVE  b \in DOMAIN cs /\ ~HasTerminator(cs[b]) /\ b \in Above(tt, n)
  <2>1. b \in Above(tt, n)
    BY DEF Above
  <2> QED
    BY <1>4, <2>1 DEF Settled
<1>6. \A k \in DOMAIN tt : \A b \in Owed(tt[k]) :
        b \in DOMAIN cs /\ ~HasTerminator(cs[b])
  <2> SUFFICES ASSUME NEW k \in DOMAIN tt, NEW b \in Owed(tt[k])
               PROVE  b \in DOMAIN cs /\ ~HasTerminator(cs[b])
    OBVIOUS
  <2>1. k \in 1 .. n \/ k \in n + 1 .. Len(tt)
    BY <1>1
  <2> QED
    BY <1>3, <1>5, <2>1
<1>7. ASSUME NEW k \in DOMAIN tt, NEW m \in DOMAIN tt, k # m
      PROVE  Owed(tt[k]) \cap Owed(tt[m]) = {}
  <2>1. /\ k \in 1 .. n \/ k \in n + 1 .. Len(tt)
        /\ m \in 1 .. n \/ m \in n + 1 .. Len(tt)
    BY <1>1
  <2>2. CASE k \in 1 .. n /\ m \in 1 .. n
    <3>1. tt[k] = st[k] /\ tt[m] = st[m] /\ k \in DOMAIN st /\ m \in DOMAIN st
      BY <1>1, <2>2 DEF Kept
    <3> QED
      BY <1>7, <3>1 DEF Owing
  <2>3. CASE k \in 1 .. n /\ m \in n + 1 .. Len(tt)
    BY <1>3, <1>5, <2>3
  <2>4. CASE k \in n + 1 .. Len(tt) /\ m \in 1 .. n
    BY <1>3, <1>5, <2>4
  <2>5. CASE k \in n + 1 .. Len(tt) /\ m \in n + 1 .. Len(tt)
    BY <1>7, <2>5
  <2> QED
    BY <2>1, <2>2, <2>3, <2>4, <2>5
<1>8. ASSUME NEW b \in DOMAIN cs, ~HasTerminator(cs[b])
      PROVE  \E k \in DOMAIN tt : b \in Owed(tt[k])
  <2>1. CASE b \in Above(st, n) \cup (DOMAIN cs \ DOMAIN bs)
    <3>1. b \in Above(tt, n)
      BY <1>8, <2>1 DEF Settled
    <3>2. PICK k \in n + 1 .. Len(tt) : b \in Owed(tt[k])
      BY <3>1 DEF Above
    <3> QED
      BY <1>1, <3>2
  <2>2. CASE b \in DOMAIN bs \ Above(st, n)
    <3>1. ~HasTerminator(bs[b])
      BY <1>8, <2>2 DEF Settled
    <3>2. PICK k \in DOMAIN st : b \in Owed(st[k])
      BY <2>2, <3>1 DEF Owing
    <3>3. k \in 1 .. n
      BY <1>1, <2>2, <3>2 DEF Above
    <3> QED
      BY <1>1, <3>2, <3>3 DEF Kept
  <2> QED
    BY <2>1, <2>2
<1> QED
  BY <1>6, <1>7, <1>8 DEF Owing
-----------------------------------------------------------------------------
(* A step of the walk, put together: one lemma for the actions that leave   *)
(* one new frame on top, one for those that leave two.                     *)

\* What a step makes of the source and the blocks, with top frames that sit
\* on n others, owe kept and leave the builder in the block top.
Walked(n, size, kept) ==
  /\ src' \in Seq(Token)
  /\ Len(src') + size \div 2 - 1 <= MaxTokens
  /\ Len(blocks) <= Len(blocks')
  /\ blocks' \in Seq(Seq(Instruction(Len(src'), Len(blocks'))))
  /\ Clean(blocks')
  /\ builder' \in 1 .. Len(blocks')
  /\ Settled(blocks, blocks', Above(stack, n), kept)

LEMMA OneFrame ==
  ASSUME IInv, stack # <<>>,
         NEW n \in Nat, n >= 1, n < Len(stack), NEW g,
         Puts(stack, stack', n, g),
         IsFrame(g, Len(blocks')),
         IsTop(g), g.fn = "basic_block" <=> stack[n + 1].fn = "basic_block",
         g.fn = "basic_block" => builder' = g.last,
         Walked(n, n + 1, Owed(g))
  PROVE  IInv'
<1>1. /\ Len(blocks) \in Nat /\ Len(blocks') \in Nat /\ Len(src') \in Nat
      /\ MaxTokens \in Nat
  BY MaxTokensAssumption, SMTT(30) DEF IInv, Typed, Walked
<1>2. PICK S : stack \in Seq(S)
  BY DEF IInv, Typed
<1>3. PICK T : stack' \in Seq(T)
  BY DEF Puts
<1>4. /\ Len(stack) \in Nat /\ DOMAIN stack = 1 .. Len(stack)
      /\ Len(stack') = n + 1 /\ DOMAIN stack' = 1 .. n + 1
      /\ stack'[n + 1] = g /\ Kept(stack, stack', n)
  BY <1>2 DEF Puts
<1>5. Typed'
  <2>1. ASSUME NEW k \in DOMAIN stack' PROVE IsFrame(stack'[k], Len(blocks'))
    <3>1. CASE k = n + 1
      BY <1>4, <3>1
    <3>2. CASE k \in 1 .. n
      <4>1. IsFrame(stack[k], Len(blocks)) /\ stack'[k] = stack[k]
        BY <1>4, <3>2 DEF IInv, Typed, Kept
      <4> QED
        BY <1>1, <4>1, FrameGrows, Zenon DEF Walked
    <3> QED
      BY <1>4, <3>1, <3>2
  <2>2. Len(src') + (n + 1) \div 2 - 1 <= MaxTokens /\ (n + 1) \div 2 >= 1
    BY DEF Walked
  <2>3. Len(src') <= MaxTokens /\ Len(src') + (Len(stack') \div 2 - 1) <= MaxTokens
    BY <1>1, <1>4, <2>2
  <2> QED
    BY <1>3, <2>1, <2>3 DEF Walked, Typed, OpenBodies
<1>6. Stacked(stack')
  <2>1. /\ stack[1].fn = "func"
        /\ \A k \in 1 .. Len(stack) - 1 : Calls(stack[k], stack[k + 1])
        /\ \A k \in 1 .. Len(stack) : stack[k].fn = "basic_block" <=> k % 2 = 0
    BY DEF IInv, Stacked
  <2>2. stack'[1].fn = "func"
    BY <1>4, <2>1 DEF Kept
  <2>3. ASSUME NEW k \in 1 .. n PROVE Calls(stack'[k], stack'[k + 1])
    <3>1. Calls(stack[k], stack[k + 1]) /\ stack'[k] = stack[k]
      BY <1>4, <2>1 DEF Kept
    <3>2. CASE k < n
      BY <1>4, <3>1, <3>2 DEF Kept
    <3>3. CASE k = n
      BY <1>4, <3>1, <3>3 DEF Calls, IsTop
    <3> QED
      BY <3>2, <3>3
  <2>4. ASSUME NEW k \in 1 .. n + 1
        PROVE  stack'[k].fn = "basic_block" <=> k % 2 = 0
    <3>1. stack'[k].fn = "basic_block" <=> stack[k].fn = "basic_block"
      BY <1>4 DEF Kept
    <3> QED
      BY <1>4, <2>1, <3>1
  <2> QED
    BY <1>4, <2>2, <2>3, <2>4 DEF Stacked
<1>7. Owing(blocks', stack')
  <2>1. Above(stack', n) = Owed(g)
    BY <1>4 DEF Above
  <2>2. \A k, m \in n + 1 .. Len(stack') :
          k # m => Owed(stack'[k]) \cap Owed(stack'[m]) = {}
    BY <1>4
  <2>3. n \in 0 .. Len(stack) /\ n <= Len(stack')
    BY <1>4
  <2>4. Settled(blocks, blocks', Above(stack, n), Above(stack', n))
    BY <2>1 DEF Walked
  <2>5. Owing(blocks, stack)
    BY DEF IInv
  <2> QED
    BY <1>2, <1>3, <1>4, <2>2, <2>3, <2>4, <2>5, AccountKept, Zenon
<1>8. Clean(blocks')
  BY DEF Walked
<1>9. Running("basic_block")' => builder' = Frame'.last
  BY <1>4 DEF Running, Frame
<1> QED
  BY <1>5, <1>6, <1>7, <1>8, <1>9 DEF IInv

LEMMA TwoFrames ==
  ASSUME IInv, stack # <<>>,
         NEW n \in Nat, n >= 1, n <= Len(stack), NEW g, NEW h,
         PutsTwo(stack, stack', n, g, h),
         IsFrame(g, Len(blocks')), IsFrame(h, Len(blocks')),
         Calls(stack[n], g), Calls(g, h), h.fn = "basic_block",
         stack[n].fn = "basic_block", builder' = h.last,
         Owed(g) \cap Owed(h) = {},
         Walked(n, n + 2, Owed(g) \cup Owed(h))
  PROVE  IInv'
<1>1. /\ Len(blocks) \in Nat /\ Len(blocks') \in Nat /\ Len(src') \in Nat
      /\ MaxTokens \in Nat
  BY MaxTokensAssumption, SMTT(30) DEF IInv, Typed, Walked
<1>2. PICK S : stack \in Seq(S)
  BY DEF IInv, Typed
<1>3. PICK T : stack' \in Seq(T)
  BY DEF PutsTwo
<1>4. /\ Len(stack) \in Nat /\ DOMAIN stack = 1 .. Len(stack)
      /\ Len(stack') = n + 2 /\ DOMAIN stack' = 1 .. n + 2
      /\ stack'[n + 1] = g /\ stack'[n + 2] = h /\ Kept(stack, stack', n)
  BY <1>2 DEF PutsTwo
<1>5. Typed'
  <2>1. ASSUME NEW k \in DOMAIN stack' PROVE IsFrame(stack'[k], Len(blocks'))
    <3>1. CASE k \in {n + 1, n + 2}
      BY <1>4, <3>1
    <3>2. CASE k \in 1 .. n
      <4>1. IsFrame(stack[k], Len(blocks)) /\ stack'[k] = stack[k]
        BY <1>4, <3>2 DEF IInv, Typed, Kept
      <4> QED
        BY <1>1, <4>1, FrameGrows, Zenon DEF Walked
    <3> QED
      BY <1>4, <3>1, <3>2
  <2>2. Len(src') + (n + 2) \div 2 - 1 <= MaxTokens /\ (n + 2) \div 2 >= 1
    BY DEF Walked
  <2>3. Len(src') <= MaxTokens /\ Len(src') + (Len(stack') \div 2 - 1) <= MaxTokens
    BY <1>1, <1>4, <2>2
  <2> QED
    BY <1>3, <2>1, <2>3 DEF Walked, Typed, OpenBodies
<1>6. Stacked(stack')
  <2>1. /\ stack[1].fn = "func"
        /\ \A k \in 1 .. Len(stack) - 1 : Calls(stack[k], stack[k + 1])
        /\ \A k \in 1 .. Len(stack) : stack[k].fn = "basic_block" <=> k % 2 = 0
    BY DEF IInv, Stacked
  <2>2. stack'[1].fn = "func"
    BY <1>4, <2>1 DEF Kept
  <2>3. ASSUME NEW k \in 1 .. n + 1 PROVE Calls(stack'[k], stack'[k + 1])
    <3>1. CASE k < n
      <4>1. Calls(stack[k], stack[k + 1])
        BY <1>4, <2>1, <3>1
      <4> QED
        BY <1>4, <3>1, <4>1 DEF Kept
    <3>2. CASE k = n
      BY <1>4, <3>2 DEF Kept
    <3>3. CASE k = n + 1
      BY <1>4, <3>3
    <3> QED
      BY <3>1, <3>2, <3>3
  <2>4. n % 2 = 0 /\ g.fn # "basic_block"
    BY <1>4, <2>1 DEF Calls
  <2>5. ASSUME NEW k \in 1 .. n + 2
        PROVE  stack'[k].fn = "basic_block" <=> k % 2 = 0
    <3>1. CASE k \in 1 .. n
      BY <1>4, <2>1, <3>1 DEF Kept
    <3>2. CASE k = n + 1
      BY <1>4, <2>4, <3>2
    <3>3. CASE k = n + 2
      BY <1>4, <2>4, <3>3
    <3> QED
      BY <3>1, <3>2, <3>3
  <2>6. IsTop(h)
    BY DEF IsTop
  <2> QED
    BY <1>4, <2>2, <2>3, <2>5, <2>6 DEF Stacked
<1>7. Owing(blocks', stack')
  <2>1. Above(stack', n) = Owed(g) \cup Owed(h)
    <3>1. n + 1 .. Len(stack') = {n + 1, n + 2}
      BY <1>4
    <3> QED
      BY <1>4, <3>1 DEF Above
  <2>2. \A k, m \in n + 1 .. Len(stack') :
          k # m => Owed(stack'[k]) \cap Owed(stack'[m]) = {}
    <3>1. n + 1 .. Len(stack') = {n + 1, n + 2}
      BY <1>4
    <3> QED
      BY <1>4, <3>1
  <2>3. n \in 0 .. Len(stack) /\ n <= Len(stack')
    BY <1>4
  <2>4. Settled(blocks, blocks', Above(stack, n), Above(stack', n))
    BY <2>1 DEF Walked
  <2>5. Owing(blocks, stack)
    BY DEF IInv
  <2> QED
    BY <1>2, <1>3, <1>4, <2>2, <2>3, <2>4, <2>5, AccountKept, Zenon
<1>8. Clean(blocks')
  BY DEF Walked
<1>9. Running("basic_block")' => builder' = Frame'.last
  BY <1>4 DEF Running, Frame
<1> QED
  BY <1>5, <1>6, <1>7, <1>8, <1>9 DEF IInv

-----------------------------------------------------------------------------
(* Facts about the state that the actions need.                            *)

\* What the frames above place n owe.
LEMMA AboveFacts ==
  ASSUME NEW S, NEW st \in Seq(S)
  PROVE  /\ Above(st, Len(st)) = {}
         /\ Len(st) >= 1 => Above(st, Len(st) - 1) = Owed(st[Len(st)])
         /\ Len(st) >= 2 => Above(st, Len(st) - 2)
                              = Owed(st[Len(st) - 1]) \cup Owed(st[Len(st)])
         /\ Len(st) >= 3 => Above(st, Len(st) - 3)
                              = Owed(st[Len(st) - 2]) \cup Owed(st[Len(st) - 1])
                                  \cup Owed(st[Len(st)])
<1>1. Len(st) \in Nat
  OBVIOUS
<1>2. Above(st, Len(st)) = {}
  BY <1>1 DEF Above
<1>3. ASSUME Len(st) >= 1 PROVE Above(st, Len(st) - 1) = Owed(st[Len(st)])
  <2>1. (Len(st) - 1) + 1 .. Len(st) = {Len(st)}
    BY <1>1
  <2> QED
    BY <2>1 DEF Above
<1>4. ASSUME Len(st) >= 2
      PROVE  Above(st, Len(st) - 2) = Owed(st[Len(st) - 1]) \cup Owed(st[Len(st)])
  <2>1. (Len(st) - 2) + 1 .. Len(st) = {Len(st) - 1, Len(st)}
    BY <1>1, <1>4
  <2> QED
    BY <2>1 DEF Above
<1>5. ASSUME Len(st) >= 3
      PROVE  Above(st, Len(st) - 3)
               = Owed(st[Len(st) - 2]) \cup Owed(st[Len(st) - 1])
                   \cup Owed(st[Len(st)])
  <2>1. (Len(st) - 3) + 1 .. Len(st) = {Len(st) - 2, Len(st) - 1, Len(st)}
    BY <1>1, <1>5
  <2> QED
    BY <2>1 DEF Above
<1> QED
  BY <1>2, <1>3, <1>4, <1>5

\* Sizes, and that the stack of a function in progress is a sequence.
LEMMA StateFacts ==
  ASSUME IInv
  PROVE  /\ src \in Seq(Token) /\ Len(src) \in Nat
         /\ blocks \in Seq(Seq(Instruction(Len(src), Len(blocks))))
         /\ Len(blocks) \in Nat /\ DOMAIN blocks = 1 .. Len(blocks)
         /\ Len(stack) \in Nat /\ DOMAIN stack = 1 .. Len(stack)
         /\ \E S : stack \in Seq(S)
         /\ stack # <<>> => Len(stack) >= 2
<1>1. PICK S : stack \in Seq(S)
  BY DEF IInv, Typed
<1>2. Len(stack) \in Nat /\ DOMAIN stack = 1 .. Len(stack)
  BY <1>1
<1> QED
  BY <1>1, <1>2 DEF IInv, Typed, Stacked

LEMMA AboveIsBlocks ==
  ASSUME IInv, NEW n \in 0 .. Len(stack)
  PROVE  Above(stack, n) \subseteq DOMAIN blocks
<1>1. n + 1 .. Len(stack) \subseteq DOMAIN stack
  BY StateFacts
<1> QED
  BY <1>1 DEF Above, IInv, Owing

\* The frame on top and its caller.
LEMMA RunningFacts ==
  ASSUME IInv, stack # <<>>
  PROVE  /\ IsFrame(Frame, Len(blocks)) /\ IsTop(Frame)
         /\ IsFrame(Caller, Len(blocks)) /\ Calls(Caller, Frame)
         /\ Above(stack, Len(stack) - 1) = Owed(Frame)
         /\ Above(stack, Len(stack) - 2) = Owed(Caller) \cup Owed(Frame)
         /\ Owed(Caller) \cap Owed(Frame) = {}
         /\ Owed(Frame) \subseteq DOMAIN blocks
         /\ \A b \in Owed(Frame) : ~HasTerminator(blocks[b])
         /\ Owed(Caller) \subseteq DOMAIN blocks
         /\ \A b \in Owed(Caller) : ~HasTerminator(blocks[b])
<1>1. PICK S : stack \in Seq(S)
  BY StateFacts
<1>2. Len(stack) \in Nat /\ Len(stack) >= 2 /\ DOMAIN stack = 1 .. Len(stack)
  BY StateFacts
<1>3. Len(stack) \in DOMAIN stack /\ Len(stack) - 1 \in DOMAIN stack
      /\ Len(stack) - 1 \in 1 .. Len(stack) - 1
      /\ (Len(stack) - 1) + 1 = Len(stack)
  BY <1>2
<1>4. /\ IsFrame(Frame, Len(blocks)) /\ IsTop(Frame)
      /\ IsFrame(Caller, Len(blocks)) /\ Calls(Caller, Frame)
  <2>1. Calls(stack[Len(stack) - 1], stack[(Len(stack) - 1) + 1])
    BY <1>3 DEF IInv, Stacked
  <2> QED
    BY <1>3, <2>1 DEF IInv, Typed, Stacked, Frame, Caller
<1>5. /\ Above(stack, Len(stack) - 1) = Owed(Frame)
      /\ Above(stack, Len(stack) - 2) = Owed(Caller) \cup Owed(Frame)
  BY <1>1, <1>2, AboveFacts DEF Frame, Caller
<1>6. /\ Owed(Caller) \cap Owed(Frame) = {}
      /\ Owed(Frame) \subseteq DOMAIN blocks
      /\ \A b \in Owed(Frame) : ~HasTerminator(blocks[b])
      /\ Owed(Caller) \subseteq DOMAIN blocks
      /\ \A b \in Owed(Caller) : ~HasTerminator(blocks[b])
  BY <1>2, <1>3 DEF IInv, Owing, Frame, Caller
<1> QED
  BY <1>4, <1>5, <1>6

\* While statements are walked the builder is in the open end of the block.
LEMMA BodyFacts ==
  ASSUME IInv, Running("basic_block")
  PROVE  /\ stack # <<>> /\ IsBody(Frame, Len(blocks))
         /\ Owed(Frame) = {Frame.last} /\ Frame.fn = "basic_block"
         /\ builder = Frame.last /\ builder \in DOMAIN blocks
         /\ ~HasTerminator(blocks[builder])
<1>1. stack # <<>> /\ Frame.fn = "basic_block"
  BY DEF Running, Frame
<1>2. IsBody(Frame, Len(blocks)) /\ Owed(Frame) = {Frame.last}
  BY <1>1, RunningFacts, FrameKinds, OwedFacts
<1>3. builder = Frame.last
  BY DEF IInv
<1> QED
  BY <1>1, <1>2, <1>3, RunningFacts

\* The frame below the caller of an open body: impl_basic_block.
LEMMA EnclosingFacts ==
  ASSUME IInv, Running("basic_block"), Caller.fn \in {"while", "branch"}
  PROVE  LET f == stack[Len(stack) - 2] IN
         /\ Len(stack) >= 4
         /\ IsBody(f, Len(blocks)) /\ Owed(f) = {f.last} /\ f.fn = "basic_block"
         /\ Owed(f) \cap Owed(Caller) = {} /\ Owed(f) \cap Owed(Frame) = {}
         /\ f.last \in DOMAIN blocks /\ ~HasTerminator(blocks[f.last])
         /\ Above(stack, Len(stack) - 3) = {f.last} \cup Owed(Caller) \cup Owed(Frame)
<1> DEFINE f == stack[Len(stack) - 2]
<1>1. PICK S : stack \in Seq(S)
  BY StateFacts
<1>2. Len(stack) \in Nat /\ Len(stack) >= 2 /\ DOMAIN stack = 1 .. Len(stack)
  BY BodyFacts, StateFacts
<1>3. Stacked(stack) /\ Frame.fn = "basic_block"
  BY BodyFacts DEF IInv
<1>4. Len(stack) >= 4
  <2>1. Len(stack) % 2 = 0
    <3>1. \A k \in 1 .. Len(stack) : stack[k].fn = "basic_block" <=> k % 2 = 0
      BY <1>3 DEF Stacked
    <3>2. Len(stack) \in 1 .. Len(stack) /\ stack[Len(stack)].fn = "basic_block"
      BY <1>2, <1>3 DEF Frame
    <3> QED
      BY <3>1, <3>2
  <2>2. Len(stack) # 2
    BY <1>3 DEF Stacked, Caller
  <2> QED
    BY <1>2, <2>1, <2>2
<1>5. Len(stack) - 2 \in DOMAIN stack /\ Len(stack) - 2 \in 1 .. Len(stack) - 1
      /\ (Len(stack) - 2) + 1 = Len(stack) - 1
  BY <1>2, <1>4
<1>6. Calls(f, Caller)
  <2>1. Calls(stack[Len(stack) - 2], stack[(Len(stack) - 2) + 1])
    BY <1>3, <1>5 DEF Stacked
  <2> QED
    BY <1>5, <2>1 DEF Caller
<1>7. f.fn = "basic_block"
  BY <1>6 DEF Calls
<1>8. IsFrame(f, Len(blocks))
  BY <1>5 DEF IInv, Typed
<1>9. IsBody(f, Len(blocks)) /\ Owed(f) = {f.last}
  BY <1>7, <1>8, FrameKinds, OwedFacts
<1>10. Owed(f) \cap Owed(Caller) = {} /\ Owed(f) \cap Owed(Frame) = {}
       /\ \A b \in Owed(f) : b \in DOMAIN blocks /\ ~HasTerminator(blocks[b])
  BY <1>2, <1>4, <1>5, SMTT(30) DEF IInv, Owing, Caller, Frame
<1>11. Above(stack, Len(stack) - 3) = Owed(f) \cup Owed(Caller) \cup Owed(Frame)
  BY <1>1, <1>4, AboveFacts DEF Caller, Frame
<1> QED
  BY <1>4, <1>7, <1>9, <1>10, <1>11

LEMMA SourceGrows ==
  ASSUME IInv, NEW t \in Token, src' = Append(src, t)
  PROVE  src' \in Seq(Token) /\ Len(src') = Len(src) + 1
BY StateFacts

-----------------------------------------------------------------------------
(* The rest of a turn of impl_basic_block.                                 *)

LEMMA BodyMoves ==
  ASSUME NEW N \in Nat, NEW M \in Nat, N <= M, NEW f, IsBody(f, N),
         NEW end \in 1 .. M
  PROVE  /\ IsBody([f EXCEPT !.last = end], M)
         /\ [f EXCEPT !.last = end].last = end
<1>1. f.start \in 1 .. M
  BY DEF IsBody
<1> QED
  BY <1>1 DEF IsBody

LEMMA AfterSimpleInv ==
  ASSUME IInv, Running("basic_block"), Room(1), NEW t \in Token,
         src' = Append(src, t),
         NEW ins \in Instruction(Len(src) + 1, Len(blocks)),
         AfterSimple(Emit(blocks, builder, ins), Frame)
  PROVE  IInv'
<1> DEFINE I  == Instruction(Len(src) + 1, Len(blocks))
           bs == Emit(blocks, builder, ins)
           n  == Len(stack) - 1
<1>1. /\ Len(src) \in Nat /\ Len(blocks) \in Nat /\ Len(stack) \in Nat
      /\ Len(stack) >= 2 /\ stack # <<>> /\ n \in Nat /\ n >= 1 /\ n < Len(stack)
      /\ n + 1 = Len(stack) /\ DOMAIN blocks = 1 .. Len(blocks)
  BY StateFacts, BodyFacts
<1>2. PICK S : stack \in Seq(S)
  BY StateFacts
<1>3. /\ IsBody(Frame, Len(blocks)) /\ Owed(Frame) = {Frame.last}
      /\ Frame.fn = "basic_block" /\ builder = Frame.last
      /\ builder \in DOMAIN blocks /\ ~HasTerminator(blocks[builder])
      /\ Above(stack, n) = {builder}
  BY BodyFacts, RunningFacts
<1>4. src' \in Seq(Token) /\ Len(src') = Len(src) + 1
  BY SourceGrows
<1>5. blocks \in Seq(Seq(I))
  BY <1>1, StateFacts, BlocksGrow
<1>6. /\ bs \in Seq(Seq(I)) /\ Len(bs) = Len(blocks) /\ DOMAIN bs = DOMAIN blocks
      /\ \A a \in DOMAIN blocks \ {builder} : bs[a] = blocks[a]
      /\ HasTerminator(bs[builder]) <=> IsTerminator(ins)
      /\ Clean(bs)
  <2> HIDE DEF I
  <2>1. ins \in I
    BY DEF I
  <2> QED
    BY <1>3, <1>5, <2>1, EmitFacts DEF IInv
<1>7. Len(src') + (n + 1) \div 2 - 1 <= MaxTokens
  BY <1>1, <1>4, MaxTokensAssumption DEF Room, OpenBodies
<1> HIDE DEF bs, I
<1>8. CASE ~IsTerminator(ins)
  <2>1. blocks' = bs /\ builder' = builder /\ stack' = stack
    BY <1>3, <1>6, <1>8 DEF AfterSimple, bs
  <2>2. Puts(stack, stack', n, Frame)
    BY <1>1, <1>2, <2>1 DEF Puts, Kept, Frame
  <2>3. Settled(blocks, blocks', Above(stack, n), Owed(Frame))
    BY <1>3, <1>6, <1>8, <2>1 DEF Settled
  <2>4. Walked(n, n + 1, Owed(Frame))
    BY <1>1, <1>3, <1>4, <1>6, <1>7, <2>1, <2>3 DEF Walked, I
  <2>5. IsFrame(Frame, Len(blocks')) /\ IsTop(Frame)
    BY <1>1, <1>6, <2>1, RunningFacts
  <2> QED
    BY <1>1, <1>3, <2>1, <2>2, <2>4, <2>5, OneFrame DEF Frame
<1>9. CASE IsTerminator(ins)
  <2> DEFINE g == [Frame EXCEPT !.last = Len(bs) + 1]
             J == Instruction(Len(src) + 1, Len(blocks) + 1)
  <2>1. /\ blocks' = Append(bs, <<>>)
        /\ builder' = Len(bs) + 1
        /\ stack' = Append(SubSeq(stack, 1, n), g)
    BY <1>3, <1>6, <1>9 DEF AfterSimple, bs, AppendBlock, Pop
  <2>2. IsBody(g, Len(blocks) + 1) /\ g.last = Len(blocks) + 1
    <3>1. /\ Len(bs) + 1 = Len(blocks) + 1
          /\ Len(blocks) + 1 \in Nat /\ Len(blocks) <= Len(blocks) + 1
          /\ Len(bs) + 1 \in 1 .. Len(blocks) + 1
      BY <1>1, <1>6
    <3>2. IsBody(g, Len(blocks) + 1) /\ g.last = Len(bs) + 1
      BY <1>1, <1>3, <3>1 DEF IsBody
    <3> QED
      BY <3>1, <3>2
  <2> HIDE DEF g
  <2>3. Owed(g) = {Len(blocks) + 1} /\ g.fn = "basic_block" /\ IsTop(g)
    BY <2>2, OwedFacts DEF IsTop
  <2>4. bs \in Seq(Seq(J)) /\ <<>> \in Seq(J) /\ Len(<<>>) <= 1
    <3>1. /\ Len(src) + 1 \in Nat /\ Len(src) + 1 <= Len(src) + 1
          /\ Len(blocks) \in Nat /\ Len(blocks) + 1 \in Nat /\ Len(blocks) <= Len(blocks) + 1
      BY <1>1
    <3>2. bs \in Seq(Seq(Instruction(Len(src) + 1, Len(blocks))))
      BY <1>6 DEF I
    <3> HIDE DEF bs
    <3>3. bs \in Seq(Seq(J))
      BY <3>1, <3>2, BlocksGrow, SMTT(30) DEF J
    <3> QED
      BY <3>3
  <2> HIDE DEF J
  <2>5. /\ blocks' \in Seq(Seq(J)) /\ Len(blocks') = Len(blocks) + 1
        /\ DOMAIN blocks' = DOMAIN blocks \cup {Len(blocks) + 1}
        /\ Len(blocks) + 1 \notin DOMAIN blocks
        /\ \A a \in DOMAIN blocks : blocks'[a] = bs[a]
        /\ blocks'[Len(blocks) + 1] = <<>>
        /\ Clean(blocks')
    <3>1. /\ Append(bs, <<>>) \in Seq(Seq(J))
          /\ Len(Append(bs, <<>>)) = Len(bs) + 1
          /\ DOMAIN Append(bs, <<>>) = DOMAIN bs \cup {Len(bs) + 1}
          /\ Len(bs) + 1 \notin DOMAIN bs
          /\ \A a \in DOMAIN bs : Append(bs, <<>>)[a] = bs[a]
          /\ Append(bs, <<>>)[Len(bs) + 1] = <<>>
          /\ Clean(bs) => Clean(Append(bs, <<>>))
      BY <2>4, NewBlockFacts, Zenon
    <3> QED
      BY <1>6, <2>1, <3>1
  <2>6. ~HasTerminator(blocks'[Len(blocks) + 1])
    BY <2>5 DEF HasTerminator
  <2>7. Settled(blocks, blocks', Above(stack, n), Owed(g))
    BY <1>3, <1>6, <1>9, <2>3, <2>5, <2>6 DEF Settled
  <2>8. Walked(n, n + 1, Owed(g))
    BY <1>1, <1>4, <1>6, <1>7, <2>1, <2>5, <2>7 DEF Walked, J
  <2>9. Puts(stack, stack', n, g)
    BY <1>1, <1>2, <2>1, PutsFacts
  <2>10. IsFrame(g, Len(blocks')) /\ builder' = g.last
    BY <1>6, <2>1, <2>2, <2>5 DEF IsFrame
  <2> QED
    BY <1>1, <1>3, <2>3, <2>8, <2>9, <2>10, OneFrame DEF Frame
<1> QED
  BY <1>8, <1>9

\* After a statement that made the blocks bs, of which the frame f at n + 1
\* can go on at end: of what the top of the stack owed only f.last and end
\* are open.
Joins(n, f, bs, start, end) ==
  /\ n >= 1 /\ n < Len(stack) /\ f = stack[n + 1]
  /\ IsBody(f, Len(blocks)) /\ f.fn = "basic_block"
  /\ Len(bs) \in Nat /\ Len(blocks) <= Len(bs) /\ Clean(bs)
  /\ bs \in Seq(Seq(Instruction(Len(src'), Len(bs))))
  /\ start \in 1 .. Len(bs) /\ end \in 1 .. Len(bs)
  /\ f.last \in DOMAIN blocks /\ end # f.last
  /\ Settled(blocks, bs, Above(stack, n), {f.last, end})
  /\ src' \in Seq(Token) /\ Len(src') + (n + 1) \div 2 - 1 <= MaxTokens

LEMMA AfterBlocksInv ==
  ASSUME IInv, NEW n \in Nat, NEW f, NEW bs, NEW start, NEW end,
         Joins(n, f, bs, start, end),
         AfterBlocks(bs, f, SubSeq(stack, 1, n), start, end)
  PROVE  IInv'
<1> DEFINE I == Instruction(Len(src'), Len(bs))
           g == [f EXCEPT !.last = end]
           x == f.last
<1>1. /\ Len(blocks) \in Nat /\ DOMAIN blocks = 1 .. Len(blocks)
      /\ Len(stack) \in Nat /\ stack # <<>>
      /\ n >= 1 /\ n < Len(stack) /\ n \in 0 .. Len(stack)
      /\ Len(bs) \in Nat /\ Len(blocks) <= Len(bs) /\ DOMAIN bs = 1 .. Len(bs)
  BY StateFacts, SMTT(30) DEF Joins
<1>2. PICK S : stack \in Seq(S)
  BY StateFacts
<1>3. /\ x \in DOMAIN bs /\ ~HasTerminator(bs[x]) /\ x # end
      /\ x \in DOMAIN blocks /\ end \in 1 .. Len(bs) /\ end \in DOMAIN bs
      /\ Settled(blocks, bs, Above(stack, n), {x, end})
      /\ IsBody(f, Len(blocks)) /\ f.fn = "basic_block"
  <2>1. Settled(blocks, bs, Above(stack, n), {x, end}) /\ x \in DOMAIN blocks
    BY DEF Joins
  <2>2. x \in DOMAIN bs /\ ~HasTerminator(bs[x])
    BY <2>1 DEF Settled
  <2> QED
    BY <1>1, <2>1, <2>2 DEF Joins
<1>4. /\ blocks' = Emit(bs, x, Br(start))
      /\ builder' = end
      /\ stack' = Append(SubSeq(stack, 1, n), g)
  BY <1>3 DEF AfterBlocks
<1>5. Br(start) \in I /\ IsTerminator(Br(start)) /\ bs \in Seq(Seq(I)) /\ Clean(bs)
  BY DEF Instruction, Br, IsTerminator, Joins
<1> HIDE DEF I, x
<1>6. /\ Emit(bs, x, Br(start)) \in Seq(Seq(I))
      /\ Len(Emit(bs, x, Br(start))) = Len(bs)
      /\ DOMAIN Emit(bs, x, Br(start)) = DOMAIN bs
      /\ \A a \in DOMAIN bs \ {x} : Emit(bs, x, Br(start))[a] = bs[a]
      /\ HasTerminator(Emit(bs, x, Br(start))[x])
      /\ Clean(Emit(bs, x, Br(start)))
  BY <1>3, <1>5, EmitFacts
<1>7. IsBody(g, Len(bs)) /\ g.last = end
  BY <1>1, <1>3, BodyMoves
<1> HIDE DEF g
<1>8. Owed(g) = {end} /\ g.fn = "basic_block" /\ IsTop(g)
  BY <1>7, OwedFacts DEF IsTop
<1>9. Settled(blocks, blocks', Above(stack, n), Owed(g))
  <2>1. /\ DOMAIN blocks' = DOMAIN bs /\ HasTerminator(blocks'[x])
        /\ \A a \in DOMAIN bs \ {x} : blocks'[a] = bs[a]
    BY <1>4, <1>6
  <2>2. x \in Above(stack, n)
    BY <1>3 DEF Settled
  <2>3. Above(stack, n) \subseteq DOMAIN blocks
    BY <1>1, AboveIsBlocks
  <2> QED
    BY <1>3, <1>8, <2>1, <2>2, <2>3 DEF Settled
<1>10. Walked(n, n + 1, Owed(g))
  BY <1>1, <1>3, <1>4, <1>6, <1>9 DEF Walked, I, Joins
<1>11. Puts(stack, stack', n, g)
  BY <1>1, <1>2, <1>4, PutsFacts, Zenon
<1>12. IsFrame(g, Len(blocks')) /\ builder' = g.last
  BY <1>4, <1>6, <1>7 DEF IsFrame
<1>13. stack[n + 1].fn = "basic_block"
  BY <1>3 DEF Joins
<1> QED
  BY <1>1, <1>8, <1>10, <1>11, <1>12, <1>13, OneFrame

-----------------------------------------------------------------------------
(* The actions.                                                            *)

\* impl_func_def before the body.
LEMMA InitIInv == Init => IInv
<1> SUFFICES ASSUME Init PROVE IInv
  OBVIOUS
<1> DEFINE f == FuncFrame(1)
           g == BasicBlockFrame(2)
<1>1. /\ Len(src) = 0 /\ src \in Seq(Token)
      /\ blocks \in Seq(Seq(Instruction(0, 2))) /\ Len(blocks) = 2
      /\ DOMAIN blocks = {1, 2}
      /\ \A b \in {1, 2} : blocks[b] = <<>>
      /\ builder = 2
  BY DEF Init
<1>2. IsFunc(f, 2) /\ IsBody(g, 2) /\ g.last = 2 /\ f.entry = 1
  BY DEF IsFunc, IsBody, FuncFrame, BasicBlockFrame
<1> HIDE DEF f, g
<1>3. /\ stack \in Seq({f, g}) /\ Len(stack) = 2 /\ DOMAIN stack = 1 .. 2
      /\ stack[1] = f /\ stack[2] = g
  BY DEF Init, f, g
<1>4. Owed(f) = {1} /\ f.fn = "func" /\ Owed(g) = {2} /\ g.fn = "basic_block"
  BY <1>2, OwedFacts
<1>5. Typed
  <2>1. \A k \in DOMAIN stack : IsFrame(stack[k], Len(blocks))
    BY <1>1, <1>2, <1>3 DEF IsFrame
  <2>2. OpenBodies = 0
    BY <1>3 DEF OpenBodies
  <2>3. 0 <= MaxTokens /\ 0 + 0 <= MaxTokens
    BY MaxTokensAssumption
  <2> QED
    BY <1>1, <1>3, <2>1, <2>2, <2>3 DEF Typed
<1>6. Clean(blocks)
  BY <1>1 DEF Clean
<1>7. Stacked(stack)
  <2>1. Calls(f, g) /\ IsTop(g)
    BY <1>4 DEF Calls, IsTop
  <2>2. \A k \in 1 .. 2 : stack[k].fn = "basic_block" <=> k % 2 = 0
    BY <1>3, <1>4
  <2> QED
    BY <1>3, <1>4, <2>1, <2>2 DEF Stacked
<1>8. Owing(blocks, stack)
  <2>1. DOMAIN stack = {1, 2}
    BY <1>3
  <2> QED
    BY <1>1, <1>3, <1>4, <2>1 DEF Owing, HasTerminator
<1>9. Running("basic_block") => builder = Frame.last
  BY <1>1, <1>2, <1>3 DEF Frame
<1> QED
  BY <1>5, <1>6, <1>7, <1>8, <1>9 DEF IInv

LEMMA SimpleStatementInv == IInv /\ SimpleStatement => IInv'
<1> SUFFICES ASSUME IInv, SimpleStatement PROVE IInv'
  OBVIOUS
<1>1. Eval(Len(src) + 1) \in Instruction(Len(src) + 1, Len(blocks))
  BY StateFacts DEF Eval, Instruction
<1>2. "stmt" \in Token
  BY DEF Token
<1> QED
  BY <1>1, <1>2, AfterSimpleInv DEF SimpleStatement

LEMMA ReturnStatementInv == IInv /\ ReturnStatement => IInv'
<1> SUFFICES ASSUME IInv, ReturnStatement PROVE IInv'
  OBVIOUS
<1>1. Ret(Len(src) + 1) \in Instruction(Len(src) + 1, Len(blocks))
  BY StateFacts DEF Ret, Instruction
<1>2. "return" \in Token
  BY DEF Token
<1> QED
  BY <1>1, <1>2, AfterSimpleInv DEF ReturnStatement

-----------------------------------------------------------------------------
(* The actions that open a body.                                           *)

LEMMA CondAndBodyFacts ==
  ASSUME NEW S, NEW bs \in Seq(Seq(S)), NEW i, Eval(i) \in S
  PROVE  /\ CondAndBody(bs, i) \in Seq(Seq(S))
         /\ Len(CondAndBody(bs, i)) = Len(bs) + 2
         /\ DOMAIN CondAndBody(bs, i) = DOMAIN bs \cup {Len(bs) + 1, Len(bs) + 2}
         /\ \A a \in DOMAIN bs : CondAndBody(bs, i)[a] = bs[a]
         /\ ~HasTerminator(CondAndBody(bs, i)[Len(bs) + 1])
         /\ ~HasTerminator(CondAndBody(bs, i)[Len(bs) + 2])
         /\ Clean(bs) => Clean(CondAndBody(bs, i))
<1> DEFINE c   == <<Eval(i)>>
           mid == Append(bs, c)
           e   == <<>>
           cs  == Append(mid, e)
<1>1. Len(bs) \in Nat /\ DOMAIN bs = 1 .. Len(bs)
  OBVIOUS
<1>2. c \in Seq(S) /\ Len(c) <= 1 /\ e \in Seq(S) /\ Len(e) <= 1
  OBVIOUS
<1>3. ~HasTerminator(c) /\ ~HasTerminator(e)
  BY DEF HasTerminator, IsTerminator, Eval
<1>4. CondAndBody(bs, i) = cs
  BY DEF CondAndBody
<1> HIDE DEF c, e
<1>5. /\ mid \in Seq(Seq(S)) /\ Len(mid) = Len(bs) + 1
      /\ DOMAIN mid = DOMAIN bs \cup {Len(bs) + 1}
      /\ \A a \in DOMAIN bs : mid[a] = bs[a]
      /\ mid[Len(bs) + 1] = c
      /\ Clean(bs) => Clean(mid)
  BY <1>2, NewBlockFacts
<1> HIDE DEF mid
<1>6. /\ cs \in Seq(Seq(S)) /\ Len(cs) = Len(mid) + 1
      /\ DOMAIN cs = DOMAIN mid \cup {Len(mid) + 1}
      /\ \A a \in DOMAIN mid : cs[a] = mid[a]
      /\ cs[Len(mid) + 1] = e
      /\ Clean(mid) => Clean(cs)
  BY <1>2, <1>5, NewBlockFacts
<1> HIDE DEF cs
<1>7. Len(mid) + 1 = Len(bs) + 2
  BY <1>1, <1>5
<1>8. cs[Len(bs) + 1] = c /\ cs[Len(bs) + 2] = e
  BY <1>5, <1>6, <1>7
<1>9. DOMAIN cs = DOMAIN bs \cup {Len(bs) + 1, Len(bs) + 2}
      /\ \A a \in DOMAIN bs : cs[a] = bs[a]
  BY <1>5, <1>6, <1>7
<1> QED
  BY <1>3, <1>4, <1>5, <1>6, <1>7, <1>8, <1>9

\* A condition and the body it guards: g is the frame of the caller, at n + 1,
\* which owes the condition from now on.
LEMMA OpenBodyInv ==
  ASSUME IInv, stack # <<>>, Room(3), NEW t \in Token, src' = Append(src, t),
         NEW cond, cond = Len(blocks) + 1,
         blocks' = CondAndBody(blocks, Len(src) + 1), builder' = cond + 1,
         NEW n \in Nat, n >= 1, n <= Len(stack), stack[n].fn = "basic_block",
         NEW g, PutsTwo(stack, stack', n, g, BasicBlockFrame(cond + 1)),
         IsFrame(g, cond + 1), Calls(stack[n], g),
         Calls(g, BasicBlockFrame(cond + 1)),
         Owed(g) = Above(stack, n) \cup {cond}
  PROVE  IInv'
<1> DEFINE h == BasicBlockFrame(cond + 1)
           J == Instruction(Len(src) + 1, Len(blocks) + 2)
<1>1. /\ Len(src) \in Nat /\ Len(blocks) \in Nat /\ Len(stack) \in Nat
      /\ DOMAIN blocks = 1 .. Len(blocks)
      /\ src' \in Seq(Token) /\ Len(src') = Len(src) + 1
  BY StateFacts, SourceGrows
<1>2. blocks \in Seq(Seq(J)) /\ Eval(Len(src) + 1) \in J
  <2>1. blocks \in Seq(Seq(J))
    BY <1>1, StateFacts, BlocksGrow, SMTT(30)
  <2>2. Eval(Len(src) + 1) \in J
    BY <1>1 DEF Instruction, Eval
  <2> QED
    BY <2>1, <2>2
<1> HIDE DEF J
<1>3. /\ blocks' \in Seq(Seq(J)) /\ Len(blocks') = Len(blocks) + 2
      /\ DOMAIN blocks' = DOMAIN blocks \cup {Len(blocks) + 1, Len(blocks) + 2}
      /\ \A a \in DOMAIN blocks : blocks'[a] = blocks[a]
      /\ ~HasTerminator(blocks'[Len(blocks) + 1])
      /\ ~HasTerminator(blocks'[Len(blocks) + 2])
      /\ Clean(blocks')
  <2>1. Clean(blocks)
    BY DEF IInv
  <2> DEFINE i == Len(src) + 1
  <2>2. Eval(i) \in J /\ blocks' = CondAndBody(blocks, i)
    BY <1>2
  <2> HIDE DEF i
  <2>3. /\ CondAndBody(blocks, i) \in Seq(Seq(J))
        /\ Len(CondAndBody(blocks, i)) = Len(blocks) + 2
        /\ DOMAIN CondAndBody(blocks, i)
             = DOMAIN blocks \cup {Len(blocks) + 1, Len(blocks) + 2}
        /\ \A a \in DOMAIN blocks : CondAndBody(blocks, i)[a] = blocks[a]
        /\ ~HasTerminator(CondAndBody(blocks, i)[Len(blocks) + 1])
        /\ ~HasTerminator(CondAndBody(blocks, i)[Len(blocks) + 2])
        /\ Clean(blocks) => Clean(CondAndBody(blocks, i))
    BY <1>2, <2>2, CondAndBodyFacts, Zenon
  <2> QED
    BY <2>1, <2>2, <2>3
<1>4. IsBody(h, cond + 1) /\ h.last = cond + 1 /\ h.fn = "basic_block"
      /\ Owed(h) = {cond + 1}
  <2>1. IsBody(h, cond + 1) /\ h.last = cond + 1
    BY <1>1 DEF IsBody, BasicBlockFrame
  <2> QED
    BY <2>1, OwedFacts
<1> HIDE DEF h
<1>5. /\ Above(stack, n) \subseteq DOMAIN blocks
      /\ \A b \in Above(stack, n) : ~HasTerminator(blocks[b])
  BY <1>1, StateFacts, SMTT(30) DEF Above, IInv, Owing
<1>6. Settled(blocks, blocks', Above(stack, n), Owed(g) \cup Owed(h))
  <2>1. cond \notin DOMAIN blocks /\ cond + 1 \notin DOMAIN blocks
        /\ DOMAIN blocks' = DOMAIN blocks \cup {cond, cond + 1}
        /\ ~HasTerminator(blocks'[cond]) /\ ~HasTerminator(blocks'[cond + 1])
    BY <1>1, <1>3
  <2> QED
    BY <1>3, <1>4, <1>5, <2>1 DEF Settled
<1>7. Len(src') + (n + 2) \div 2 - 1 <= MaxTokens
  BY <1>1, MaxTokensAssumption DEF Room, OpenBodies
<1>8. Walked(n, n + 2, Owed(g) \cup Owed(h))
  BY <1>1, <1>3, <1>6, <1>7, SMTT(30) DEF Walked, J
<1>9. Owed(g) \cap Owed(h) = {}
  BY <1>1, <1>4, <1>5
<1>10. IsFrame(g, Len(blocks')) /\ IsFrame(h, Len(blocks'))
  BY <1>3, <1>4 DEF IsFrame
<1> QED
  BY <1>4, <1>8, <1>9, <1>10, TwoFrames DEF h

LEMMA BeginWhileInv == IInv /\ BeginWhile => IInv'
<1> SUFFICES ASSUME IInv, BeginWhile PROVE IInv'
  OBVIOUS
<1> DEFINE cond == Len(blocks) + 1
           g    == WhileFrame(cond)
<1>1. /\ Running("basic_block") /\ Room(3) /\ src' = Append(src, "while")
      /\ blocks' = CondAndBody(blocks, Len(src) + 1) /\ builder' = cond + 1
      /\ stack' = stack \o <<g, BasicBlockFrame(cond + 1)>>
  BY DEF BeginWhile
<1>2. /\ stack # <<>> /\ Len(blocks) \in Nat /\ Len(stack) \in Nat
      /\ Len(stack) >= 1 /\ stack[Len(stack)].fn = "basic_block"
  BY <1>1, BodyFacts, StateFacts DEF Frame
<1>3. IsWhile(g, cond + 1) /\ Owed(g) = {cond} /\ g.fn = "while"
  <2>1. IsWhile(g, cond + 1) /\ g.cond = cond
    BY <1>2 DEF IsWhile, WhileFrame
  <2> QED
    BY <2>1, OwedFacts
<1>4. PutsTwo(stack, stack', Len(stack), g, BasicBlockFrame(cond + 1))
      /\ Above(stack, Len(stack)) = {}
  BY <1>1, StateFacts, PushFacts, AboveFacts, Zenon
<1>5. /\ Calls(stack[Len(stack)], g) /\ Calls(g, BasicBlockFrame(cond + 1))
      /\ IsFrame(g, cond + 1)
  BY <1>2, <1>3 DEF Calls, BasicBlockFrame, IsFrame
<1>6. "while" \in Token
  BY DEF Token, Opening
<1>7. Owed(g) = Above(stack, Len(stack)) \cup {cond} /\ Len(stack) <= Len(stack)
  BY <1>2, <1>3, <1>4
<1> HIDE DEF g
<1> QED
  BY <1>1, <1>2, <1>4, <1>5, <1>6, <1>7, OpenBodyInv, Zenon

LEMMA BeginBranchInv == IInv /\ BeginBranch => IInv'
<1> SUFFICES ASSUME IInv, BeginBranch PROVE IInv'
  OBVIOUS
<1> DEFINE cond == Len(blocks) + 1
           g    == BranchFrame(cond)
<1>1. /\ Running("basic_block") /\ Room(3) /\ src' = Append(src, "if")
      /\ blocks' = CondAndBody(blocks, Len(src) + 1) /\ builder' = cond + 1
      /\ stack' = stack \o <<g, BasicBlockFrame(cond + 1)>>
  BY DEF BeginBranch
<1>2. /\ stack # <<>> /\ Len(blocks) \in Nat /\ Len(stack) \in Nat
      /\ Len(stack) >= 1 /\ stack[Len(stack)].fn = "basic_block"
  BY <1>1, BodyFacts, StateFacts DEF Frame
<1>3. IsBranch(g, cond + 1) /\ Owed(g) = {cond} /\ g.fn = "branch" /\ ArmIsOpen(g)
  <2>1. /\ g.fn = "branch" /\ g.conds = <<cond>> /\ g.starts = <<>>
        /\ g.ends = <<>> /\ g.orElse = 0
        /\ g \in [fn : {"branch"}, conds : Seq(1 .. cond + 1),
                  starts : Seq(1 .. cond + 1), ends : Seq(1 .. cond + 1),
                  orElse : 0 .. cond + 1]
    BY <1>2 DEF BranchFrame
  <2> HIDE DEF g
  <2>2. IsBranch(g, cond + 1)
    BY <2>1 DEF IsBranch, Separate
  <2>3. Owed(g) = {cond}
    <3>1. Entries(<<cond>>) = {cond} /\ Entries(<<>>) = {}
      BY DEF Entries
    <3> QED
      BY <2>1, <2>2, <3>1, OwedFacts
  <2> QED
    BY <2>1, <2>2, <2>3 DEF ArmIsOpen
<1>4. PutsTwo(stack, stack', Len(stack), g, BasicBlockFrame(cond + 1))
      /\ Above(stack, Len(stack)) = {}
  BY <1>1, StateFacts, PushFacts, AboveFacts, Zenon
<1>5. /\ Calls(stack[Len(stack)], g) /\ Calls(g, BasicBlockFrame(cond + 1))
      /\ IsFrame(g, cond + 1)
  BY <1>2, <1>3 DEF Calls, BasicBlockFrame, IsFrame
<1>6. "if" \in Token
  BY DEF Token, Opening
<1>7. Owed(g) = Above(stack, Len(stack)) \cup {cond} /\ Len(stack) <= Len(stack)
  BY <1>2, <1>3, <1>4
<1> HIDE DEF g
<1> QED
  BY <1>1, <1>2, <1>4, <1>5, <1>6, <1>7, OpenBodyInv, Zenon

-----------------------------------------------------------------------------
(* The frame of impl_branch.                                               *)

\* The record and its sequences.
LEMMA BranchRecord ==
  ASSUME NEW f, NEW N \in Nat, NEW M \in Nat, N <= M, IsBranch(f, N)
  PROVE  /\ f \in [fn : {"branch"}, conds : Seq(1 .. M), starts : Seq(1 .. M),
                   ends : Seq(1 .. M), orElse : 0 .. M]
         /\ Len(f.conds) \in Nat /\ DOMAIN f.conds = 1 .. Len(f.conds)
         /\ Len(f.ends) \in Nat /\ DOMAIN f.ends = 1 .. Len(f.ends)
         /\ Len(f.starts) = Len(f.ends) /\ Len(f.conds) >= 1
         /\ Separate(f.conds, f.ends)
         /\ Owed(f) = Entries(f.conds) \cup Entries(f.ends)
         /\ Owed(f) \subseteq 1 .. N
<1>1. Seq(1 .. N) \subseteq Seq(1 .. M)
  <2>1. 1 .. N \subseteq 1 .. M
    OBVIOUS
  <2> QED
    BY <2>1, SeqGrows, Zenon
<1>2. f \in [fn : {"branch"}, conds : Seq(1 .. N), starts : Seq(1 .. N),
             ends : Seq(1 .. N), orElse : 0 .. N]
  BY DEF IsBranch
<1>3. f.conds \in Seq(1 .. N) /\ f.ends \in Seq(1 .. N) /\ f.starts \in Seq(1 .. N)
  BY <1>2
<1>4. Len(f.conds) >= 1
  BY <1>3 DEF IsBranch
<1>5. Owed(f) = Entries(f.conds) \cup Entries(f.ends)
  BY OwedFacts
<1>6. /\ Len(f.conds) \in Nat /\ DOMAIN f.conds = 1 .. Len(f.conds)
      /\ Len(f.ends) \in Nat /\ DOMAIN f.ends = 1 .. Len(f.ends)
      /\ Entries(f.conds) \subseteq 1 .. N /\ Entries(f.ends) \subseteq 1 .. N
  BY <1>3 DEF Entries
<1>7. f \in [fn : {"branch"}, conds : Seq(1 .. M), starts : Seq(1 .. M),
             ends : Seq(1 .. M), orElse : 0 .. M]
  BY <1>1, <1>2
<1> QED
  BY <1>4, <1>5, <1>6, <1>7 DEF IsBranch

\* A sequence of different blocks and one more.
LEMMA AppendBlockNumber ==
  ASSUME NEW M, NEW s \in Seq(M), NEW e \in M
  PROVE  /\ Append(s, e) \in Seq(M) /\ Len(Append(s, e)) = Len(s) + 1
         /\ DOMAIN Append(s, e) = 1 .. Len(s) + 1 /\ Append(s, e) # <<>>
         /\ \A j \in 1 .. Len(s) : Append(s, e)[j] = s[j]
         /\ Append(s, e)[Len(s) + 1] = e
OBVIOUS

LEMMA AppendBlockRange ==
  ASSUME NEW M, NEW s \in Seq(M), NEW e \in M
  PROVE  Entries(Append(s, e)) = Entries(s) \cup {e}
<1> DEFINE t == Append(s, e)
<1>1. /\ DOMAIN s = 1 .. Len(s) /\ Len(s) \in Nat
      /\ DOMAIN t = 1 .. Len(s) + 1 /\ t[Len(s) + 1] = e
      /\ \A j \in 1 .. Len(s) : t[j] = s[j]
  BY AppendBlockNumber
<1> HIDE DEF t
<1>2. ASSUME NEW j \in DOMAIN t PROVE t[j] \in Entries(s) \cup {e}
  BY <1>1 DEF Entries
<1>3. ASSUME NEW j \in DOMAIN s PROVE \E k \in DOMAIN t : t[k] = s[j]
  BY <1>1
<1>4. \E k \in DOMAIN t : t[k] = e
  BY <1>1
<1>5. Entries(t) = Entries(s) \cup {e}
  BY <1>2, <1>3, <1>4 DEF Entries
<1> QED
  BY <1>5 DEF t

LEMMA SeparateFromNew ==
  ASSUME NEW M, NEW s \in Seq(M), NEW t \in Seq(M), NEW e \in M, Separate(s, t),
         e \notin Entries(s), e \notin Entries(t)
  PROVE  /\ Separate(Append(s, e), t)
         /\ Separate(s, Append(t, e))
<1>1. Len(s) \in Nat /\ DOMAIN s = 1 .. Len(s) /\ Len(t) \in Nat
      /\ DOMAIN t = 1 .. Len(t)
  OBVIOUS
<1>2. /\ DOMAIN Append(s, e) = 1 .. Len(s) + 1 /\ Append(s, e)[Len(s) + 1] = e
      /\ \A j \in 1 .. Len(s) : Append(s, e)[j] = s[j]
      /\ DOMAIN Append(t, e) = 1 .. Len(t) + 1 /\ Append(t, e)[Len(t) + 1] = e
      /\ \A j \in 1 .. Len(t) : Append(t, e)[j] = t[j]
  BY AppendBlockNumber
<1> DEFINE u == Append(s, e)
           v == Append(t, e)
<1> HIDE DEF u, v
<1>3. /\ DOMAIN u = 1 .. Len(s) + 1 /\ u[Len(s) + 1] = e
      /\ \A j \in 1 .. Len(s) : u[j] = s[j]
      /\ DOMAIN v = 1 .. Len(t) + 1 /\ v[Len(t) + 1] = e
      /\ \A j \in 1 .. Len(t) : v[j] = t[j]
  BY <1>2 DEF u, v
<1>4. Separate(u, t)
  BY <1>1, <1>3, SMTT(30) DEF Separate, Entries
<1>5. Separate(s, v)
  BY <1>1, <1>3, SMTT(30) DEF Separate, Entries
<1> QED
  BY <1>4, <1>5 DEF u, v

\* impl_branch notes a condition.
LEMMA AddCondition ==
  ASSUME NEW f, NEW N \in Nat, NEW M \in Nat, N <= M, IsBranch(f, N),
         NEW c \in N + 1 .. M
  PROVE  LET g == [f EXCEPT !.conds = Append(@, c)] IN
         /\ IsBranch(g, M) /\ Owed(g) = Owed(f) \cup {c} /\ g.fn = "branch"
         /\ ArmsAreClosed(f) => ArmIsOpen(g)
<1> DEFINE g == [f EXCEPT !.conds = Append(@, c)]
           I == 1 .. M
<1>1. /\ f \in [fn : {"branch"}, conds : Seq(I), starts : Seq(I),
                ends : Seq(I), orElse : 0 .. M]
      /\ Len(f.conds) \in Nat /\ DOMAIN f.conds = 1 .. Len(f.conds)
      /\ Len(f.ends) \in Nat /\ DOMAIN f.ends = 1 .. Len(f.ends)
      /\ Len(f.starts) = Len(f.ends) /\ Len(f.conds) >= 1
      /\ Separate(f.conds, f.ends)
      /\ Owed(f) = Entries(f.conds) \cup Entries(f.ends)
      /\ Owed(f) \subseteq 1 .. N
  BY BranchRecord
<1>2. c \in I /\ c \notin Owed(f)
  <2>1. c \in 1 .. M /\ c \notin 1 .. N
    OBVIOUS
  <2>2. Owed(f) \subseteq 1 .. N
    BY <1>1
  <2> QED
    BY <2>1, <2>2
<1> HIDE DEF I
<1> DEFINE s == Append(f.conds, c)
<1>3. f.conds \in Seq(I) /\ f.ends \in Seq(I)
  BY <1>1
<1>4. /\ s \in Seq(I) /\ Len(s) = Len(f.conds) + 1
      /\ DOMAIN s = 1 .. Len(f.conds) + 1 /\ s # <<>>
      /\ \A j \in 1 .. Len(f.conds) : s[j] = f.conds[j]
      /\ s[Len(f.conds) + 1] = c
  BY <1>2, <1>3, AppendBlockNumber
<1>5. Separate(s, f.ends)
  BY <1>1, <1>2, <1>3, SeparateFromNew
<1>6. g = [f EXCEPT !.conds = s]
  OBVIOUS
<1> HIDE DEF s, g
<1>7. /\ g \in [fn : {"branch"}, conds : Seq(I), starts : Seq(I),
                ends : Seq(I), orElse : 0 .. M]
      /\ g.conds = s /\ g.starts = f.starts /\ g.ends = f.ends
      /\ g.orElse = f.orElse /\ g.fn = "branch"
  BY <1>1, <1>4, <1>6
<1>8. IsBranch(g, M)
  BY <1>1, <1>4, <1>5, <1>7 DEF IsBranch, I
<1>9. Owed(g) = Entries(s) \cup Entries(f.ends)
  BY <1>7, <1>8, OwedFacts
<1>10. Entries(s) = Entries(f.conds) \cup {c}
  BY <1>2, <1>3, AppendBlockRange DEF s
<1>11. Owed(g) = Owed(f) \cup {c}
  BY <1>1, <1>9, <1>10
<1>12. ArmsAreClosed(f) => ArmIsOpen(g)
  BY <1>1, <1>4, <1>7 DEF ArmsAreClosed, ArmIsOpen
<1> QED
  BY <1>7, <1>8, <1>11, <1>12 DEF g

\* impl_branch notes the first and the last block of an arm.
LEMMA AddArm ==
  ASSUME NEW f, NEW N \in Nat, IsBranch(f, N),
         NEW start \in 1 .. N, NEW end \in 1 .. N, end \notin Owed(f)
  PROVE  LET g == [f EXCEPT !.starts = Append(@, start), !.ends = Append(@, end)] IN
         /\ IsBranch(g, N) /\ Owed(g) = Owed(f) \cup {end} /\ g.fn = "branch"
         /\ f.orElse = 0 /\ ArmIsOpen(f) => ArmsAreClosed(g)
<1> DEFINE g == [f EXCEPT !.starts = Append(@, start), !.ends = Append(@, end)]
           I == 1 .. N
<1>1. /\ f \in [fn : {"branch"}, conds : Seq(I), starts : Seq(I),
                ends : Seq(I), orElse : 0 .. N]
      /\ Len(f.conds) \in Nat /\ DOMAIN f.conds = 1 .. Len(f.conds)
      /\ Len(f.ends) \in Nat /\ DOMAIN f.ends = 1 .. Len(f.ends)
      /\ Len(f.starts) = Len(f.ends) /\ Len(f.conds) >= 1
      /\ Separate(f.conds, f.ends)
      /\ Owed(f) = Entries(f.conds) \cup Entries(f.ends)
  BY BranchRecord
<1>2. end \in I /\ start \in I
  OBVIOUS
<1> HIDE DEF I
<1> DEFINE s == Append(f.starts, start)
           t == Append(f.ends, end)
<1>3. f.conds \in Seq(I) /\ f.ends \in Seq(I) /\ f.starts \in Seq(I)
  BY <1>1
<1>4. /\ t \in Seq(I) /\ Len(t) = Len(f.ends) + 1
      /\ DOMAIN t = 1 .. Len(f.ends) + 1
      /\ \A j \in 1 .. Len(f.ends) : t[j] = f.ends[j]
      /\ t[Len(f.ends) + 1] = end
  BY <1>2, <1>3, AppendBlockNumber
<1>5. s \in Seq(I) /\ Len(s) = Len(f.starts) + 1
  BY <1>2, <1>3, AppendBlockNumber
<1>6. Separate(f.conds, t)
  BY <1>1, <1>2, <1>3, SeparateFromNew
<1>7. g = [f EXCEPT !.starts = s, !.ends = t]
  OBVIOUS
<1> HIDE DEF s, t, g
<1>8. /\ g \in [fn : {"branch"}, conds : Seq(I), starts : Seq(I),
                ends : Seq(I), orElse : 0 .. N]
      /\ g.conds = f.conds /\ g.starts = s /\ g.ends = t
      /\ g.orElse = f.orElse /\ g.fn = "branch"
  BY <1>1, <1>4, <1>5, <1>7
<1>9. IsBranch(g, N)
  BY <1>1, <1>4, <1>5, <1>6, <1>8 DEF IsBranch, I
<1>10. Owed(g) = Entries(f.conds) \cup Entries(t)
  BY <1>8, <1>9, OwedFacts
<1>11. Entries(t) = Entries(f.ends) \cup {end}
  BY <1>2, <1>3, AppendBlockRange DEF t
<1>12. Owed(g) = Owed(f) \cup {end}
  BY <1>1, <1>10, <1>11
<1>13. f.orElse = 0 /\ ArmIsOpen(f) => ArmsAreClosed(g)
  BY <1>1, <1>4, <1>8 DEF ArmsAreClosed, ArmIsOpen
<1> QED
  BY <1>8, <1>9, <1>12, <1>13 DEF g

\* impl_branch notes the first block of the else.
LEMMA SetElse ==
  ASSUME NEW f, NEW N \in Nat, NEW M \in Nat, N <= M, IsBranch(f, N),
         NEW start \in 1 .. M
  PROVE  LET g == [f EXCEPT !.orElse = start] IN
         /\ IsBranch(g, M) /\ Owed(g) = Owed(f) /\ g.fn = "branch"
         /\ ArmsAreClosed(f) => ArmIsOpen(g)
<1> DEFINE g == [f EXCEPT !.orElse = start]
           I == 1 .. M
<1>1. /\ f \in [fn : {"branch"}, conds : Seq(I), starts : Seq(I),
                ends : Seq(I), orElse : 0 .. M]
      /\ Len(f.starts) = Len(f.ends) /\ Len(f.conds) >= 1
      /\ Separate(f.conds, f.ends)
      /\ Owed(f) = Entries(f.conds) \cup Entries(f.ends)
  BY BranchRecord
<1>2. start \in 0 .. M /\ start # 0
  OBVIOUS
<1> HIDE DEF I
<1>3. /\ g \in [fn : {"branch"}, conds : Seq(I), starts : Seq(I),
                ends : Seq(I), orElse : 0 .. M]
      /\ g.conds = f.conds /\ g.starts = f.starts /\ g.ends = f.ends
      /\ g.orElse = start /\ g.fn = "branch"
  BY <1>1, <1>2
<1> HIDE DEF g
<1>4. f.conds # <<>>
  BY DEF IsBranch
<1>5. IsBranch(g, M)
  BY <1>1, <1>3, <1>4 DEF IsBranch, I
<1>6. Owed(g) = Owed(f)
  BY <1>1, <1>3, <1>5, OwedFacts
<1>7. ArmsAreClosed(f) => ArmIsOpen(g)
  BY <1>2, <1>3 DEF ArmsAreClosed, ArmIsOpen
<1> QED
  BY <1>3, <1>5, <1>6, <1>7 DEF g

\* impl_branch goes on to its last loop: all arms are noted.
LEMMA StartConnecting ==
  ASSUME NEW f, NEW N \in Nat, NEW M \in Nat, N <= M, IsBranch(f, N),
         Len(f.conds) = Len(f.ends),
         NEW c \in 1 .. M, NEW after \in 1 .. M, after \notin Owed(f)
  PROVE  LET g == ConnectFrame(f, c, after) IN
         /\ IsConnect(g, M) /\ Owed(g) = Owed(f) \cup {after}
         /\ g.fn = "connect"
<1> DEFINE g == ConnectFrame(f, c, after)
           I == 1 .. M
           s == Append(f.conds, c)
<1>1. /\ f \in [fn : {"branch"}, conds : Seq(I), starts : Seq(I),
                ends : Seq(I), orElse : 0 .. M]
      /\ Len(f.conds) \in Nat /\ DOMAIN f.conds = 1 .. Len(f.conds)
      /\ Len(f.ends) \in Nat /\ DOMAIN f.ends = 1 .. Len(f.ends)
      /\ Len(f.starts) = Len(f.ends) /\ Len(f.conds) >= 1
      /\ Separate(f.conds, f.ends)
      /\ Owed(f) = Entries(f.conds) \cup Entries(f.ends)
  BY BranchRecord
<1>2. c \in I /\ after \in I
  OBVIOUS
<1> HIDE DEF I
<1>3. f.conds \in Seq(I) /\ f.ends \in Seq(I) /\ f.starts \in Seq(I)
  BY <1>1
<1>4. /\ s \in Seq(I) /\ Len(s) = Len(f.conds) + 1
      /\ \A j \in 1 .. Len(f.conds) : s[j] = f.conds[j]
  BY <1>2, <1>3, AppendBlockNumber
<1>5. g = [fn |-> "connect", conds |-> s, starts |-> f.starts,
           ends |-> f.ends, after |-> after, i |-> 1]
  BY DEF ConnectFrame
<1> HIDE DEF s, g
<1>6. /\ g \in [fn : {"connect"}, conds : Seq(I), starts : Seq(I),
                ends : Seq(I), after : I, i : Nat]
      /\ g.conds = s /\ g.starts = f.starts /\ g.ends = f.ends
      /\ g.after = after /\ g.i = 1 /\ g.fn = "connect"
  BY <1>2, <1>3, <1>4, <1>5
<1>7. \A j \in DOMAIN f.ends : s[j] = f.conds[j] /\ j \in DOMAIN f.conds
  BY <1>1, <1>4
<1>8. Separate([j \in DOMAIN g.ends |-> g.conds[j]], g.ends)
  <2> DEFINE u == [j \in DOMAIN g.ends |-> g.conds[j]]
  <2>1. DOMAIN u = DOMAIN f.ends /\ \A j \in DOMAIN f.ends : u[j] = f.conds[j]
    BY <1>6, <1>7
  <2> HIDE DEF u
  <2>2. Separate(u, f.ends)
    BY <1>1, <1>7, <2>1, SMTT(30) DEF Separate
  <2> QED
    BY <1>6, <2>2 DEF u
<1>9. \A j \in DOMAIN g.ends : g.conds[j] # g.after /\ g.ends[j] # g.after
  BY <1>1, <1>6, <1>7 DEF Entries
<1>10. Len(g.starts) = Len(g.ends) /\ Len(g.conds) = Len(g.ends) + 1
       /\ g.i \in 1 .. Len(g.conds)
  BY <1>1, <1>4, <1>6
<1>11. IsConnect(g, M)
  BY <1>6, <1>8, <1>9, <1>10 DEF IsConnect, I
<1>12. Owed(g) = Part(s, 1, Len(f.ends))
                   \cup Part(f.ends, 1, Len(f.ends)) \cup {after}
  BY <1>6, <1>11, OwedFacts
<1>13. Part(s, 1, Len(f.ends)) = Entries(f.conds)
  BY <1>1, <1>4 DEF Entries, Part
<1>14. Part(f.ends, 1, Len(f.ends)) = Entries(f.ends)
  BY <1>1 DEF Entries, Part
<1>15. Owed(g) = Owed(f) \cup {after}
  BY <1>1, <1>12, <1>13, <1>14
<1> QED
  BY <1>6, <1>11, <1>15 DEF g

LEMMA ConnectRecord ==
  ASSUME NEW f, NEW N \in Nat, IsConnect(f, N)
  PROVE  /\ f \in [fn : {"connect"}, conds : Seq(1 .. N), starts : Seq(1 .. N),
                   ends : Seq(1 .. N), after : 1 .. N, i : Nat]
         /\ Len(f.ends) \in Nat /\ DOMAIN f.ends = 1 .. Len(f.ends)
         /\ Len(f.conds) = Len(f.ends) + 1
         /\ f.i \in 1 .. Len(f.ends) + 1
         /\ \A j \in 1 .. Len(f.ends) + 1 : f.conds[j] \in 1 .. N
         /\ \A j \in 1 .. Len(f.ends) : f.ends[j] \in 1 .. N /\ f.starts[j] \in 1 .. N
         /\ \A j \in 1 .. Len(f.ends) : f.conds[j] # f.after /\ f.ends[j] # f.after
         /\ \A j, m \in 1 .. Len(f.ends) :
              /\ f.conds[j] # f.ends[m]
              /\ j # m => f.conds[j] # f.conds[m] /\ f.ends[j] # f.ends[m]
<1>1. /\ f \in [fn : {"connect"}, conds : Seq(1 .. N), starts : Seq(1 .. N),
                ends : Seq(1 .. N), after : 1 .. N, i : Nat]
      /\ Len(f.starts) = Len(f.ends) /\ Len(f.conds) = Len(f.ends) + 1
      /\ f.i \in 1 .. Len(f.conds)
      /\ Separate([j \in DOMAIN f.ends |-> f.conds[j]], f.ends)
      /\ \A j \in DOMAIN f.ends : f.conds[j] # f.after /\ f.ends[j] # f.after
  BY DEF IsConnect
<1>2. f.conds \in Seq(1 .. N) /\ f.starts \in Seq(1 .. N) /\ f.ends \in Seq(1 .. N)
  BY <1>1
<1>3. /\ Len(f.ends) \in Nat /\ DOMAIN f.ends = 1 .. Len(f.ends)
      /\ \A j \in 1 .. Len(f.ends) + 1 : f.conds[j] \in 1 .. N
      /\ \A j \in 1 .. Len(f.ends) : f.ends[j] \in 1 .. N /\ f.starts[j] \in 1 .. N
  <2>1. /\ \A j \in 1 .. Len(f.conds) : f.conds[j] \in 1 .. N
        /\ \A j \in 1 .. Len(f.ends) : f.ends[j] \in 1 .. N
        /\ \A j \in 1 .. Len(f.starts) : f.starts[j] \in 1 .. N
        /\ Len(f.ends) \in Nat /\ DOMAIN f.ends = 1 .. Len(f.ends)
    BY <1>2
  <2> QED
    BY <1>1, <2>1
<1>4. \A j, m \in 1 .. Len(f.ends) :
        /\ f.conds[j] # f.ends[m]
        /\ j # m => f.conds[j] # f.conds[m] /\ f.ends[j] # f.ends[m]
  BY <1>1, <1>3 DEF Separate
<1> QED
  BY <1>1, <1>3, <1>4

\* A turn of the last loop of impl_branch pays for one condition and one arm.
LEMMA OneTurn ==
  ASSUME NEW f, NEW N \in Nat, IsConnect(f, N), f.i < Len(f.conds)
  PROVE  LET g == [f EXCEPT !.i = @ + 1]
             c == f.conds[f.i]
             e == f.ends[f.i]
         IN
         /\ IsConnect(g, N) /\ g.fn = "connect"
         /\ {c, e} \subseteq Owed(f) /\ c # e /\ Owed(g) = Owed(f) \ {c, e}
         /\ f.starts[f.i] \in 1 .. N /\ f.conds[f.i + 1] \in 1 .. N
<1> DEFINE g == [f EXCEPT !.i = @ + 1]
           c == f.conds[f.i]
           e == f.ends[f.i]
           n == Len(f.ends)
<1>1. /\ f \in [fn : {"connect"}, conds : Seq(1 .. N), starts : Seq(1 .. N),
                ends : Seq(1 .. N), after : 1 .. N, i : Nat]
      /\ n \in Nat /\ DOMAIN f.ends = 1 .. n
      /\ Len(f.conds) = n + 1 /\ f.i \in 1 .. n + 1
      /\ \A j \in 1 .. n + 1 : f.conds[j] \in 1 .. N
      /\ \A j \in 1 .. n : f.ends[j] \in 1 .. N /\ f.starts[j] \in 1 .. N
      /\ \A j \in 1 .. n : f.conds[j] # f.after /\ f.ends[j] # f.after
      /\ \A j, m \in 1 .. n :
           /\ f.conds[j] # f.ends[m]
           /\ j # m => f.conds[j] # f.conds[m] /\ f.ends[j] # f.ends[m]
  BY ConnectRecord
<1>2. f.i \in 1 .. n /\ f.i + 1 \in 1 .. n + 1 /\ f.i + 1 \in Nat
  BY <1>1
<1>3. /\ g \in [fn : {"connect"}, conds : Seq(1 .. N), starts : Seq(1 .. N),
                ends : Seq(1 .. N), after : 1 .. N, i : Nat]
      /\ g.conds = f.conds /\ g.starts = f.starts /\ g.ends = f.ends
      /\ g.after = f.after /\ g.i = f.i + 1 /\ g.fn = "connect"
  BY <1>1, <1>2
<1> HIDE DEF g
<1>4. IsConnect(g, N)
  BY <1>1, <1>2, <1>3 DEF IsConnect
<1>5. /\ Owed(f) = Part(f.conds, f.i, n) \cup Part(f.ends, f.i, n) \cup {f.after}
      /\ Owed(g) = Part(f.conds, f.i + 1, n) \cup Part(f.ends, f.i + 1, n)
                     \cup {f.after}
  BY <1>3, <1>4, OwedFacts
<1>6. f.i .. n = {f.i} \cup (f.i + 1 .. n) /\ f.i .. n \subseteq 1 .. n
  BY <1>1, <1>2, SMTT(30)
<1>7. Owed(f) = Owed(g) \cup {c, e}
  BY <1>5, <1>6 DEF Part
<1>8. c # e /\ c # f.after /\ e # f.after
      /\ \A j \in f.i + 1 .. n : /\ f.conds[j] # c /\ f.conds[j] # e
                                 /\ f.ends[j] # c /\ f.ends[j] # e
  <2>1. \A j \in f.i + 1 .. n : j \in 1 .. n /\ j # f.i
    BY <1>2
  <2> QED
    BY <1>1, <1>2, <2>1
<1>9. c \notin Owed(g) /\ e \notin Owed(g)
  BY <1>5, <1>8 DEF Part
<1>10. {c, e} \subseteq Owed(f) /\ Owed(g) = Owed(f) \ {c, e}
  BY <1>7, <1>9
<1> QED
  BY <1>1, <1>2, <1>3, <1>4, <1>8, <1>10 DEF g

LEMMA NoTurnLeft ==
  ASSUME NEW f, NEW N \in Nat, IsConnect(f, N), f.i = Len(f.conds)
  PROVE  Owed(f) = {f.after} /\ f.conds[1] \in 1 .. N /\ f.after \in 1 .. N
<1>1. /\ Len(f.ends) \in Nat /\ f.i = Len(f.ends) + 1 /\ f.after \in 1 .. N
      /\ f.conds[1] \in 1 .. N
  BY ConnectRecord
<1>2. Part(f.conds, f.i, Len(f.ends)) = {} /\ Part(f.ends, f.i, Len(f.ends)) = {}
  BY <1>1 DEF Part
<1> QED
  BY <1>1, <1>2, OwedFacts

-----------------------------------------------------------------------------
(* The actions of impl_branch.                                             *)

\* impl_branch on top of the stack, between two arms or in its last loop.
LEMMA CallerIsBody ==
  ASSUME IInv, stack # <<>>, Frame.fn \in {"branch", "connect"}
  PROVE  LET n == Len(stack) - 1 IN
         /\ n \in Nat /\ n >= 2 /\ n < Len(stack) /\ n \in 0 .. Len(stack)
         /\ n + 1 = Len(stack) /\ n % 2 = 0
         /\ stack[n] = Caller /\ stack[n + 1] = Frame
         /\ Caller.fn = "basic_block" /\ IsBody(Caller, Len(blocks))
         /\ Owed(Caller) = {Caller.last}
         /\ Above(stack, n) = Owed(Frame)
<1> DEFINE n == Len(stack) - 1
<1>1. Len(stack) \in Nat /\ Len(stack) >= 2
  BY StateFacts
<1>2. n \in Nat /\ n < Len(stack) /\ n \in 0 .. Len(stack) /\ n + 1 = Len(stack)
      /\ stack[n] = Caller /\ stack[n + 1] = Frame
  BY <1>1 DEF Caller, Frame
<1>3. Caller.fn = "basic_block"
  BY RunningFacts DEF Calls
<1>4. IsBody(Caller, Len(blocks)) /\ Owed(Caller) = {Caller.last}
  BY <1>3, RunningFacts, FrameKinds, OwedFacts
<1>5. \A k \in 1 .. Len(stack) : stack[k].fn = "basic_block" <=> k % 2 = 0
  BY DEF IInv, Stacked
<1>6. n \in 1 .. Len(stack) /\ stack[n].fn = "basic_block"
  BY <1>1, <1>2, <1>3
<1>7. n % 2 = 0
  BY <1>5, <1>6
<1>8. n >= 2
  BY <1>2, <1>6, <1>7
<1>9. Above(stack, n) = Owed(Frame)
  BY RunningFacts
<1> QED
  BY <1>2, <1>3, <1>4, <1>7, <1>8, <1>9

LEMMA BranchFacts ==
  ASSUME IInv, Running("branch")
  PROVE  /\ stack # <<>> /\ Frame.fn = "branch" /\ ArmsAreClosed(Frame)
         /\ IsBranch(Frame, Len(blocks))
<1>1. stack # <<>> /\ Frame.fn = "branch"
  BY DEF Running, Frame
<1> QED
  BY <1>1, RunningFacts, FrameKinds DEF IsTop

LEMMA ElseIfInv == IInv /\ ElseIf => IInv'
<1> SUFFICES ASSUME IInv, ElseIf PROVE IInv'
  OBVIOUS
<1> DEFINE cond == Len(blocks) + 1
           n    == Len(stack) - 1
           g    == [Frame EXCEPT !.conds = Append(@, cond)]
<1>1. /\ Running("branch") /\ Room(3) /\ src' = Append(src, "elseif")
      /\ blocks' = CondAndBody(blocks, Len(src) + 1) /\ builder' = cond + 1
      /\ stack' = Append(SubSeq(stack, 1, n), g) \o <<BasicBlockFrame(cond + 1)>>
  BY DEF ElseIf, Pop
<1>2. /\ stack # <<>> /\ Frame.fn = "branch" /\ ArmsAreClosed(Frame)
      /\ IsBranch(Frame, Len(blocks))
  BY <1>1, BranchFacts
<1>3. /\ n \in Nat /\ n >= 1 /\ n <= Len(stack) /\ n \in 0 .. Len(stack)
      /\ stack[n].fn = "basic_block" /\ Above(stack, n) = Owed(Frame)
      /\ Len(blocks) \in Nat
  BY <1>2, CallerIsBody, StateFacts
<1>4. /\ cond \in Len(blocks) + 1 .. cond + 1 /\ Len(blocks) <= cond + 1
      /\ cond + 1 \in Nat
  BY <1>3
<1>5. /\ IsBranch(g, cond + 1) /\ Owed(g) = Owed(Frame) \cup {cond}
      /\ g.fn = "branch" /\ ArmIsOpen(g)
  <2> DEFINE N == Len(blocks)
             M == cond + 1
  <2>1. /\ N \in Nat /\ M \in Nat /\ N <= M /\ cond \in N + 1 .. M
        /\ IsBranch(Frame, N) /\ ArmsAreClosed(Frame)
    BY <1>2, <1>3, <1>4
  <2> HIDE DEF N, M, cond
  <2>2. /\ IsBranch(g, M) /\ Owed(g) = Owed(Frame) \cup {cond} /\ g.fn = "branch"
        /\ ArmsAreClosed(Frame) => ArmIsOpen(g)
    BY <2>1, AddCondition
  <2> QED
    BY <2>1, <2>2 DEF M
<1>6. PutsTwo(stack, stack', n, g, BasicBlockFrame(cond + 1))
  BY <1>1, <1>3, StateFacts, PutsTwoFacts, Zenon
<1> HIDE DEF g
<1>7. /\ Calls(stack[n], g) /\ Calls(g, BasicBlockFrame(cond + 1))
      /\ IsFrame(g, cond + 1) /\ Owed(g) = Above(stack, n) \cup {cond}
  BY <1>3, <1>5 DEF Calls, BasicBlockFrame, IsFrame
<1>8. "elseif" \in Token
  BY DEF Token, Opening
<1> HIDE DEF n
<1> QED
  BY <1>1, <1>2, <1>3, <1>6, <1>7, <1>8, OpenBodyInv, Zenon

LEMMA BeginElseInv == IInv /\ BeginElse => IInv'
<1> SUFFICES ASSUME IInv, BeginElse PROVE IInv'
  OBVIOUS
<1> DEFINE start == Len(blocks) + 1
           n == Len(stack) - 1
           g == [Frame EXCEPT !.orElse = start]
           h == BasicBlockFrame(start)
           J == Instruction(Len(src) + 1, Len(blocks) + 1)
           e == <<>>
<1>1. /\ Running("branch") /\ Room(3) /\ src' = Append(src, "else")
      /\ blocks' = Append(blocks, e) /\ builder' = start
      /\ stack' = Append(SubSeq(stack, 1, n), g) \o <<h>>
  BY DEF BeginElse, Pop, AppendBlock
<1>2. /\ stack # <<>> /\ Frame.fn = "branch" /\ ArmsAreClosed(Frame)
      /\ IsBranch(Frame, Len(blocks))
  BY <1>1, BranchFacts
<1>3. /\ n \in Nat /\ n >= 1 /\ n <= Len(stack) /\ n \in 0 .. Len(stack)
      /\ n + 1 = Len(stack)
      /\ stack[n].fn = "basic_block" /\ Above(stack, n) = Owed(Frame)
      /\ Len(blocks) \in Nat /\ Len(src) \in Nat /\ Len(stack) \in Nat
      /\ DOMAIN blocks = 1 .. Len(blocks)
  BY <1>2, CallerIsBody, StateFacts
<1>4. start \in 1 .. start /\ Len(blocks) <= start /\ start \in Nat
      /\ start \notin DOMAIN blocks
  BY <1>3
<1>5. /\ IsBranch(g, start) /\ Owed(g) = Owed(Frame)
      /\ g.fn = "branch" /\ ArmIsOpen(g)
  BY <1>2, <1>3, <1>4, SetElse
<1>6. PutsTwo(stack, stack', n, g, h)
  BY <1>1, <1>3, StateFacts, PutsTwoFacts, Zenon
<1>7. IsBody(h, start) /\ h.last = start
  BY <1>4 DEF IsBody, BasicBlockFrame
<1> HIDE DEF g, h
<1>8. Owed(h) = {start} /\ h.fn = "basic_block"
  BY <1>7, OwedFacts
<1>9. /\ Calls(stack[n], g) /\ Calls(g, h) /\ IsFrame(g, start) /\ IsFrame(h, start)
  BY <1>3, <1>5, <1>7, <1>8 DEF Calls, IsFrame
<1>10. src' \in Seq(Token) /\ Len(src') = Len(src) + 1
  <2>1. "else" \in Token
    BY DEF Token, Opening
  <2> QED
    BY <1>1, <2>1, SourceGrows
<1>11. blocks \in Seq(Seq(J)) /\ e \in Seq(J) /\ Len(e) <= 1 /\ ~HasTerminator(e)
  <2>1. blocks \in Seq(Seq(J))
    <3>1. /\ Len(src) + 1 \in Nat /\ Len(src) <= Len(src) + 1
          /\ Len(blocks) + 1 \in Nat /\ Len(blocks) <= Len(blocks) + 1
      BY <1>3
    <3>2. blocks \in Seq(Seq(Instruction(Len(src), Len(blocks))))
      BY StateFacts
    <3> QED
      BY <1>3, <3>1, <3>2, BlocksGrow
  <2> QED
    BY <2>1 DEF HasTerminator
<1> HIDE DEF J, e
<1>12. /\ blocks' \in Seq(Seq(J)) /\ Len(blocks') = start
       /\ DOMAIN blocks' = DOMAIN blocks \cup {start}
       /\ \A a \in DOMAIN blocks : blocks'[a] = blocks[a]
       /\ blocks'[start] = e
       /\ Clean(blocks')
  <2>1. Clean(blocks)
    BY DEF IInv
  <2> QED
    BY <1>1, <1>11, <2>1, NewBlockFacts
<1>13. /\ Owed(Frame) \subseteq DOMAIN blocks
       /\ \A b \in Owed(Frame) : ~HasTerminator(blocks[b])
  BY <1>2, RunningFacts
<1>14. Settled(blocks, blocks', Above(stack, n), Owed(g) \cup Owed(h))
  BY <1>3, <1>4, <1>5, <1>8, <1>11, <1>12, <1>13 DEF Settled
<1>15. Len(src') + (n + 2) \div 2 - 1 <= MaxTokens
  <2>1. Len(src) + (Len(stack) \div 2 - 1) + 3 <= MaxTokens
    BY <1>1 DEF Room, OpenBodies
  <2>2. (n + 2) \div 2 <= Len(stack) \div 2 + 1 /\ (n + 2) \div 2 \in Nat
        /\ Len(stack) \div 2 \in Nat
    BY <1>3
  <2> QED
    BY <1>3, <1>10, <2>1, <2>2, MaxTokensAssumption
<1>16. Walked(n, n + 2, Owed(g) \cup Owed(h))
  BY <1>1, <1>3, <1>4, <1>10, <1>12, <1>14, <1>15 DEF Walked, J
<1>17. Owed(g) \cap Owed(h) = {} /\ IsFrame(g, Len(blocks'))
       /\ IsFrame(h, Len(blocks')) /\ builder' = h.last
  BY <1>1, <1>4, <1>5, <1>7, <1>8, <1>9, <1>12, <1>13
<1> HIDE DEF n
<1> QED
  BY <1>2, <1>3, <1>6, <1>8, <1>9, <1>16, <1>17, TwoFrames, Zenon

LEMMA NoElseInv == IInv /\ NoElse => IInv'
<1> SUFFICES ASSUME IInv, NoElse PROVE IInv'
  OBVIOUS
<1> DEFINE after == Len(blocks) + 1
           n == Len(stack) - 1
           g == ConnectFrame(Frame, after, after)
           J == Instruction(Len(src), Len(blocks) + 1)
           e == <<>>
<1>1. /\ Running("branch") /\ src' = src
      /\ blocks' = Append(blocks, e) /\ builder' = after
      /\ stack' = Append(SubSeq(stack, 1, n), g)
  BY DEF NoElse, Pop, AppendBlock
<1>2. /\ stack # <<>> /\ Frame.fn = "branch" /\ ArmsAreClosed(Frame)
      /\ IsBranch(Frame, Len(blocks)) /\ Len(Frame.conds) = Len(Frame.ends)
  BY <1>1, BranchFacts DEF ArmsAreClosed
<1>3. /\ n \in Nat /\ n >= 1 /\ n < Len(stack) /\ n \in 0 .. Len(stack)
      /\ n + 1 = Len(stack) /\ stack[n + 1] = Frame
      /\ Above(stack, n) = Owed(Frame)
      /\ Len(blocks) \in Nat /\ Len(src) \in Nat /\ Len(stack) \in Nat
      /\ DOMAIN blocks = 1 .. Len(blocks) /\ src \in Seq(Token)
  BY <1>2, CallerIsBody, StateFacts
<1>4. /\ Owed(Frame) \subseteq DOMAIN blocks
      /\ \A b \in Owed(Frame) : ~HasTerminator(blocks[b])
  BY <1>2, RunningFacts
<1>5. after \in 1 .. after /\ Len(blocks) <= after /\ after \in Nat
      /\ after \notin DOMAIN blocks /\ after \notin Owed(Frame)
  BY <1>3, <1>4
<1>6. IsConnect(g, after) /\ Owed(g) = Owed(Frame) \cup {after}
      /\ g.fn = "connect"
  BY <1>2, <1>3, <1>5, StartConnecting
<1>7. Puts(stack, stack', n, g)
  BY <1>1, <1>3, StateFacts, PutsFacts, Zenon
<1> HIDE DEF g
<1>8. IsFrame(g, after) /\ IsTop(g)
  BY <1>6 DEF IsFrame, IsTop
<1>9. blocks \in Seq(Seq(J)) /\ e \in Seq(J) /\ Len(e) <= 1 /\ ~HasTerminator(e)
  <2>1. blocks \in Seq(Seq(J))
    BY <1>3, StateFacts, BlocksGrow
  <2> QED
    BY <2>1 DEF HasTerminator
<1> HIDE DEF J, e
<1>10. /\ blocks' \in Seq(Seq(J)) /\ Len(blocks') = after
       /\ DOMAIN blocks' = DOMAIN blocks \cup {after}
       /\ \A a \in DOMAIN blocks : blocks'[a] = blocks[a]
       /\ blocks'[after] = e
       /\ Clean(blocks')
  <2>1. Clean(blocks)
    BY DEF IInv
  <2> QED
    BY <1>1, <1>9, <2>1, NewBlockFacts
<1>11. Settled(blocks, blocks', Above(stack, n), Owed(g))
  BY <1>3, <1>4, <1>5, <1>6, <1>9, <1>10 DEF Settled
<1>12. Len(src') + (n + 1) \div 2 - 1 <= MaxTokens
  BY <1>1, <1>2, <1>3 DEF IInv, Typed, OpenBodies
<1>13. Walked(n, n + 1, Owed(g))
  BY <1>1, <1>3, <1>5, <1>10, <1>11, <1>12 DEF Walked, J
<1> HIDE DEF n
<1> QED
  BY <1>2, <1>3, <1>6, <1>7, <1>8, <1>10, <1>13, OneFrame

\* The end of a body of a loop or of an arm, in the source.
LEMMA EndToken ==
  ASSUME IInv, Running("basic_block"), Len(stack) >= 4, src' = Append(src, "end")
  PROVE  /\ src' \in Seq(Token) /\ Len(src') = Len(src) + 1 /\ Len(src) \in Nat
         /\ \A n \in {Len(stack) - 3, Len(stack) - 2} :
              Len(src') + (n + 1) \div 2 - 1 <= MaxTokens
<1>1. src' \in Seq(Token) /\ Len(src') = Len(src) + 1
  <2>1. "end" \in Token
    BY DEF Token
  <2> QED
    BY <2>1, SourceGrows
<1>2. Len(src) \in Nat /\ Len(stack) \in Nat /\ stack # <<>>
  BY StateFacts, BodyFacts
<1>3. Len(stack) % 2 = 0
  <2>1. \A k \in 1 .. Len(stack) : stack[k].fn = "basic_block" <=> k % 2 = 0
    BY <1>2 DEF IInv, Stacked
  <2>2. Len(stack) \in 1 .. Len(stack) /\ stack[Len(stack)].fn = "basic_block"
    BY <1>2, BodyFacts DEF Frame
  <2> QED
    BY <2>1, <2>2
<1>4. Len(src) + (Len(stack) \div 2 - 1) <= MaxTokens
  BY <1>2 DEF IInv, Typed, OpenBodies
<1>5. /\ ((Len(stack) - 3) + 1) \div 2 = Len(stack) \div 2 - 1
      /\ ((Len(stack) - 2) + 1) \div 2 = Len(stack) \div 2 - 1
      /\ Len(stack) \div 2 \in Nat
  BY <1>2, <1>3
<1>6. ASSUME NEW n \in {Len(stack) - 3, Len(stack) - 2}
      PROVE  Len(src') + (n + 1) \div 2 - 1 <= MaxTokens
  <2>1. (n + 1) \div 2 = Len(stack) \div 2 - 1
    BY <1>5
  <2> QED
    BY <1>1, <1>2, <1>4, <1>5, <2>1, MaxTokensAssumption
<1> QED
  BY <1>1, <1>2, <1>6

\* A body of a branch ends, and impl_branch, whose frame becomes g, owes what
\* it and the body owed: nothing changes in the blocks.
LEMMA ArmEndsInv ==
  ASSUME IInv, Running("basic_block"), Caller.fn = "branch",
         src' = Append(src, "end"), blocks' = blocks,
         NEW g, g.fn \in {"branch", "connect"}, IsFrame(g, Len(blocks)), IsTop(g),
         Owed(g) = Owed(Caller) \cup {Frame.last},
         stack' = Append(SubSeq(stack, 1, Len(stack) - 2), g),
         builder' \in 1 .. Len(blocks)
  PROVE  IInv'
<1> DEFINE n == Len(stack) - 2
           J == Instruction(Len(src) + 1, Len(blocks))
<1>1. /\ Len(stack) \in Nat /\ Len(stack) >= 4 /\ stack # <<>>
      /\ n \in Nat /\ n >= 1 /\ n < Len(stack) /\ n \in 0 .. Len(stack)
      /\ Len(src) \in Nat /\ Len(blocks) \in Nat
      /\ Len(blocks) <= Len(blocks) /\ stack[n + 1] = Caller
      /\ Owed(Frame) = {Frame.last}
  <2>1. Len(stack) >= 4 /\ Len(stack) \in Nat /\ stack # <<>>
    BY EnclosingFacts, BodyFacts, StateFacts
  <2>2. n + 1 = Len(stack) - 1
    BY <2>1
  <2> QED
    BY <2>1, <2>2, BodyFacts, StateFacts DEF Caller
<1>2. /\ src' \in Seq(Token) /\ Len(src') = Len(src) + 1
      /\ Len(src') + (n + 1) \div 2 - 1 <= MaxTokens
  BY <1>1, EndToken
<1>3. blocks \in Seq(Seq(J))
  <2>1. Len(src) + 1 \in Nat /\ Len(src) <= Len(src) + 1
    BY <1>1
  <2>2. blocks \in Seq(Seq(Instruction(Len(src), Len(blocks))))
    BY StateFacts
  <2> QED
    BY <1>1, <2>1, <2>2, BlocksGrow
<1> HIDE DEF J
<1>4. /\ Above(stack, n) = Owed(g)
      /\ \A b \in Owed(g) : ~HasTerminator(blocks[b])
  BY <1>1, RunningFacts
<1>5. Settled(blocks, blocks', Above(stack, n), Owed(g))
  BY <1>4 DEF Settled
<1>6. Clean(blocks')
  BY DEF IInv
<1>7. Walked(n, n + 1, Owed(g))
  BY <1>1, <1>2, <1>3, <1>5, <1>6 DEF Walked, J
<1>8. Puts(stack, stack', n, g)
  BY <1>1, StateFacts, PutsFacts, Zenon
<1>9. IsFrame(g, Len(blocks'))
  OBVIOUS
<1> HIDE DEF n
<1> QED
  BY <1>1, <1>7, <1>8, <1>9, OneFrame

LEMMA EndArmInv == IInv /\ EndArm => IInv'
<1> SUFFICES ASSUME IInv, EndArm PROVE IInv'
  OBVIOUS
<1> DEFINE g == [Caller EXCEPT !.starts = Append(@, Frame.start),
                               !.ends = Append(@, Frame.last)]
<1>1. /\ Running("basic_block") /\ Caller.fn = "branch" /\ Caller.orElse = 0
      /\ src' = Append(src, "end") /\ blocks' = blocks /\ builder' = builder
      /\ stack' = Append(SubSeq(stack, 1, Len(stack) - 2), g)
  BY DEF EndArm, Called, Pop
<1>2. /\ IsBranch(Caller, Len(blocks)) /\ ArmIsOpen(Caller)
      /\ IsBody(Frame, Len(blocks)) /\ Owed(Frame) = {Frame.last}
      /\ Frame.last \notin Owed(Caller) /\ Len(blocks) \in Nat
      /\ builder \in 1 .. Len(blocks)
  BY <1>1, BodyFacts, RunningFacts, FrameKinds, StateFacts DEF Calls, IInv, Typed
<1>3. Frame.start \in 1 .. Len(blocks) /\ Frame.last \in 1 .. Len(blocks)
  BY <1>2 DEF IsBody
<1>4. /\ IsBranch(g, Len(blocks)) /\ g.fn = "branch" /\ ArmsAreClosed(g)
      /\ Owed(g) = Owed(Caller) \cup {Frame.last}
  <2> DEFINE N == Len(blocks)
             s == Frame.start
             e == Frame.last
  <2>1. /\ N \in Nat /\ s \in 1 .. N /\ e \in 1 .. N /\ e \notin Owed(Caller)
        /\ IsBranch(Caller, N) /\ ArmIsOpen(Caller) /\ Caller.orElse = 0
    BY <1>1, <1>2, <1>3
  <2>2. g = [Caller EXCEPT !.starts = Append(@, s), !.ends = Append(@, e)]
    OBVIOUS
  <2> HIDE DEF N, s, e, g
  <2>3. LET h == [Caller EXCEPT !.starts = Append(@, s), !.ends = Append(@, e)] IN
        /\ IsBranch(h, N) /\ Owed(h) = Owed(Caller) \cup {e} /\ h.fn = "branch"
        /\ Caller.orElse = 0 /\ ArmIsOpen(Caller) => ArmsAreClosed(h)
    BY <2>1, AddArm
  <2> QED
    BY <2>1, <2>2, <2>3 DEF N, e
<1> HIDE DEF g
<1>5. IsFrame(g, Len(blocks)) /\ IsTop(g)
  BY <1>4 DEF IsFrame, IsTop
<1> QED
  BY <1>1, <1>2, <1>4, <1>5, ArmEndsInv

LEMMA EndElseInv == IInv /\ EndElse => IInv'
<1> SUFFICES ASSUME IInv, EndElse PROVE IInv'
  OBVIOUS
<1> DEFINE g == ConnectFrame(Caller, Caller.orElse, Frame.last)
<1>1. /\ Running("basic_block") /\ Caller.fn = "branch" /\ Caller.orElse # 0
      /\ src' = Append(src, "end") /\ blocks' = blocks /\ builder' = Frame.last
      /\ stack' = Append(SubSeq(stack, 1, Len(stack) - 2), g)
  BY DEF EndElse, Called, Pop
<1>2. /\ IsBranch(Caller, Len(blocks)) /\ ArmIsOpen(Caller)
      /\ IsBody(Frame, Len(blocks)) /\ Owed(Frame) = {Frame.last}
      /\ Frame.last \notin Owed(Caller) /\ Len(blocks) \in Nat
      /\ Len(blocks) <= Len(blocks)
  BY <1>1, BodyFacts, RunningFacts, FrameKinds, StateFacts DEF Calls
<1>3. /\ Frame.last \in 1 .. Len(blocks) /\ Caller.orElse \in 1 .. Len(blocks)
      /\ Len(Caller.conds) = Len(Caller.ends)
  BY <1>1, <1>2 DEF IsBody, IsBranch, ArmIsOpen
<1>4. /\ IsConnect(g, Len(blocks)) /\ g.fn = "connect"
      /\ Owed(g) = Owed(Caller) \cup {Frame.last}
  BY <1>2, <1>3, StartConnecting
<1> HIDE DEF g
<1>5. IsFrame(g, Len(blocks)) /\ IsTop(g)
  BY <1>4 DEF IsFrame, IsTop
<1> QED
  BY <1>1, <1>3, <1>4, <1>5, ArmEndsInv

\* Two open blocks are closed.
LEMMA EmitTwice ==
  ASSUME NEW S, NEW bs \in Seq(Seq(S)), Clean(bs),
         NEW c \in DOMAIN bs, NEW e \in DOMAIN bs, c # e,
         ~HasTerminator(bs[c]), ~HasTerminator(bs[e]),
         NEW x \in S, NEW y \in S, IsTerminator(x), IsTerminator(y)
  PROVE  LET cs == Emit(Emit(bs, c, x), e, y) IN
         /\ cs \in Seq(Seq(S)) /\ Len(cs) = Len(bs) /\ DOMAIN cs = DOMAIN bs
         /\ \A a \in DOMAIN bs \ {c, e} : cs[a] = bs[a]
         /\ HasTerminator(cs[c]) /\ HasTerminator(cs[e]) /\ Clean(cs)
<1> DEFINE ds == Emit(bs, c, x)
           cs == Emit(ds, e, y)
<1>1. /\ ds \in Seq(Seq(S)) /\ Len(ds) = Len(bs) /\ DOMAIN ds = DOMAIN bs
      /\ \A a \in DOMAIN bs \ {c} : ds[a] = bs[a]
      /\ HasTerminator(ds[c]) /\ Clean(ds)
  BY EmitFacts
<1> HIDE DEF ds
<1>2. e \in DOMAIN ds /\ ~HasTerminator(ds[e])
  BY <1>1
<1>3. /\ cs \in Seq(Seq(S)) /\ Len(cs) = Len(ds) /\ DOMAIN cs = DOMAIN ds
      /\ \A a \in DOMAIN ds \ {e} : cs[a] = ds[a]
      /\ HasTerminator(cs[e]) /\ Clean(cs)
  <2>1. /\ Emit(ds, e, y) \in Seq(Seq(S)) /\ Len(Emit(ds, e, y)) = Len(ds)
        /\ DOMAIN Emit(ds, e, y) = DOMAIN ds
        /\ \A a \in DOMAIN ds \ {e} : Emit(ds, e, y)[a] = ds[a]
        /\ HasTerminator(Emit(ds, e, y)[e]) <=> IsTerminator(y)
        /\ Clean(ds) /\ ~HasTerminator(ds[e]) => Clean(Emit(ds, e, y))
    <3>1. ds \in Seq(Seq(S)) /\ e \in DOMAIN ds /\ y \in S
      BY <1>1, <1>2
    <3> QED
      BY <3>1, EmitFacts
  <2> QED
    BY <1>1, <1>2, <2>1
<1> HIDE DEF cs
<1>4. /\ cs \in Seq(Seq(S)) /\ Len(cs) = Len(bs) /\ DOMAIN cs = DOMAIN bs
      /\ \A a \in DOMAIN bs \ {c, e} : cs[a] = bs[a]
      /\ HasTerminator(cs[c]) /\ HasTerminator(cs[e]) /\ Clean(cs)
  BY <1>1, <1>3
<1> QED
  BY <1>4 DEF cs, ds

LEMMA ConnectFacts ==
  ASSUME IInv, Running("connect")
  PROVE  /\ stack # <<>> /\ Frame.fn = "connect"
         /\ IsConnect(Frame, Len(blocks))
<1>1. stack # <<>> /\ Frame.fn = "connect"
  BY DEF Running, Frame
<1> QED
  BY <1>1, RunningFacts, FrameKinds

LEMMA ConnectArmInv == IInv /\ ConnectArm => IInv'
<1> SUFFICES ASSUME IInv, ConnectArm PROVE IInv'
  OBVIOUS
<1> DEFINE f == Frame
           N == Len(blocks)
           n == Len(stack) - 1
           c == f.conds[f.i]
           e == f.ends[f.i]
           x == CondBr(f.starts[f.i], f.conds[f.i + 1])
           y == Br(f.after)
           g == [f EXCEPT !.i = @ + 1]
           J == Instruction(Len(src), N)
<1>1. /\ Running("connect") /\ f.i < Len(f.conds) /\ src' = src
      /\ blocks' = Emit(Emit(blocks, c, x), e, y) /\ builder' = e
      /\ stack' = Append(SubSeq(stack, 1, n), g)
  BY DEF ConnectArm, Pop
<1>2. stack # <<>> /\ f.fn = "connect" /\ IsConnect(f, N)
  BY <1>1, ConnectFacts
<1>3. /\ n \in Nat /\ n >= 1 /\ n < Len(stack) /\ n \in 0 .. Len(stack)
      /\ n + 1 = Len(stack) /\ stack[n + 1] = f
      /\ Above(stack, n) = Owed(f)
      /\ N \in Nat /\ Len(src) \in Nat /\ Len(stack) \in Nat
      /\ DOMAIN blocks = 1 .. N /\ src \in Seq(Token)
      /\ blocks \in Seq(Seq(J)) /\ N <= N
  BY <1>2, CallerIsBody, StateFacts
<1>4. /\ IsConnect(g, N) /\ g.fn = "connect"
      /\ {c, e} \subseteq Owed(f) /\ c # e /\ Owed(g) = Owed(f) \ {c, e}
      /\ f.starts[f.i] \in 1 .. N /\ f.conds[f.i + 1] \in 1 .. N
  BY <1>1, <1>2, <1>3, OneTurn
<1>5. x \in J /\ y \in J /\ IsTerminator(x) /\ IsTerminator(y)
  <2>1. f.after \in 1 .. N
    BY <1>2, <1>3, ConnectRecord
  <2> QED
    BY <1>4, <2>1 DEF Instruction, Br, CondBr, IsTerminator
<1>6. /\ Owed(f) \subseteq DOMAIN blocks
      /\ \A b \in Owed(f) : ~HasTerminator(blocks[b])
  BY <1>2, RunningFacts
<1>7. /\ c \in DOMAIN blocks /\ ~HasTerminator(blocks[c])
      /\ e \in DOMAIN blocks /\ ~HasTerminator(blocks[e])
  BY <1>4, <1>6
<1>8. Puts(stack, stack', n, g)
  BY <1>1, <1>3, StateFacts, PutsFacts, Zenon
<1>9. Clean(blocks)
  BY DEF IInv
<1>10. IsFrame(g, N) /\ IsTop(g)
  BY <1>4 DEF IsFrame, IsTop
<1> HIDE DEF c, e, x, y, g, J, f
<1>11. /\ blocks' \in Seq(Seq(J)) /\ Len(blocks') = N
       /\ DOMAIN blocks' = DOMAIN blocks
       /\ \A a \in DOMAIN blocks \ {c, e} : blocks'[a] = blocks[a]
       /\ HasTerminator(blocks'[c]) /\ HasTerminator(blocks'[e])
       /\ Clean(blocks')
  <2>1. LET cs == Emit(Emit(blocks, c, x), e, y) IN
        /\ cs \in Seq(Seq(J)) /\ Len(cs) = Len(blocks) /\ DOMAIN cs = DOMAIN blocks
        /\ \A a \in DOMAIN blocks \ {c, e} : cs[a] = blocks[a]
        /\ HasTerminator(cs[c]) /\ HasTerminator(cs[e]) /\ Clean(cs)
    BY <1>3, <1>4, <1>5, <1>7, <1>9, EmitTwice, Zenon
  <2> QED
    BY <1>1, <2>1
<1>12. Settled(blocks, blocks', Above(stack, n), Owed(g))
  BY <1>3, <1>4, <1>6, <1>11 DEF Settled
<1>13. Len(src') + (n + 1) \div 2 - 1 <= MaxTokens
  BY <1>1, <1>2, <1>3 DEF IInv, Typed, OpenBodies
<1>14. Walked(n, n + 1, Owed(g))
  BY <1>1, <1>3, <1>7, <1>11, <1>12, <1>13 DEF Walked, J
<1> HIDE DEF n
<1> QED
  BY <1>2, <1>3, <1>4, <1>8, <1>10, <1>11, <1>14, OneFrame

LEMMA EndBranchInv == IInv /\ EndBranch => IInv'
<1> SUFFICES ASSUME IInv, EndBranch PROVE IInv'
  OBVIOUS
<1> DEFINE f == Caller
           N == Len(blocks)
           n == Len(stack) - 2
           start == Frame.conds[1]
           end == Frame.after
<1>1. /\ Running("connect") /\ Frame.i = Len(Frame.conds) /\ src' = src
      /\ AfterBlocks(blocks, f, SubSeq(stack, 1, n), start, end)
  BY DEF EndBranch, Pop
<1>2. stack # <<>> /\ Frame.fn = "connect" /\ IsConnect(Frame, N)
  BY <1>1, ConnectFacts
<1>3. /\ Len(stack) \in Nat /\ Len(stack) >= 3 /\ n \in Nat /\ n >= 1
      /\ n < Len(stack) /\ n + 2 = Len(stack)
      /\ f = stack[n + 1] /\ f.fn = "basic_block" /\ IsBody(f, N)
      /\ Owed(f) = {f.last} /\ N \in Nat /\ N <= N /\ Len(src) \in Nat
      /\ src \in Seq(Token) /\ blocks \in Seq(Seq(Instruction(Len(src), N)))
  <2>1. /\ Len(stack) - 1 \in Nat /\ Len(stack) - 1 >= 2 /\ Len(stack) \in Nat
        /\ f.fn = "basic_block" /\ IsBody(f, N) /\ Owed(f) = {f.last}
    BY <1>2, CallerIsBody, StateFacts
  <2>2. n + 1 = Len(stack) - 1
    BY <2>1
  <2> QED
    BY <2>1, <2>2, StateFacts DEF Caller
<1>4. Owed(Frame) = {end} /\ start \in 1 .. N /\ end \in 1 .. N
  BY <1>1, <1>2, <1>3, NoTurnLeft
<1>5. /\ Above(stack, n) = {f.last, end} /\ f.last # end
      /\ f.last \in DOMAIN blocks
      /\ \A b \in {f.last, end} : ~HasTerminator(blocks[b])
  BY <1>2, <1>3, <1>4, RunningFacts
<1>6. Settled(blocks, blocks, Above(stack, n), {f.last, end})
  BY <1>5 DEF Settled
<1>7. Len(src') + (n + 1) \div 2 - 1 <= MaxTokens
  <2>1. Len(src) + (Len(stack) \div 2 - 1) <= MaxTokens
    BY <1>2 DEF IInv, Typed, OpenBodies
  <2>2. (n + 1) \div 2 <= Len(stack) \div 2 /\ (n + 1) \div 2 \in Nat
        /\ Len(stack) \div 2 \in Nat
    BY <1>3
  <2> QED
    BY <1>1, <1>3, <2>1, <2>2, MaxTokensAssumption
<1>8. Clean(blocks)
  BY DEF IInv
<1>9. Joins(n, f, blocks, start, end)
  BY <1>1, <1>3, <1>4, <1>5, <1>6, <1>7, <1>8 DEF Joins
<1> HIDE DEF n, f, start, end
<1> QED
  BY <1>1, <1>3, <1>9, AfterBlocksInv, Zenon

-----------------------------------------------------------------------------
(* The ends of a loop and of the function.                                 *)

LEMMA EndWhileInv == IInv /\ EndWhile => IInv'
<1> SUFFICES ASSUME IInv, EndWhile PROVE IInv'
  OBVIOUS
<1> DEFINE f == stack[Len(stack) - 2]
           N == Len(blocks)
           n == Len(stack) - 3
           last == Frame.last
           cond == Caller.cond
           after == N + 1
           o == <<>>
           bs1 == Emit(blocks, last, Br(cond))
           mid == Append(bs1, o)
           x == CondBr(Frame.start, after)
           bs2 == Emit(mid, cond, x)
           J == Instruction(Len(src) + 1, N + 1)
<1>1. /\ Running("basic_block") /\ Caller.fn = "while" /\ src' = Append(src, "end")
      /\ AfterBlocks(bs2, f, SubSeq(stack, 1, n), cond, after)
  BY DEF EndWhile, Called, Pop, AppendBlock
<1>2. /\ stack # <<>> /\ IsBody(Frame, N) /\ Owed(Frame) = {last}
      /\ IsWhile(Caller, N) /\ Owed(Caller) = {cond}
      /\ N \in Nat /\ Len(src) \in Nat /\ Len(stack) \in Nat
      /\ DOMAIN blocks = 1 .. N
      /\ blocks \in Seq(Seq(Instruction(Len(src), N)))
  BY <1>1, BodyFacts, RunningFacts, FrameKinds, OwedFacts, StateFacts
<1>3. /\ Len(stack) >= 4 /\ IsBody(f, N) /\ Owed(f) = {f.last}
      /\ f.fn = "basic_block" /\ f.last # cond /\ f.last # last
      /\ f.last \in DOMAIN blocks /\ ~HasTerminator(blocks[f.last])
      /\ Above(stack, n) = {f.last, cond, last}
  BY <1>1, <1>2, EnclosingFacts
<1>4. /\ n \in Nat /\ n >= 1 /\ n < Len(stack) /\ n + 1 = Len(stack) - 2
      /\ f = stack[n + 1]
  BY <1>2, <1>3
<1>5. /\ cond # last /\ {cond, last} \subseteq DOMAIN blocks
      /\ ~HasTerminator(blocks[cond]) /\ ~HasTerminator(blocks[last])
  BY <1>2, RunningFacts
<1>6. /\ src' \in Seq(Token) /\ Len(src') = Len(src) + 1
      /\ Len(src') + (n + 1) \div 2 - 1 <= MaxTokens
  BY <1>1, <1>3, EndToken
<1>7. /\ Br(cond) \in J /\ IsTerminator(Br(cond)) /\ x \in J /\ IsTerminator(x)
      /\ o \in Seq(J) /\ Len(o) <= 1 /\ ~HasTerminator(o)
      /\ blocks \in Seq(Seq(J))
  <2>1. cond \in 1 .. N + 1 /\ Frame.start \in 1 .. N + 1 /\ after \in 1 .. N + 1
    BY <1>2, <1>5 DEF IsBody
  <2>2. /\ Br(cond) \in J /\ IsTerminator(Br(cond)) /\ x \in J /\ IsTerminator(x)
    BY <2>1 DEF Br, CondBr, IsTerminator, Instruction
  <2>3. o \in Seq(J) /\ Len(o) <= 1 /\ ~HasTerminator(o)
    BY DEF HasTerminator
  <2>4. Len(src) + 1 \in Nat /\ Len(src) <= Len(src) + 1 /\ N + 1 \in Nat /\ N <= N + 1
    BY <1>2
  <2>5. blocks \in Seq(Seq(J))
    BY <1>2, <2>4, BlocksGrow
  <2> QED
    BY <2>2, <2>3, <2>5
<1>8. Clean(blocks)
  BY DEF IInv
<1> HIDE DEF J, o, x, last, cond, f
<1>9. /\ bs1 \in Seq(Seq(J)) /\ Len(bs1) = N /\ DOMAIN bs1 = DOMAIN blocks
      /\ \A a \in DOMAIN blocks \ {last} : bs1[a] = blocks[a]
      /\ HasTerminator(bs1[last]) /\ Clean(bs1)
  BY <1>5, <1>7, <1>8, EmitFacts
<1> HIDE DEF bs1
<1>10. /\ mid \in Seq(Seq(J)) /\ Len(mid) = Len(bs1) + 1
       /\ DOMAIN mid = DOMAIN bs1 \cup {Len(bs1) + 1}
       /\ Len(bs1) + 1 \notin DOMAIN bs1
       /\ \A a \in DOMAIN bs1 : mid[a] = bs1[a]
       /\ mid[Len(bs1) + 1] = o
       /\ Clean(mid)
  BY <1>7, <1>9, NewBlockFacts
<1> HIDE DEF mid
<1>11. cond \in DOMAIN mid /\ ~HasTerminator(mid[cond]) /\ cond # after
  BY <1>5, <1>9, <1>10
<1>12. /\ bs2 \in Seq(Seq(J)) /\ Len(bs2) = Len(mid) /\ DOMAIN bs2 = DOMAIN mid
       /\ \A a \in DOMAIN mid \ {cond} : bs2[a] = mid[a]
       /\ HasTerminator(bs2[cond]) /\ Clean(bs2)
  <2>1. mid \in Seq(Seq(J)) /\ cond \in DOMAIN mid /\ x \in J
    BY <1>7, <1>10, <1>11
  <2>2. /\ Emit(mid, cond, x) \in Seq(Seq(J)) /\ Len(Emit(mid, cond, x)) = Len(mid)
        /\ DOMAIN Emit(mid, cond, x) = DOMAIN mid
        /\ \A a \in DOMAIN mid \ {cond} : Emit(mid, cond, x)[a] = mid[a]
        /\ HasTerminator(Emit(mid, cond, x)[cond]) <=> IsTerminator(x)
        /\ Clean(mid) /\ ~HasTerminator(mid[cond]) => Clean(Emit(mid, cond, x))
    BY <2>1, EmitFacts
  <2> QED
    BY <1>7, <1>10, <1>11, <2>2
<1> HIDE DEF bs2
<1>13. /\ Len(bs2) = after /\ DOMAIN bs2 = DOMAIN blocks \cup {after}
       /\ after \notin DOMAIN blocks
       /\ bs2[after] = o /\ HasTerminator(bs2[cond]) /\ HasTerminator(bs2[last])
       /\ \A a \in DOMAIN blocks \ {cond, last} : bs2[a] = blocks[a]
  BY <1>5, <1>9, <1>10, <1>11, <1>12
<1>14. Settled(blocks, bs2, Above(stack, n), {f.last, after})
  <2>1. DOMAIN bs2 \ DOMAIN blocks = {after}
    BY <1>13
  <2> HIDE DEF after
  <2> QED
    BY <1>3, <1>5, <1>7, <1>13, <2>1 DEF Settled
<1>15. /\ Len(bs2) \in Nat /\ N <= Len(bs2)
       /\ bs2 \in Seq(Seq(Instruction(Len(src'), Len(bs2))))
       /\ cond \in 1 .. Len(bs2) /\ after \in 1 .. Len(bs2) /\ after # f.last
  <2>1. bs2 \in Seq(Seq(Instruction(Len(src'), Len(bs2))))
    BY <1>6, <1>10, <1>12, <1>13 DEF J
  <2> QED
    BY <1>2, <1>3, <1>5, <1>13, <2>1, SMTT(30)
<1>16. Joins(n, f, bs2, cond, after)
  BY <1>3, <1>4, <1>6, <1>12, <1>14, <1>15 DEF Joins
<1> HIDE DEF n, after
<1> QED
  BY <1>1, <1>4, <1>16, AfterBlocksInv, Zenon

\* The function is finished: what its frames owe is the entry and the last
\* block of the body, and both get a terminator.
LEMMA EndFunctionInv == IInv /\ EndFunction => IInv'
<1> SUFFICES ASSUME IInv, EndFunction PROVE IInv'
  OBVIOUS
<1> DEFINE N == Len(blocks)
           last == Frame.last
           entry == Caller.entry
           end == N + 1
           bs == Emit(blocks, entry, Br(Frame.start))
           r == <<Ret(0)>>
           J == Instruction(Len(src), N + 1)
<1>1. /\ Running("basic_block") /\ Caller.fn = "func" /\ src' = src
      /\ IF HasTerminator(bs[last])
           THEN blocks' = bs
           ELSE blocks' = Append(Emit(bs, last, Br(end)), r)
      /\ builder' = entry /\ stack' = <<>>
  BY DEF EndFunction, Called
<1>2. /\ stack # <<>> /\ IsBody(Frame, N) /\ Owed(Frame) = {last}
      /\ IsFunc(Caller, N) /\ Owed(Caller) = {entry}
      /\ N \in Nat /\ Len(src) \in Nat /\ Len(stack) \in Nat
      /\ Len(stack) >= 2 /\ DOMAIN stack = 1 .. Len(stack)
      /\ DOMAIN blocks = 1 .. N
      /\ blocks \in Seq(Seq(Instruction(Len(src), N)))
  BY <1>1, BodyFacts, RunningFacts, FrameKinds, OwedFacts, StateFacts
<1>3. /\ entry # last /\ {entry, last} \subseteq DOMAIN blocks
      /\ ~HasTerminator(blocks[entry]) /\ ~HasTerminator(blocks[last])
  BY <1>2, RunningFacts
<1>4. Len(stack) = 2
  <2>1. ASSUME Len(stack) > 2 PROVE FALSE
    <3>1. Len(stack) - 2 \in 1 .. Len(stack) - 1
      BY <1>2, <2>1
    <3>2. Calls(stack[Len(stack) - 2], stack[(Len(stack) - 2) + 1])
      BY <1>2, <3>1 DEF IInv, Stacked
    <3>3. stack[(Len(stack) - 2) + 1] = Caller
      BY <1>2 DEF Caller
    <3> QED
      BY <1>1, <3>2, <3>3 DEF Calls
  <2> QED
    BY <1>2, <2>1
<1>5. \A b \in DOMAIN blocks \ {entry, last} : HasTerminator(blocks[b])
  <2>1. stack[1] = Caller /\ stack[2] = Frame /\ DOMAIN stack = {1, 2}
    BY <1>2, <1>4 DEF Caller, Frame
  <2> QED
    BY <1>2, <2>1 DEF IInv, Owing
<1>6. /\ Br(Frame.start) \in J /\ Br(end) \in J
      /\ IsTerminator(Br(Frame.start)) /\ IsTerminator(Br(end))
      /\ r \in Seq(J) /\ Len(r) <= 1 /\ HasTerminator(r)
      /\ blocks \in Seq(Seq(J))
  <2>1. Frame.start \in 1 .. N + 1 /\ end \in 1 .. N + 1
    BY <1>2 DEF IsBody
  <2>2. /\ Br(Frame.start) \in J /\ Br(end) \in J /\ Ret(0) \in J
        /\ IsTerminator(Br(Frame.start)) /\ IsTerminator(Br(end))
        /\ IsTerminator(Ret(0))
    BY <1>2, <2>1 DEF Br, Ret, IsTerminator, Instruction
  <2>3. r \in Seq(J) /\ Len(r) <= 1 /\ HasTerminator(r)
    BY <2>2 DEF HasTerminator
  <2>4. N + 1 \in Nat /\ N <= N + 1 /\ Len(src) <= Len(src)
    BY <1>2
  <2>5. blocks \in Seq(Seq(J))
    BY <1>2, <2>4, BlocksGrow
  <2> QED
    BY <2>2, <2>3, <2>5
<1>7. Clean(blocks)
  BY DEF IInv
<1> DEFINE cs == Emit(bs, last, Br(end))
<1> HIDE DEF J, r, last, entry
<1>8. /\ bs \in Seq(Seq(J)) /\ Len(bs) = N /\ DOMAIN bs = DOMAIN blocks
      /\ \A a \in DOMAIN blocks \ {entry} : bs[a] = blocks[a]
      /\ HasTerminator(bs[entry]) /\ Clean(bs)
  BY <1>3, <1>6, <1>7, EmitFacts
<1> HIDE DEF bs
<1>9. last \in DOMAIN bs /\ ~HasTerminator(bs[last])
  BY <1>3, <1>8
<1>10. blocks' = Append(cs, r)
  BY <1>1, <1>9
<1>11. /\ cs \in Seq(Seq(J)) /\ Len(cs) = Len(bs) /\ DOMAIN cs = DOMAIN bs
       /\ \A a \in DOMAIN bs \ {last} : cs[a] = bs[a]
       /\ HasTerminator(cs[last]) /\ Clean(cs)
  <2> DEFINE y == Br(end)
  <2>1. bs \in Seq(Seq(J)) /\ last \in DOMAIN bs /\ y \in J /\ IsTerminator(y)
    BY <1>6, <1>8, <1>9
  <2> HIDE DEF y
  <2>2. /\ Emit(bs, last, y) \in Seq(Seq(J)) /\ Len(Emit(bs, last, y)) = Len(bs)
        /\ DOMAIN Emit(bs, last, y) = DOMAIN bs
        /\ \A a \in DOMAIN bs \ {last} : Emit(bs, last, y)[a] = bs[a]
        /\ HasTerminator(Emit(bs, last, y)[last]) <=> IsTerminator(y)
        /\ Clean(bs) /\ ~HasTerminator(bs[last]) => Clean(Emit(bs, last, y))
    BY <2>1, EmitFacts
  <2> QED
    BY <1>8, <1>9, <2>1, <2>2 DEF y
<1> HIDE DEF cs
<1>12. /\ blocks' \in Seq(Seq(J)) /\ Len(blocks') = Len(cs) + 1
       /\ DOMAIN blocks' = DOMAIN cs \cup {Len(cs) + 1}
       /\ \A a \in DOMAIN cs : blocks'[a] = cs[a]
       /\ blocks'[Len(cs) + 1] = r
       /\ Clean(blocks')
  <2>1. /\ Append(cs, r) \in Seq(Seq(J)) /\ Len(Append(cs, r)) = Len(cs) + 1
        /\ DOMAIN Append(cs, r) = DOMAIN cs \cup {Len(cs) + 1}
        /\ \A a \in DOMAIN cs : Append(cs, r)[a] = cs[a]
        /\ Append(cs, r)[Len(cs) + 1] = r
        /\ Clean(cs) => Clean(Append(cs, r))
    BY <1>6, <1>11, NewBlockFacts
  <2> QED
    BY <1>10, <1>11, <2>1
<1>13. \A b \in DOMAIN blocks' : HasTerminator(blocks'[b])
  BY <1>5, <1>6, <1>8, <1>11, <1>12
<1>14. Len(blocks') = N + 1 /\ builder' \in 1 .. N + 1
  BY <1>1, <1>2, <1>3, <1>8, <1>11, <1>12
<1>15. Typed'
  <2>1. stack' \in Seq({}) /\ DOMAIN stack' = {}
    BY <1>1
  <2>2. src \in Seq(Token) /\ Len(src) <= MaxTokens
    BY DEF IInv, Typed
  <2> QED
    BY <1>1, <1>12, <1>14, <2>1, <2>2 DEF Typed, J
<1>16. Owing(blocks', stack')
  BY <1>1, <1>13 DEF Owing
<1>17. ~Running("basic_block")'
  BY <1>1 DEF Running
<1> QED
  BY <1>1, <1>12, <1>15, <1>16, <1>17 DEF IInv

-----------------------------------------------------------------------------
(* The theorems.                                                           *)

\* Every action keeps IInv.
LEMMA NextIInv == IInv /\ [Next]_vars => IInv'
<1> SUFFICES ASSUME IInv, [Next]_vars PROVE IInv'
  OBVIOUS
<1>1. CASE Next
  <2>1. CASE SimpleStatement
    BY <2>1, SimpleStatementInv
  <2>2. CASE ReturnStatement
    BY <2>2, ReturnStatementInv
  <2>3. CASE BeginWhile
    BY <2>3, BeginWhileInv
  <2>4. CASE EndWhile
    BY <2>4, EndWhileInv
  <2>5. CASE BeginBranch
    BY <2>5, BeginBranchInv
  <2>6. CASE EndArm
    BY <2>6, EndArmInv
  <2>7. CASE ElseIf
    BY <2>7, ElseIfInv
  <2>8. CASE BeginElse
    BY <2>8, BeginElseInv
  <2>9. CASE NoElse
    BY <2>9, NoElseInv
  <2>10. CASE EndElse
    BY <2>10, EndElseInv
  <2>11. CASE ConnectArm
    BY <2>11, ConnectArmInv
  <2>12. CASE EndBranch
    BY <2>12, EndBranchInv
  <2>13. CASE EndFunction
    BY <2>13, EndFunctionInv
  <2> QED
    BY <1>1, <2>1, <2>2, <2>3, <2>4, <2>5, <2>6, <2>7, <2>8, <2>9, <2>10,
       <2>11, <2>12, <2>13 DEF Next
<1>2. CASE UNCHANGED vars
  BY <1>2 DEF vars, IInv, Typed, Clean, Stacked, Owing, Running, Frame, OpenBodies
<1> QED
  BY <1>1, <1>2

\* IInv holds in every reachable state.
LEMMA Invariance == Spec => []IInv
<1> QED
  BY InitIInv, NextIInv, PTL DEF Spec

\* Every jump goes to a block of the function and every instruction comes from
\* a token of its source, for every length of the source.
THEOREM TypeCorrect == Spec => []TypeOK
<1>1. IInv => TypeOK
  <2> SUFFICES ASSUME IInv PROVE TypeOK
    OBVIOUS
  <2>1. /\ src \in Seq(Token) /\ Len(src) <= MaxTokens
        /\ builder \in 1 .. Len(blocks)
        /\ DOMAIN src = 1 .. Len(src) /\ DOMAIN blocks = 1 .. Len(blocks)
    BY StateFacts DEF IInv, Typed
  <2>2. ASSUME NEW b \in DOMAIN blocks, NEW k \in DOMAIN blocks[b]
        PROVE  LET ins == blocks[b][k] IN
               CASE ins.op = "eval"   -> ins.token \in DOMAIN src
                 [] ins.op = "ret"    -> ins.token \in DOMAIN src \cup {0}
                 [] ins.op = "br"     -> ins.to \in DOMAIN blocks
                 [] ins.op = "condbr" -> {ins.yes, ins.no} \subseteq DOMAIN blocks
    <3> DEFINE ins == blocks[b][k]
    <3>1. blocks[b] \in Seq(Instruction(Len(src), Len(blocks)))
      BY StateFacts
    <3>2. ins \in Instruction(Len(src), Len(blocks))
      BY <3>1
    <3> HIDE DEF ins
    <3>3. \/ ins.op = "eval" /\ ins.token \in DOMAIN src
          \/ ins.op = "ret" /\ ins.token \in DOMAIN src \cup {0}
          \/ ins.op = "br" /\ ins.to \in DOMAIN blocks
          \/ ins.op = "condbr" /\ {ins.yes, ins.no} \subseteq DOMAIN blocks
      <4> DEFINE n == Len(src)
                 N == Len(blocks)
      <4>1. n \in Nat /\ DOMAIN src = 1 .. n /\ DOMAIN blocks = 1 .. N
        BY <2>1, StateFacts
      <4>2. \/ ins \in [op : {"eval"}, token : 1 .. n]
            \/ ins \in [op : {"ret"}, token : 0 .. n]
            \/ ins \in [op : {"br"}, to : 1 .. N]
            \/ ins \in [op : {"condbr"}, yes : 1 .. N, no : 1 .. N]
        BY <3>2 DEF Instruction
      <4>3. 0 .. n = 1 .. n \cup {0}
        BY <4>1
      <4> HIDE DEF n, N
      <4>4. ins \in [op : {"eval"}, token : 1 .. n]
              => ins.op = "eval" /\ ins.token \in DOMAIN src
        BY <4>1
      <4>5. ins \in [op : {"ret"}, token : 0 .. n]
              => ins.op = "ret" /\ ins.token \in DOMAIN src \cup {0}
        BY <4>1, <4>3
      <4>6. ins \in [op : {"br"}, to : 1 .. N]
              => ins.op = "br" /\ ins.to \in DOMAIN blocks
        BY <4>1
      <4>7. ins \in [op : {"condbr"}, yes : 1 .. N, no : 1 .. N]
              => ins.op = "condbr" /\ {ins.yes, ins.no} \subseteq DOMAIN blocks
        BY <4>1
      <4> QED
        BY <4>2, <4>4, <4>5, <4>6, <4>7
    <3>4. (CASE ins.op = "eval"   -> ins.token \in DOMAIN src
             [] ins.op = "ret"    -> ins.token \in DOMAIN src \cup {0}
             [] ins.op = "br"     -> ins.to \in DOMAIN blocks
             [] ins.op = "condbr" -> {ins.yes, ins.no} \subseteq DOMAIN blocks)
      BY <3>3
    <3> QED
      BY <3>4 DEF ins
  <2> QED
    BY <2>1, <2>2 DEF TypeOK
<1> QED
  BY <1>1, Invariance, PTL

\* However bodies nest, no instruction is appended to a block that already has
\* its terminator (impl_while, impl_branch and impl_basic_block of
\* src/src/llvm/llvm-ir/stmt.c each finish blocks that another one left).
THEOREM TerminatorsAreLast == Spec => []NothingAfterTerminator
<1>1. IInv => NothingAfterTerminator
  BY DEF IInv, Clean, NothingAfterTerminator
<1> QED
  BY <1>1, Invariance, PTL

\* Each statement is generated at the open end of its own body, whatever loops
\* and branches moved the builder before (src/src/llvm/llvm-ir/stmt.c).
THEOREM BuilderIsAtOpenEnd == Spec => []BuilderAtOpenEnd
<1>1. IInv => BuilderAtOpenEnd
  BY BodyFacts DEF BuilderAtOpenEnd
<1> QED
  BY <1>1, Invariance, PTL

\* When impl_func_def has returned (src/src/llvm/llvm-ir/func.c) nothing is
\* owed: no block of the function is open, for every program.
THEOREM BlocksAreTerminated == Spec => []EveryBlockTerminated
<1>1. IInv => EveryBlockTerminated
  <2> SUFFICES ASSUME IInv, stack = <<>>, NEW b \in DOMAIN blocks
               PROVE  HasTerminator(blocks[b])
    BY DEF EveryBlockTerminated
  <2>1. DOMAIN stack = {}
    OBVIOUS
  <2> QED
    BY <2>1 DEF IInv, Owing
<1> QED
  BY <1>1, Invariance, PTL

(***************************************************************************)
(* What the blocks mean.                                                   *)
(*                                                                         *)
(* Each action keeps Means.  When the last call has returned, every body   *)
(* is closed, Arrive is one of the functions A that Means speaks of, and   *)
(* all promises are kept by instructions: lab is what the blocks evaluate  *)
(* first (EnterIs).  A jump that begins a block leads to a later block or  *)
(* to one that evaluates at once (Forward), so that a walk along such      *)
(* jumps ends.                                                             *)
(***************************************************************************)

-----------------------------------------------------------------------------
(* Numbers.                                                                *)

\* SetMin is the least element.
LEMMA SetMinIs ==
  ASSUME NEW S \in SUBSET Nat, S # {}
  PROVE  SetMin(S) \in S /\ \A y \in S : SetMin(S) <= y
<1> DEFINE R == OpToRel(<, Nat)
<1>1. IsWellFoundedOn(R, Nat)
  BY NatLessThanWellFounded
<1> HIDE DEF R
<1>2. PICK m \in S : \A y \in S : <<y, m>> \notin R
  BY <1>1, WFMin
<1>3. \A y \in S : ~(y < m)
  BY <1>2 DEF OpToRel, R
<1>4. m \in S /\ \A y \in S : m <= y
  BY <1>3
<1> QED
  BY <1>4 DEF SetMin

\* What holds of N and passes from each number to the one before it holds of
\* all numbers up to N.
LEMMA Backwards ==
  ASSUME NEW N \in Nat, NEW S, N \in S,
         \A n \in 0 .. N - 1 : n + 1 \in S => n \in S
  PROVE  \A n \in 0 .. N : n \in S
<1> DEFINE Bad == {k \in 0 .. N : N - k \notin S}
<1> SUFFICES ASSUME Bad # {} PROVE FALSE
  <2>1. ASSUME Bad = {}, NEW n \in 0 .. N PROVE n \in S
    <3> DEFINE k == N - n
    <3>1. k \in 0 .. N /\ N - k = n
      OBVIOUS
    <3> HIDE DEF k
    <3> QED
      BY <2>1, <3>1
  <2> QED
    BY <2>1
<1>1. Bad \in SUBSET Nat
  OBVIOUS
<1>2. PICK k \in Bad : \A y \in Bad : k <= y
  BY <1>1, SetMinIs
<1>3. k \in 0 .. N /\ N - k \notin S
  BY <1>2
<1>4. k # 0
  BY <1>3
<1>5. k - 1 \in 0 .. N /\ k - 1 \notin Bad
  BY <1>2, <1>3, <1>4
<1>6. N - (k - 1) \in S /\ N - (k - 1) = (N - k) + 1 /\ N - k \in 0 .. N - 1
  BY <1>3, <1>4, <1>5
<1> QED
  BY <1>3, <1>6

-----------------------------------------------------------------------------
(* Bodies in the source.                                                   *)

\* A source with a token more.
LEMMA SourceFacts ==
  ASSUME NEW s \in Seq(Token), NEW t \in Token
  PROVE  /\ Len(s) \in Nat /\ DOMAIN s = 1 .. Len(s)
         /\ Append(s, t) \in Seq(Token) /\ Len(Append(s, t)) = Len(s) + 1
         /\ DOMAIN Append(s, t) = 1 .. Len(s) + 1
         /\ DOMAIN Append(s, t) = DOMAIN s \cup {Len(s) + 1}
         /\ \A p \in 1 .. Len(s) : Append(s, t)[p] = s[p]
         /\ Append(s, t)[Len(s) + 1] = t
<1>1. Len(s) \in Nat /\ DOMAIN s = 1 .. Len(s)
  OBVIOUS
<1>2. Append(s, t) \in Seq(Token) /\ Len(Append(s, t)) = Len(s) + 1
      /\ DOMAIN Append(s, t) = 1 .. Len(s) + 1
  OBVIOUS
<1>3. 1 .. Len(s) + 1 = DOMAIN s \cup {Len(s) + 1}
  BY <1>1
<1>4. /\ \A p \in 1 .. Len(s) : Append(s, t)[p] = s[p]
      /\ Append(s, t)[Len(s) + 1] = t
  BY <1>1
<1> QED
  BY <1>1, <1>2, <1>3, <1>4

\* A token more changes the depth by one at most, and only at its own place.
LEMMA CountIn ==
  ASSUME NEW s, NEW C, NEW p \in Nat
  PROVE  /\ IsFiniteSet({q \in 1 .. p : s[q] \in C})
         /\ Cardinality({q \in 1 .. p : s[q] \in C}) \in Nat
<1>1. IsFiniteSet(1 .. p)
  BY FS_Interval
<1>2. {q \in 1 .. p : s[q] \in C} \in SUBSET (1 .. p)
  OBVIOUS
<1> QED
  BY <1>1, <1>2, FS_Subset, FS_CardinalityType

\* What one place more counts.
LEMMA CountNext ==
  ASSUME NEW s, NEW C, NEW p \in Nat
  PROVE  Cardinality({q \in 1 .. p + 1 : s[q] \in C})
           = Cardinality({q \in 1 .. p : s[q] \in C}) + (IF s[p + 1] \in C THEN 1 ELSE 0)
<1> DEFINE U == {q \in 1 .. p : s[q] \in C}
           V == {q \in 1 .. p + 1 : s[q] \in C}
<1>1. IsFiniteSet(U) /\ Cardinality(U) \in Nat
  BY CountIn
<1>2. 1 .. p + 1 = (1 .. p) \cup {p + 1} /\ p + 1 \notin 1 .. p
  OBVIOUS
<1>3. CASE s[p + 1] \in C
  <2>1. V = U \cup {p + 1} /\ p + 1 \notin U
    BY <1>2, <1>3
  <2> HIDE DEF U, V
  <2>2. Cardinality(V) = Cardinality(U) + 1
    BY <1>1, <2>1, FS_AddElement
  <2> QED
    BY <1>3, <2>2 DEF U, V
<1>4. CASE s[p + 1] \notin C
  <2>1. V = U
    BY <1>2, <1>4
  <2> HIDE DEF U, V
  <2>2. Cardinality(V) = Cardinality(U) + 0
    BY <1>1, <2>1
  <2> QED
    BY <1>4, <2>2 DEF U, V
<1> QED
  BY <1>3, <1>4

\* The depth of a source with a token more.
LEMMA DepthFacts ==
  ASSUME NEW s \in Seq(Token), NEW t \in Token
  PROVE  /\ \A p \in 0 .. Len(s) : DepthIn(s, p) \in Int
         /\ \A p \in 0 .. Len(s) : DepthIn(Append(s, t), p) = DepthIn(s, p)
         /\ DepthIn(Append(s, t), Len(s) + 1)
              = DepthIn(s, Len(s)) + (IF t \in Opening THEN 1
                                      ELSE IF t = "end" THEN -1 ELSE 0)
<1> DEFINE u == Append(s, t)
           n == Len(s)
<1>1. /\ n \in Nat /\ \A p \in 1 .. n : u[p] = s[p]
      /\ u[n + 1] = t
  BY SourceFacts
<1> HIDE DEF u
<1>2. ASSUME NEW p \in 0 .. n
      PROVE  DepthIn(s, p) \in Int /\ DepthIn(u, p) = DepthIn(s, p)
  <2> DEFINE E == {"end"}
  <2>1. p \in Nat /\ \A q \in 1 .. p : u[q] = s[q]
    BY <1>1
  <2>2. /\ Cardinality({q \in 1 .. p : s[q] \in Opening}) \in Nat
        /\ Cardinality({q \in 1 .. p : s[q] \in E}) \in Nat
    BY <2>1, CountIn
  <2>3. {q \in 1 .. p : s[q] \in E} = {q \in 1 .. p : s[q] = "end"}
    OBVIOUS
  <2>4. DepthIn(s, p) \in Int
    BY <2>2, <2>3 DEF DepthIn
  <2>5. /\ {q \in 1 .. p : s[q] = "end"} = {q \in 1 .. p : u[q] = "end"}
        /\ {q \in 1 .. p : s[q] \in Opening} = {q \in 1 .. p : u[q] \in Opening}
    BY <2>1
  <2> QED
    BY <2>4, <2>5 DEF DepthIn
<1>3. DepthIn(u, n + 1) = DepthIn(u, n) + (IF t \in Opening THEN 1
                                           ELSE IF t = "end" THEN -1 ELSE 0)
  <2> DEFINE E == {"end"}
             a == Cardinality({q \in 1 .. n : u[q] \in Opening})
             b == Cardinality({q \in 1 .. n : u[q] \in E})
             c == Cardinality({q \in 1 .. n + 1 : u[q] \in Opening})
             d == Cardinality({q \in 1 .. n + 1 : u[q] \in E})
  <2>1. a \in Nat /\ b \in Nat
    BY <1>1, CountIn
  <2>2. c = a + (IF u[n + 1] \in Opening THEN 1 ELSE 0)
    BY <1>1, CountNext
  <2>3. d = b + (IF u[n + 1] \in E THEN 1 ELSE 0)
    BY <1>1, CountNext
  <2>4. DepthIn(u, n) = a - b /\ DepthIn(u, n + 1) = c - d
    <3>1. /\ {q \in 1 .. n : u[q] \in E} = {q \in 1 .. n : u[q] = "end"}
          /\ {q \in 1 .. n + 1 : u[q] \in E} = {q \in 1 .. n + 1 : u[q] = "end"}
      OBVIOUS
    <3> QED
      BY <3>1 DEF DepthIn
  <2> HIDE DEF a, b, c, d
  <2>5. t \in Opening => t # "end"
    BY DEF Opening
  <2> QED
    BY <1>1, <2>1, <2>2, <2>3, <2>4, <2>5
<1>4. n \in 0 .. n
  BY <1>1
<1> QED
  BY <1>2, <1>3, <1>4 DEF u

\* A closed body stays closed.
LEMMA ClosesStays ==
  ASSUME NEW s \in Seq(Token), NEW t \in Token, NEW c, NEW i, Closes(s, c, i)
  PROVE  Closes(Append(s, t), c, i)
<1> DEFINE u == Append(s, t)
<1>1. /\ Len(s) \in Nat /\ DOMAIN s = 1 .. Len(s) /\ Len(u) = Len(s) + 1
      /\ DOMAIN u = 1 .. Len(s) + 1
      /\ \A p \in 1 .. Len(s) : u[p] = s[p]
  BY SourceFacts
<1>2. \A p \in 0 .. Len(s) : DepthIn(u, p) = DepthIn(s, p)
  BY DepthFacts
<1> HIDE DEF u
<1> QED
  BY <1>1, <1>2 DEF Closes, u

\* The ends that are new are the last token.
LEMMA ClosesWas ==
  ASSUME NEW s \in Seq(Token), NEW t \in Token, NEW c, NEW i,
         Closes(Append(s, t), c, i)
  PROVE  /\ c \in 1 .. Len(s) => Closes(s, c, i)
         /\ c \notin 1 .. Len(s) => c = Len(s) + 1 /\ t = "end"
         /\ i \in DOMAIN s /\ s[i] \in Opening /\ Append(s, t)[i] = s[i]
<1> DEFINE u == Append(s, t)
<1>1. /\ Len(s) \in Nat /\ DOMAIN s = 1 .. Len(s) /\ Len(u) = Len(s) + 1
      /\ DOMAIN u = 1 .. Len(s) + 1
      /\ \A p \in 1 .. Len(s) : u[p] = s[p]
      /\ u[Len(s) + 1] = t
  BY SourceFacts
<1>2. \A p \in 0 .. Len(s) : DepthIn(u, p) = DepthIn(s, p)
  BY DepthFacts
<1> HIDE DEF u
<1>3. Closes(u, c, i)
  BY DEF u
<1>4. i \in 1 .. Len(s) /\ c \in i + 1 .. Len(s) + 1 /\ s[i] \in Opening /\ u[i] = s[i]
      /\ u[c] = "end"
  BY <1>1, <1>3 DEF Closes
<1>5. c \in 1 .. Len(s) => Closes(s, c, i)
  BY <1>1, <1>2, <1>3, <1>4 DEF Closes
<1>6. c \notin 1 .. Len(s) => c = Len(s) + 1 /\ t = "end"
  BY <1>1, <1>4
<1> QED
  BY <1>1, <1>4, <1>5, <1>6 DEF u

\* A body has one end.
LEMMA OneEnd ==
  ASSUME NEW s \in Seq(Token), NEW c, NEW d, NEW i, Closes(s, c, i), Closes(s, d, i)
  PROVE  c = d
<1>1. Len(s) \in Nat /\ DOMAIN s = 1 .. Len(s)
  OBVIOUS
<1> QED
  BY <1>1 DEF Closes

\* A body ends after its opener, inside the source.
LEMMA ClosesRange ==
  ASSUME NEW s \in Seq(Token), NEW c, NEW i, Closes(s, c, i)
  PROVE  c \in DOMAIN s /\ i \in DOMAIN s /\ i < c /\ i \in Nat /\ c \in Nat
         /\ c <= Len(s) /\ c + 1 \in Nat /\ i + 1 \in Nat /\ c + 2 \in Nat
<1>1. Len(s) \in Nat /\ DOMAIN s = 1 .. Len(s)
  OBVIOUS
<1> QED
  BY <1>1 DEF Closes

\* What stays so when s grows to u: k of the m bodies stay open.
Stays(s, u, m, k, open) ==
  /\ \A d \in 1 .. k :
       /\ open[2 * d + 2] \in DOMAIN s
       /\ open[2 * d + 2] \in DOMAIN u
       /\ u[open[2 * d + 2]] \in Opening
       /\ DepthIn(u, open[2 * d + 2]) = d
       /\ \A q \in open[2 * d + 2] .. Len(u) : DepthIn(u, q) >= d
  /\ \A i \in DOMAIN s : u[i] \in Opening =>
       \/ \E d \in 1 .. m : open[2 * d + 2] = i
       \/ \E c \in DOMAIN u : Closes(u, c, i)
  /\ \A c \in DOMAIN s, i, j \in DOMAIN u : Closes(u, c, i) /\ Closes(u, c, j) => i = j
  /\ \A c \in DOMAIN s : u[c] = "end" => \E i \in DOMAIN u : Closes(u, c, i)

\* The open bodies that stay open, and the closed ones, when a token comes.
LEMMA NestedStays ==
  ASSUME NEW s \in Seq(Token), NEW t \in Token, NEW m, NEW open, Nested(s, m, open),
         NEW k \in 0 .. m, \A d \in 1 .. k : DepthIn(Append(s, t), Len(s) + 1) >= d
  PROVE  Stays(s, Append(s, t), m, k, open)
<1> DEFINE u == Append(s, t)
           e == Len(s) + 1
<1>1. /\ Len(s) \in Nat /\ DOMAIN s = 1 .. Len(s) /\ Len(u) = e
      /\ DOMAIN u = DOMAIN s \cup {e}
      /\ \A p \in 1 .. Len(s) : u[p] = s[p]
      /\ u \in Seq(Token) /\ DOMAIN u = 1 .. e
  BY SourceFacts
<1>2. \A p \in 0 .. Len(s) : DepthIn(u, p) = DepthIn(s, p)
  BY DepthFacts
<1>3. \A d \in 1 .. m :
       /\ open[2 * d + 2] \in DOMAIN s
       /\ s[open[2 * d + 2]] \in Opening
       /\ DepthIn(s, open[2 * d + 2]) = d
       /\ \A q \in open[2 * d + 2] .. Len(s) : DepthIn(s, q) >= d
  BY DEF Nested
<1>4. m \in Nat
  BY DEF Nested
<1>5. ASSUME NEW c, NEW i, Closes(s, c, i) PROVE Closes(u, c, i)
  BY <1>5, ClosesStays
<1>6. ASSUME NEW c \in DOMAIN s, NEW i, Closes(u, c, i)
      PROVE  Closes(s, c, i) /\ i \in DOMAIN s
  BY <1>1, <1>6, ClosesWas
<1> HIDE DEF u
<1>7. ASSUME NEW d \in 1 .. k
      PROVE  /\ open[2 * d + 2] \in DOMAIN s
             /\ open[2 * d + 2] \in DOMAIN u
             /\ u[open[2 * d + 2]] \in Opening
             /\ DepthIn(u, open[2 * d + 2]) = d
             /\ \A q \in open[2 * d + 2] .. Len(u) : DepthIn(u, q) >= d
  <2> DEFINE o == open[2 * d + 2]
  <2>1. d \in 1 .. m
    BY <1>4
  <2>2. /\ o \in DOMAIN s /\ s[o] \in Opening /\ DepthIn(s, o) = d
        /\ \A q \in o .. Len(s) : DepthIn(s, q) >= d
    BY <1>3, <2>1
  <2> HIDE DEF o
  <2>3. o \in DOMAIN u /\ u[o] \in Opening /\ DepthIn(u, o) = d
    BY <1>1, <1>2, <2>2
  <2>4. DepthIn(u, e) >= d
    BY DEF u
  <2>5. ASSUME NEW q \in o .. Len(u) PROVE DepthIn(u, q) >= d
    <3>1. q \in o .. Len(s) \/ q = e
      BY <1>1, <2>2
    <3>2. ASSUME q \in o .. Len(s) PROVE DepthIn(u, q) = DepthIn(s, q)
      BY <1>1, <1>2, <2>2, <3>2
    <3> QED
      BY <2>2, <2>4, <3>1, <3>2
  <2> QED
    BY <2>2, <2>3, <2>5 DEF o
<1>8. ASSUME NEW i \in DOMAIN s, u[i] \in Opening
      PROVE  \/ \E d \in 1 .. m : open[2 * d + 2] = i
             \/ \E c \in DOMAIN u : Closes(u, c, i)
  <2>1. s[i] \in Opening
    BY <1>1, <1>8
  <2>2. (\E d \in 1 .. m : open[2 * d + 2] = i) \/ (\E c \in DOMAIN s : Closes(s, c, i))
    BY <2>1 DEF Nested
  <2> QED
    BY <1>1, <1>5, <2>2
<1>9. ASSUME NEW c \in DOMAIN s, NEW i \in DOMAIN u, NEW j \in DOMAIN u,
             Closes(u, c, i), Closes(u, c, j)
      PROVE  i = j
  <2>1. Closes(s, c, i) /\ Closes(s, c, j) /\ i \in DOMAIN s /\ j \in DOMAIN s
    BY <1>6, <1>9
  <2> QED
    BY <2>1 DEF Nested
<1>10. ASSUME NEW c \in DOMAIN s, u[c] = "end"
       PROVE  \E i \in DOMAIN u : Closes(u, c, i)
  <2>1. s[c] = "end"
    BY <1>1, <1>10
  <2>2. PICK i \in DOMAIN s : Closes(s, c, i)
    BY <2>1 DEF Nested
  <2> QED
    BY <1>1, <1>5, <2>2
<1> QED
  BY <1>7, <1>8, <1>9, <1>10 DEF Stays, u

\* A statement changes nothing.
LEMMA NestedStatement ==
  ASSUME NEW s \in Seq(Token), NEW t \in {"stmt", "return"}, NEW m, NEW open,
         Nested(s, m, open)
  PROVE  Nested(Append(s, t), m, open)
<1> DEFINE u == Append(s, t)
           e == Len(s) + 1
<1>1. t \in Token /\ t \notin Opening /\ t # "end"
  BY DEF Token, Opening
<1>2. /\ Len(s) \in Nat /\ Len(u) = e /\ DOMAIN u = DOMAIN s \cup {e} /\ u[e] = t
      /\ DOMAIN s = 1 .. Len(s)
  BY <1>1, SourceFacts
<1>3. DepthIn(u, e) = m
  BY <1>1, <1>2, DepthFacts DEF Nested
<1>4. m \in Nat /\ open \in [Nat -> Nat] /\ open[2] = 0 /\ m \in 0 .. m
      /\ e \in 1 .. Len(s) + 1 /\ e = Len(s) + 1
  <2>1. m \in Nat /\ open \in [Nat -> Nat] /\ open[2] = 0
    BY DEF Nested
  <2>2. Len(s) \in Nat
    OBVIOUS
  <2> QED
    BY <2>1, <2>2, SMTT(30)
<1> HIDE DEF e
<1>5. \A d \in 1 .. m : DepthIn(Append(s, t), Len(s) + 1) >= d
  BY <1>3, <1>4 DEF e
<1>6. /\ \A d \in 1 .. m :
           /\ open[2 * d + 2] \in DOMAIN s
           /\ open[2 * d + 2] \in DOMAIN u
           /\ u[open[2 * d + 2]] \in Opening
           /\ DepthIn(u, open[2 * d + 2]) = d
           /\ \A q \in open[2 * d + 2] .. Len(u) : DepthIn(u, q) >= d
      /\ \A i \in DOMAIN s : u[i] \in Opening =>
           \/ \E d \in 1 .. m : open[2 * d + 2] = i
           \/ \E c \in DOMAIN u : Closes(u, c, i)
      /\ \A c \in DOMAIN s, i, j \in DOMAIN u :
           Closes(u, c, i) /\ Closes(u, c, j) => i = j
      /\ \A c \in DOMAIN s : u[c] = "end" => \E i \in DOMAIN u : Closes(u, c, i)
  <2>1. Stays(s, Append(s, t), m, m, open)
    BY <1>1, <1>4, <1>5, NestedStays, Zenon
  <2> QED
    BY <2>1 DEF Stays
<1>7. ASSUME NEW i PROVE ~Closes(u, e, i)
  BY <1>1, <1>2, ClosesWas
<1> HIDE DEF u, e
<1>8. \A i \in DOMAIN u : u[i] \in Opening =>
        (\E d \in 1 .. m : open[2 * d + 2] = i) \/ (\E c \in DOMAIN u : Closes(u, c, i))
  BY <1>1, <1>2, <1>6
<1>9. \A c, i, j \in DOMAIN u : Closes(u, c, i) /\ Closes(u, c, j) => i = j
  BY <1>2, <1>6, <1>7
<1>10. \A c \in DOMAIN u : u[c] = "end" => \E i \in DOMAIN u : Closes(u, c, i)
  BY <1>1, <1>2, <1>6
<1> QED
  BY <1>2, <1>3, <1>4, <1>6, <1>8, <1>9, <1>10 DEF Nested, u

\* A token that opens a body opens one more.
LEMMA NestedPush ==
  ASSUME NEW s \in Seq(Token), NEW t \in Opening, NEW m, NEW open,
         Nested(s, m, open)
  PROVE  LET o == [open EXCEPT ![2 * m + 4] = Len(s) + 1] IN
         /\ Nested(Append(s, t), m + 1, o)
         /\ o[2 * m + 4] = Len(s) + 1
         /\ \A k \in Nat : k # 2 * m + 4 => o[k] = open[k]
<1> DEFINE u == Append(s, t)
           e == Len(s) + 1
           o == [open EXCEPT ![2 * m + 4] = e]
<1>1. t \in Token /\ t # "end"
  BY DEF Token, Opening
<1>2. /\ Len(s) \in Nat /\ Len(u) = e /\ DOMAIN u = DOMAIN s \cup {e} /\ u[e] = t
      /\ DOMAIN s = 1 .. Len(s)
  BY <1>1, SourceFacts
<1>3. DepthIn(u, e) = m + 1
  BY <1>1, <1>2, DepthFacts DEF Nested
<1>4. m \in Nat /\ open \in [Nat -> Nat] /\ open[2] = 0 /\ m \in 0 .. m
      /\ e \in 1 .. Len(s) + 1 /\ e = Len(s) + 1
  <2>1. m \in Nat /\ open \in [Nat -> Nat] /\ open[2] = 0
    BY DEF Nested
  <2>2. Len(s) \in Nat
    OBVIOUS
  <2> QED
    BY <2>1, <2>2, SMTT(30)
<1> HIDE DEF e
<1>5. \A d \in 1 .. m : DepthIn(Append(s, t), Len(s) + 1) >= d
  BY <1>3, <1>4 DEF e
<1>6. /\ \A d \in 1 .. m :
           /\ open[2 * d + 2] \in DOMAIN s
           /\ open[2 * d + 2] \in DOMAIN u
           /\ u[open[2 * d + 2]] \in Opening
           /\ DepthIn(u, open[2 * d + 2]) = d
           /\ \A q \in open[2 * d + 2] .. Len(u) : DepthIn(u, q) >= d
      /\ \A i \in DOMAIN s : u[i] \in Opening =>
           \/ \E d \in 1 .. m : open[2 * d + 2] = i
           \/ \E c \in DOMAIN u : Closes(u, c, i)
      /\ \A c \in DOMAIN s, i, j \in DOMAIN u :
           Closes(u, c, i) /\ Closes(u, c, j) => i = j
      /\ \A c \in DOMAIN s : u[c] = "end" => \E i \in DOMAIN u : Closes(u, c, i)
  <2>1. Stays(s, Append(s, t), m, m, open)
    BY <1>1, <1>4, <1>5, NestedStays, Zenon
  <2> QED
    BY <2>1 DEF Stays
<1>7. ASSUME NEW i PROVE ~Closes(u, e, i)
  BY <1>1, <1>2, ClosesWas
<1>8. /\ o \in [Nat -> Nat] /\ o[2 * m + 4] = e
      /\ \A k \in Nat : k # 2 * m + 4 => o[k] = open[k]
  <2>1. 2 * m + 4 \in Nat /\ e \in Nat
    BY <1>2, <1>4
  <2> QED
    BY <1>4, <2>1
<1> HIDE DEF u, e, o
<1>9. \A d \in 1 .. m : o[2 * d + 2] = open[2 * d + 2]
  <2>1. \A d \in 1 .. m : 2 * d + 2 \in Nat /\ 2 * d + 2 # 2 * m + 4
    BY <1>4
  <2> QED
    BY <1>8, <2>1
<1>10. o[2] = 0
  BY <1>4, <1>8
<1>11. \A d \in 1 .. m + 1 :
          /\ o[2 * d + 2] \in DOMAIN u
          /\ u[o[2 * d + 2]] \in Opening
          /\ DepthIn(u, o[2 * d + 2]) = d
          /\ \A q \in o[2 * d + 2] .. Len(u) : DepthIn(u, q) >= d
  <2> SUFFICES ASSUME NEW d \in 1 .. m + 1
               PROVE  /\ o[2 * d + 2] \in DOMAIN u
                      /\ u[o[2 * d + 2]] \in Opening
                      /\ DepthIn(u, o[2 * d + 2]) = d
                      /\ \A q \in o[2 * d + 2] .. Len(u) : DepthIn(u, q) >= d
    OBVIOUS
  <2>1. CASE d \in 1 .. m
    BY <1>6, <1>9, <2>1
  <2>2. CASE d = m + 1
    <3>1. o[2 * d + 2] = e
      <4>1. 2 * d + 2 = 2 * m + 4
        BY <1>4, <2>2
      <4> QED
        BY <1>8, <4>1
    <3>2. e .. Len(u) = {e}
      BY <1>2 DEF e
    <3> QED
      BY <1>2, <1>3, <1>4, <2>2, <3>1, <3>2
  <2> QED
    BY <1>4, <2>1, <2>2
<1>12. \A i \in DOMAIN u : u[i] \in Opening =>
        (\E d \in 1 .. m + 1 : o[2 * d + 2] = i) \/ (\E c \in DOMAIN u : Closes(u, c, i))
  <2> SUFFICES ASSUME NEW i \in DOMAIN u, u[i] \in Opening
               PROVE  \/ \E d \in 1 .. m + 1 : o[2 * d + 2] = i
                      \/ \E c \in DOMAIN u : Closes(u, c, i)
    OBVIOUS
  <2>1. CASE i = e
    <3>1. m + 1 \in 1 .. m + 1 /\ 2 * (m + 1) + 2 = 2 * m + 4
      BY <1>4
    <3>2. o[2 * (m + 1) + 2] = i
      BY <1>8, <2>1, <3>1
    <3> QED
      BY <3>1, <3>2
  <2>2. CASE i \in DOMAIN s
    <3>1. 1 .. m \subseteq 1 .. m + 1
      BY <1>4
    <3> QED
      BY <1>6, <1>9, <2>2, <3>1
  <2> QED
    BY <1>2, <2>1, <2>2
<1>13. \A c, i, j \in DOMAIN u : Closes(u, c, i) /\ Closes(u, c, j) => i = j
  BY <1>2, <1>6, <1>7
<1>14. \A c \in DOMAIN u : u[c] = "end" => \E i \in DOMAIN u : Closes(u, c, i)
  BY <1>1, <1>2, <1>6
<1>15. m + 1 \in Nat
  BY <1>4
<1>16. Nested(u, m + 1, o)
  BY <1>2, <1>3, <1>8, <1>10, <1>11, <1>12, <1>13, <1>14, <1>15 DEF Nested
<1> QED
  BY <1>8, <1>16 DEF u, o, e

\* An end closes the body that was opened last, and no other.
LEMMA NestedPop ==
  ASSUME NEW s \in Seq(Token), NEW m, NEW open, Nested(s, m, open), m >= 1
  PROVE  /\ Nested(Append(s, "end"), m - 1, open)
         /\ Closes(Append(s, "end"), Len(s) + 1, open[2 * m + 2])
         /\ open[2 * m + 2] \in DOMAIN s /\ s[open[2 * m + 2]] \in Opening
<1> DEFINE u == Append(s, "end")
           e == Len(s) + 1
           top == open[2 * m + 2]
<1>1. "end" \in Token /\ "end" \notin Opening
  BY DEF Token, Opening
<1>2. /\ Len(s) \in Nat /\ Len(u) = e /\ DOMAIN u = DOMAIN s \cup {e} /\ u[e] = "end"
      /\ DOMAIN s = 1 .. Len(s) /\ \A p \in 1 .. Len(s) : u[p] = s[p]
  BY <1>1, SourceFacts
<1>3. DepthIn(u, e) = m - 1
  <2>1. DepthIn(u, e) = m + -1
    BY <1>1, <1>2, DepthFacts DEF Nested
  <2> QED
    BY <2>1 DEF Nested
<1>4. m \in Nat /\ open \in [Nat -> Nat] /\ open[2] = 0 /\ m - 1 \in 0 .. m
      /\ e \in 1 .. Len(s) + 1 /\ e = Len(s) + 1 /\ m - 1 \in Nat
  <2>1. m \in Nat /\ open \in [Nat -> Nat] /\ open[2] = 0
    BY DEF Nested
  <2>2. Len(s) \in Nat
    OBVIOUS
  <2> QED
    BY <2>1, <2>2, SMTT(30)
<1> HIDE DEF e
<1>5. \A d \in 1 .. m - 1 : DepthIn(Append(s, "end"), Len(s) + 1) >= d
  BY <1>3, <1>4 DEF e
<1> DEFINE m1 == m - 1
<1> HIDE DEF m1
<1>6. /\ \A d \in 1 .. m1 :
           /\ open[2 * d + 2] \in DOMAIN s
           /\ open[2 * d + 2] \in DOMAIN u
           /\ u[open[2 * d + 2]] \in Opening
           /\ DepthIn(u, open[2 * d + 2]) = d
           /\ \A q \in open[2 * d + 2] .. Len(u) : DepthIn(u, q) >= d
      /\ \A i \in DOMAIN s : u[i] \in Opening =>
           \/ \E d \in 1 .. m : open[2 * d + 2] = i
           \/ \E c \in DOMAIN u : Closes(u, c, i)
      /\ \A c \in DOMAIN s, i, j \in DOMAIN u :
           Closes(u, c, i) /\ Closes(u, c, j) => i = j
      /\ \A c \in DOMAIN s : u[c] = "end" => \E i \in DOMAIN u : Closes(u, c, i)
  <2>1. m1 \in 0 .. m /\ \A d \in 1 .. m1 : DepthIn(Append(s, "end"), Len(s) + 1) >= d
    BY <1>4, <1>5 DEF m1
  <2> QED
    <3>1. Stays(s, Append(s, "end"), m, m1, open)
      BY <1>1, <1>4, <2>1, NestedStays, Zenon
    <3> QED
      BY <3>1 DEF Stays
<1>7. /\ top \in DOMAIN s /\ s[top] \in Opening /\ DepthIn(s, top) = m
      /\ \A q \in top .. Len(s) : DepthIn(s, q) >= m
      /\ \A d \in 1 .. m : DepthIn(s, open[2 * d + 2]) = d
  <2>1. m \in 1 .. m
    BY <1>4
  <2> QED
    BY <2>1 DEF Nested
<1>8. \A p \in 0 .. Len(s) : DepthIn(u, p) = DepthIn(s, p)
  BY <1>1, DepthFacts
<1> HIDE DEF u, e, top
<1>9. Closes(u, e, top)
  <2>1. top \in DOMAIN u /\ u[top] \in Opening /\ e \in top + 1 .. Len(u)
    <3>1. top \in 1 .. Len(s) /\ u[top] \in Opening
      BY <1>2, <1>7
    <3>2. top \in DOMAIN u
      BY <1>2, <1>7
    <3>3. e \in top + 1 .. Len(u)
      BY <1>2, <1>4, <3>1
    <3> QED
      BY <3>1, <3>2, <3>3
  <2>2. DepthIn(u, top) = m
    BY <1>2, <1>7, <1>8
  <2>3. \A q \in top + 1 .. e - 1 : DepthIn(u, q) # m - 1
    <3> SUFFICES ASSUME NEW q \in top + 1 .. e - 1 PROVE DepthIn(u, q) # m - 1
      OBVIOUS
    <3>1. q \in top .. Len(s) /\ q \in 0 .. Len(s)
      BY <1>2, <1>4, <1>7, SMTT(30)
    <3>2. DepthIn(u, q) >= m
      BY <1>7, <1>8, <3>1
    <3> QED
      BY <1>4, <3>2
  <2> QED
    BY <1>2, <1>3, <2>1, <2>2, <2>3 DEF Closes
<1>10. ASSUME NEW i, Closes(u, e, i) PROVE i = top
  <2>1. /\ i \in DOMAIN s /\ s[i] \in Opening
    <3> USE DEF u
    <3> QED
      BY <1>1, <1>10, ClosesWas
  <2>2. DepthIn(u, i) = m
    <3>1. DepthIn(u, i) \in Int
      BY <1>2, <2>1, <1>8, <1>1, DepthFacts
    <3> QED
      BY <1>3, <1>4, <1>10, <3>1 DEF Closes
  <2>3. CASE \E d \in 1 .. m : open[2 * d + 2] = i
    <3>1. PICK d \in 1 .. m : open[2 * d + 2] = i
      BY <2>3
    <3>2. DepthIn(s, i) = d
      BY <1>7, <3>1
    <3>3. d = m
      BY <1>2, <1>8, <2>1, <2>2, <3>2
    <3> QED
      BY <3>1, <3>3 DEF top
  <2>4. CASE \E c \in DOMAIN s : Closes(s, c, i)
    <3>1. PICK c \in DOMAIN s : Closes(s, c, i)
      BY <2>4
    <3>2. Closes(u, c, i)
      BY <1>1, <3>1, ClosesStays DEF u
    <3>3. u \in Seq(Token)
      BY <1>1, SourceFacts DEF u
    <3>4. c = e
      BY <1>10, <3>2, <3>3, OneEnd
    <3> QED
      BY <1>2, <1>4, <3>1, <3>4
  <2> QED
    BY <2>1, <2>3, <2>4 DEF Nested
<1>11. \A i \in DOMAIN u : u[i] \in Opening =>
        (\E d \in 1 .. m1 : open[2 * d + 2] = i) \/ (\E c \in DOMAIN u : Closes(u, c, i))
  <2> SUFFICES ASSUME NEW i \in DOMAIN u, u[i] \in Opening
               PROVE  \/ \E d \in 1 .. m1 : open[2 * d + 2] = i
                      \/ \E c \in DOMAIN u : Closes(u, c, i)
    OBVIOUS
  <2>1. i \in DOMAIN s
    BY <1>1, <1>2
  <2>2. CASE \E d \in 1 .. m : open[2 * d + 2] = i
    <3>1. PICK d \in 1 .. m : open[2 * d + 2] = i
      BY <2>2
    <3>2. CASE d = m
      BY <1>2, <1>9, <3>1, <3>2 DEF top
    <3>3. CASE d # m
      <4>1. d \in 1 .. m1
        BY <1>4, <3>3 DEF m1
      <4> QED
        BY <3>1, <4>1
    <3> QED
      BY <3>2, <3>3
  <2> QED
    BY <1>6, <2>1, <2>2
<1>12. \A c, i, j \in DOMAIN u : Closes(u, c, i) /\ Closes(u, c, j) => i = j
  BY <1>2, <1>6, <1>10
<1>13. \A c \in DOMAIN u : u[c] = "end" => \E i \in DOMAIN u : Closes(u, c, i)
  BY <1>2, <1>6, <1>7, <1>9
<1>14. Nested(u, m1, open)
  <2>1. m1 \in Nat /\ DepthIn(u, Len(u)) = m1
    BY <1>2, <1>3, <1>4 DEF m1
  <2> QED
    BY <1>2, <1>4, <1>6, <1>11, <1>12, <1>13, <2>1 DEF Nested
<1> QED
  BY <1>7, <1>9, <1>14 DEF u, e, top, m1

-----------------------------------------------------------------------------
(* What the source says comes next.                                        *)

\* What agrees with a longer source agrees with the shorter one.
LEMMA RespectsWas ==
  ASSUME NEW s \in Seq(Token), NEW t \in Token, NEW A, Respects(Append(s, t), A)
  PROVE  Respects(s, A)
<1> DEFINE u == Append(s, t)
<1>1. /\ DOMAIN s = 1 .. Len(s) /\ DOMAIN u = DOMAIN s \cup {Len(s) + 1}
      /\ \A p \in 1 .. Len(s) : u[p] = s[p]
  BY SourceFacts
<1>2. \A c, i \in DOMAIN s : Closes(s, c, i) => Closes(u, c, i)
  BY ClosesStays
<1>3. Respects(u, A)
  OBVIOUS
<1> HIDE DEF u
<1>4. \A p \in DOMAIN s : s[p] \in {"stmt", "return", "while", "if"} => A[p] = p
  BY <1>1, <1>3 DEF Respects
<1>5. ASSUME NEW c \in DOMAIN s, NEW i \in DOMAIN s, Closes(s, c, i)
      PROVE  /\ A[c] = IF s[i] = "while" THEN i ELSE A[c + 1]
             /\ s[i] \in {"elseif", "else"} => A[i] = A[c + 1]
  <2>1. u[i] = s[i] /\ Closes(u, c, i) /\ c \in DOMAIN u /\ i \in DOMAIN u
    BY <1>1, <1>2, <1>5
  <2> QED
    BY <1>3, <2>1 DEF Respects
<1> QED
  BY <1>4, <1>5 DEF Respects

\* An else that ends plainly stays one.
LEMMA PlainElseStays ==
  ASSUME NEW s \in Seq(Token), NEW t \in Token, PlainElse(s)
  PROVE  PlainElse(Append(s, t))
<1> DEFINE u == Append(s, t)
<1>1. /\ Len(s) \in Nat /\ DOMAIN s = 1 .. Len(s) /\ DOMAIN u = DOMAIN s \cup {Len(s) + 1}
      /\ \A p \in 1 .. Len(s) : u[p] = s[p]
  BY SourceFacts
<1>2. PICK c, i \in DOMAIN s : Closes(s, c, i) /\ s[i] = "else" /\ s[c - 1] = "stmt"
  BY DEF PlainElse
<1>3. Closes(u, c, i)
  BY <1>2, ClosesStays
<1>4. c - 1 \in 1 .. Len(s)
  <2>1. i \in DOMAIN s /\ i < c /\ c <= Len(s) /\ i \in Nat /\ c \in Nat
    BY <1>2, ClosesRange
  <2> QED
    BY <1>1, <2>1
<1> HIDE DEF u
<1>5. u[i] = "else" /\ u[c - 1] = "stmt" /\ c \in DOMAIN u /\ i \in DOMAIN u
  BY <1>1, <1>2, <1>4
<1>6. PlainElse(u)
  BY <1>3, <1>5 DEF PlainElse
<1> QED
  BY <1>6 DEF u

\* What a condition that does not hold leads to is known once its branch is
\* connected: no else follows then.
LEMMA SkipsStays ==
  ASSUME NEW s \in Seq(Token), NEW t \in Token, NEW A, NEW c, NEW i, Closes(s, c, i),
         c # Len(s) \/ t \notin {"elseif", "else"}
  PROVE  /\ Skips(Append(s, t), A, c) = Skips(s, A, c)
         /\ NotTaken(Append(s, t), A, i, c) = NotTaken(s, A, i, c)
<1> DEFINE u == Append(s, t)
<1>1. /\ Len(s) \in Nat /\ DOMAIN s = 1 .. Len(s) /\ Len(u) = Len(s) + 1
      /\ \A p \in 1 .. Len(s) : u[p] = s[p]
      /\ u[Len(s) + 1] = t
  BY SourceFacts
<1>2. c \in Nat /\ c <= Len(s) /\ i \in 1 .. Len(s)
  BY <1>1, ClosesRange
<1> HIDE DEF u
<1>3. Len(s) \in Nat
  OBVIOUS
<1>4. u[i] = s[i]
  BY <1>1, <1>2
<1>5. Skips(u, A, c) = Skips(s, A, c)
  <2>1. CASE c < Len(s)
    <3>1. c + 1 \in 1 .. Len(s) /\ c < Len(s) + 1
      BY <1>2, <1>3, <2>1
    <3>2. u[c + 1] = s[c + 1] /\ c < Len(u)
      BY <1>1, <3>1
    <3> QED
      BY <2>1, <3>2 DEF Skips
  <2>2. CASE c = Len(s)
    <3>1. u[c + 1] \notin {"elseif", "else"} /\ ~(c < Len(s))
      BY <1>1, <2>2
    <3> QED
      BY <3>1 DEF Skips
  <2>3. c < Len(s) \/ c = Len(s)
    BY <1>2, <1>3
  <2> QED
    BY <2>1, <2>2, <2>3
<1> QED
  BY <1>4, <1>5 DEF NotTaken, u

-----------------------------------------------------------------------------
(* What the blocks say comes next.                                         *)

\* The kinds of instructions.
LEMMA InstructionKinds ==
  ASSUME NEW n \in Nat, NEW N \in Nat, NEW ins \in Instruction(n, N)
  PROVE  \/ ins.op = "eval" /\ ins.token \in 1 .. n /\ ins.token \in Nat
         \/ ins.op = "ret" /\ ins.token \in 0 .. n /\ ins.token \in Nat
         \/ ins.op = "br" /\ ins.to \in 1 .. N
         \/ ins.op = "condbr" /\ ins.yes \in 1 .. N /\ ins.no \in 1 .. N
<1>1. \/ ins \in [op : {"eval"}, token : 1 .. n]
      \/ ins \in [op : {"ret"}, token : 0 .. n]
      \/ ins \in [op : {"br"}, to : 1 .. N]
      \/ ins \in [op : {"condbr"}, yes : 1 .. N, no : 1 .. N]
  BY DEF Instruction
<1>2. ins \in [op : {"eval"}, token : 1 .. n]
        => ins.op = "eval" /\ ins.token \in 1 .. n /\ ins.token \in Nat
  OBVIOUS
<1>3. ins \in [op : {"ret"}, token : 0 .. n]
        => ins.op = "ret" /\ ins.token \in 0 .. n /\ ins.token \in Nat
  OBVIOUS
<1>4. ins \in [op : {"br"}, to : 1 .. N] => ins.op = "br" /\ ins.to \in 1 .. N
  OBVIOUS
<1>5. ins \in [op : {"condbr"}, yes : 1 .. N, no : 1 .. N]
        => ins.op = "condbr" /\ ins.yes \in 1 .. N /\ ins.no \in 1 .. N
  OBVIOUS
<1> QED
  BY <1>1, <1>2, <1>3, <1>4, <1>5

\* The instruction at a place of a block.
LEMMA InstructionAt ==
  ASSUME NEW n \in Nat, NEW N \in Nat, NEW bs \in Seq(Seq(Instruction(n, N))),
         NEW b \in DOMAIN bs, NEW k \in DOMAIN bs[b]
  PROVE  /\ bs[b] \in Seq(Instruction(n, N)) /\ bs[b][k] \in Instruction(n, N)
         /\ \/ bs[b][k].op = "eval" /\ bs[b][k].token \in 1 .. n
            \/ bs[b][k].op = "ret" /\ bs[b][k].token \in 0 .. n
            \/ bs[b][k].op = "br" /\ bs[b][k].to \in 1 .. N
            \/ bs[b][k].op = "condbr" /\ bs[b][k].yes \in 1 .. N /\ bs[b][k].no \in 1 .. N
<1>1. bs[b] \in Seq(Instruction(n, N))
  OBVIOUS
<1> DEFINE ins == bs[b][k]
<1>2. ins \in Instruction(n, N)
  BY <1>1
<1> HIDE DEF ins
<1>3. \/ ins.op = "eval" /\ ins.token \in 1 .. n
      \/ ins.op = "ret" /\ ins.token \in 0 .. n
      \/ ins.op = "br" /\ ins.to \in 1 .. N
      \/ ins.op = "condbr" /\ ins.yes \in 1 .. N /\ ins.no \in 1 .. N
  BY <1>2, InstructionKinds
<1> QED
  BY <1>1, <1>2, <1>3 DEF ins

\* Every block is a sequence.
LEMMA BlockFacts ==
  ASSUME NEW S, NEW bs \in Seq(Seq(S))
  PROVE  /\ Len(bs) \in Nat /\ DOMAIN bs = 1 .. Len(bs)
         /\ \A b \in DOMAIN bs :
              /\ bs[b] \in Seq(S) /\ Len(bs[b]) \in Nat
              /\ DOMAIN bs[b] = 1 .. Len(bs[b])
              /\ bs[b] = <<>> <=> Len(bs[b]) = 0
              /\ HasTerminator(bs[b]) <=>
                   Len(bs[b]) >= 1 /\ IsTerminator(bs[b][Len(bs[b])])
<1>1. Len(bs) \in Nat /\ DOMAIN bs = 1 .. Len(bs)
  OBVIOUS
<1>2. ASSUME NEW b \in DOMAIN bs
      PROVE  /\ bs[b] \in Seq(S) /\ Len(bs[b]) \in Nat
             /\ DOMAIN bs[b] = 1 .. Len(bs[b])
             /\ bs[b] = <<>> <=> Len(bs[b]) = 0
             /\ HasTerminator(bs[b]) <=>
                  Len(bs[b]) >= 1 /\ IsTerminator(bs[b][Len(bs[b])])
  <2>1. bs[b] \in Seq(S)
    OBVIOUS
  <2> DEFINE c == bs[b]
  <2> HIDE DEF c
  <2>2. c \in Seq(S)
    BY <2>1 DEF c
  <2>3. /\ Len(c) \in Nat /\ DOMAIN c = 1 .. Len(c) /\ c = <<>> <=> Len(c) = 0
    BY <2>2
  <2>4. HasTerminator(c) <=> Len(c) >= 1 /\ IsTerminator(c[Len(c)])
    BY <2>3 DEF HasTerminator
  <2> QED
    BY <2>1, <2>3, <2>4 DEF c
<1> QED
  BY <1>1, <1>2

\* cs is bs with one instruction more at the end of block b.
Emitted(bs, cs, b, ins) ==
  /\ Len(cs) = Len(bs) /\ DOMAIN cs = DOMAIN bs
  /\ \A a \in DOMAIN bs \ {b} : cs[a] = bs[a]
  /\ Len(cs[b]) = Len(bs[b]) + 1
  /\ cs[b][Len(bs[b]) + 1] = ins
  /\ \A k \in 1 .. Len(bs[b]) : cs[b][k] = bs[b][k]

\* What Emit leaves and what it adds.
LEMMA EmitContent ==
  ASSUME NEW S, NEW bs \in Seq(Seq(S)), NEW b \in DOMAIN bs, NEW ins \in S
  PROVE  /\ Emit(bs, b, ins) \in Seq(Seq(S))
         /\ Emitted(bs, Emit(bs, b, ins), b, ins)
<1> DEFINE cs == Emit(bs, b, ins)
           c  == Append(bs[b], ins)
<1>1. bs[b] \in Seq(S) /\ Len(bs[b]) \in Nat
  OBVIOUS
<1>2. /\ Len(c) = Len(bs[b]) + 1
      /\ c[Len(bs[b]) + 1] = ins
      /\ \A k \in 1 .. Len(bs[b]) : c[k] = bs[b][k]
  BY <1>1
<1> HIDE DEF c
<1>3. cs = [bs EXCEPT ![b] = c]
  BY DEF Emit, c
<1>4. /\ cs \in Seq(Seq(S)) /\ Len(cs) = Len(bs) /\ DOMAIN cs = DOMAIN bs
      /\ \A a \in DOMAIN bs \ {b} : cs[a] = bs[a]
  BY EmitFacts
<1>5. cs[b] = c
  BY <1>3
<1> QED
  BY <1>2, <1>4, <1>5 DEF Emitted

LEMMA NextIn ==
  ASSUME NEW k \in Nat, NEW n \in Nat, k < n
  PROVE  k + 1 \in 1 .. n /\ k + 1 <= n /\ k + 1 <= n + 1
OBVIOUS

\* An instruction other than a conditional jump, at the end of a block that is
\* not a condition's: it has to lead where the block promised, and promises v
\* for the time after it.
LEMMA PreservesEmit ==
  ASSUME NEW s \in Seq(Token), NEW n \in Nat,
         NEW bs, bs \in Seq(Seq(Instruction(n, Len(bs)))), Clean(bs),
         NEW A \in [Nat -> Nat], NEW lab, NEW out, NEW w \in BOOLEAN,
         Preserves(s, bs, A, lab, out, w),
         NEW b \in DOMAIN bs, ~HasTerminator(bs[b]),
         NEW ins \in Instruction(n, Len(bs)), ins.op # "condbr",
         MeetsIn(lab, ins) = out[b],
         bs[b] = <<>> /\ ins.op = "br" => ins.to > b \/ Begins(bs, ins.to),
         NEW v \in Int,
         ins.op = "eval" => s[ins.token] = "stmt" /\ v = A[ins.token + 1]
  PROVE  Preserves(s, Emit(bs, b, ins), A, lab, [out EXCEPT ![b] = v], w)
<1> DEFINE N  == Len(bs)
           I  == Instruction(n, N)
           cs == Emit(bs, b, ins)
           o  == [out EXCEPT ![b] = v]
<1>1. bs \in Seq(Seq(I)) /\ ins \in I /\ I = Instruction(n, Len(bs))
  OBVIOUS
<1> HIDE DEF I
<1>2. /\ lab \in [DOMAIN bs -> Nat] /\ out \in [DOMAIN bs -> Int]
      /\ 1 \in DOMAIN bs /\ lab[1] = A[1]
      /\ \A a \in DOMAIN bs : Leads(bs, lab, out, a, 1, lab[a]) /\ Forward(bs, a)
      /\ \A a \in DOMAIN bs : \A k \in DOMAIN bs[a] : bs[a][k].op = "eval" =>
           Follows(s, bs, A, lab, out, w, a, k, bs[a][k].token)
  BY DEF Preserves
<1>3. /\ N \in Nat /\ DOMAIN bs = 1 .. N
      /\ \A a \in DOMAIN bs :
           /\ bs[a] \in Seq(I) /\ Len(bs[a]) \in Nat
           /\ DOMAIN bs[a] = 1 .. Len(bs[a])
           /\ bs[a] = <<>> <=> Len(bs[a]) = 0
           /\ HasTerminator(bs[a]) <=>
                Len(bs[a]) >= 1 /\ IsTerminator(bs[a][Len(bs[a])])
  BY <1>1, BlockFacts, Zenon
<1>4. /\ cs \in Seq(Seq(I)) /\ Len(cs) = N /\ DOMAIN cs = DOMAIN bs
      /\ \A a \in DOMAIN bs \ {b} : cs[a] = bs[a]
      /\ Len(cs[b]) = Len(bs[b]) + 1
      /\ cs[b][Len(bs[b]) + 1] = ins
      /\ \A k \in 1 .. Len(bs[b]) : cs[b][k] = bs[b][k]
  <2>1. cs \in Seq(Seq(I)) /\ Emitted(bs, cs, b, ins)
    BY <1>1, EmitContent
  <2> QED
    BY <2>1 DEF Emitted
<1>5. \A a \in DOMAIN cs :
           /\ cs[a] \in Seq(I) /\ Len(cs[a]) \in Nat
           /\ DOMAIN cs[a] = 1 .. Len(cs[a])
           /\ cs[a] = <<>> <=> Len(cs[a]) = 0
           /\ HasTerminator(cs[a]) <=>
                Len(cs[a]) >= 1 /\ IsTerminator(cs[a][Len(cs[a])])
  BY <1>4, BlockFacts, Zenon
<1>6. /\ o \in [DOMAIN bs -> Int] /\ o[b] = v
      /\ \A a \in DOMAIN bs \ {b} : o[a] = out[a]
  BY <1>2
<1>7. /\ ins.op \in {"eval", "ret", "br"}
      /\ ins.op \in {"eval", "ret"} => ins.token \in Nat
      /\ ins.op = "br" => ins.to \in DOMAIN bs
  BY <1>3, InstructionKinds
<1>8. out[b] # -1
  <2>1. MeetsIn(lab, ins) \in Nat
    BY <1>2, <1>7 DEF MeetsIn
  <2>2. \A x \in Nat : x # -1
    OBVIOUS
  <2> QED
    BY <2>1, <2>2
<1> HIDE DEF N, cs, o
<1>9. \A a \in DOMAIN bs : Begins(bs, a) => Begins(cs, a)
  <2> SUFFICES ASSUME NEW a \in DOMAIN bs, Begins(bs, a) PROVE Begins(cs, a)
    OBVIOUS
  <2>1. CASE a # b
    BY <1>4, <2>1 DEF Begins
  <2>2. CASE a = b
    <3>1. Len(bs[b]) >= 1 /\ bs[b][1].op = "eval"
      BY <1>3, <2>2 DEF Begins
    <3>2. cs[b][1] = bs[b][1] /\ cs[b] # <<>>
      BY <1>3, <1>4, <1>5, <3>1
    <3> QED
      BY <2>2, <3>1, <3>2 DEF Begins
  <2> QED
    BY <2>1, <2>2
<1>10. ASSUME NEW a \in DOMAIN bs PROVE Leads(cs, lab, o, a, 1, lab[a])
  <2>1. CASE a # b
    <3>1. cs[a] = bs[a] /\ o[a] = out[a] /\ Leads(bs, lab, out, a, 1, lab[a])
      BY <1>2, <1>4, <1>6, <2>1
    <3> QED
      BY <3>1 DEF Leads
  <2>2. CASE a = b /\ Len(bs[b]) >= 1
    <3>1. 1 <= Len(cs[b]) /\ cs[b][1] = bs[b][1]
      BY <1>3, <1>4, <2>2
    <3>2. Leads(bs, lab, out, b, 1, lab[b])
      BY <1>2
    <3> QED
      BY <2>2, <3>1, <3>2 DEF Leads
  <2>3. CASE a = b /\ Len(bs[b]) = 0
    <3>1. 1 <= Len(cs[b]) /\ cs[b][1] = ins
      BY <1>4, <2>3
    <3>2. out[b] = lab[b]
      <4>1. Leads(bs, lab, out, b, 1, lab[b])
        BY <1>2
      <4> QED
        BY <2>3, <4>1 DEF Leads
    <3> QED
      BY <2>3, <3>1, <3>2 DEF Leads
  <2> QED
    BY <1>3, <2>1, <2>2, <2>3
<1>11. ASSUME NEW a \in DOMAIN bs PROVE Forward(cs, a)
  <2>1. CASE a # b
    <3>1. cs[a] = bs[a] /\ Forward(bs, a)
      BY <1>2, <1>4, <2>1
    <3>2. ASSUME bs[a] # <<>>, bs[a][1].op = "br"
          PROVE  bs[a][1].to > a \/ Begins(cs, bs[a][1].to)
      <4>1. bs[a][1].to > a \/ Begins(bs, bs[a][1].to)
        BY <3>1, <3>2 DEF Forward
      <4>2. bs[a][1].to \in DOMAIN bs
        <5>1. 1 \in DOMAIN bs[a]
          BY <1>3, <3>2
        <5>2. \/ bs[a][1].op = "eval" /\ bs[a][1].token \in 1 .. n
              \/ bs[a][1].op = "ret" /\ bs[a][1].token \in 0 .. n
              \/ bs[a][1].op = "br" /\ bs[a][1].to \in 1 .. Len(bs)
              \/ bs[a][1].op = "condbr" /\ bs[a][1].yes \in 1 .. Len(bs)
                   /\ bs[a][1].no \in 1 .. Len(bs)
          BY <1>3, <5>1, InstructionAt DEF N
        <5> QED
          BY <1>3, <3>2, <5>2 DEF N
      <4> QED
        BY <1>9, <4>1, <4>2
    <3> QED
      BY <3>1, <3>2 DEF Forward
  <2>2. CASE a = b /\ Len(bs[b]) >= 1
    <3>1. cs[b] # <<>> /\ cs[b][1] = bs[b][1] /\ bs[b] # <<>>
      BY <1>3, <1>4, <1>5, <2>2
    <3>2. ASSUME bs[b][1].op = "br" PROVE bs[b][1].to > b \/ Begins(cs, bs[b][1].to)
      <4>1. bs[b][1].to > b \/ Begins(bs, bs[b][1].to)
        BY <1>2, <3>1, <3>2 DEF Forward
      <4>2. bs[b][1].to \in DOMAIN bs
        <5>1. 1 \in DOMAIN bs[b]
          BY <1>3, <2>2
        <5>2. \/ bs[b][1].op = "eval" /\ bs[b][1].token \in 1 .. n
              \/ bs[b][1].op = "ret" /\ bs[b][1].token \in 0 .. n
              \/ bs[b][1].op = "br" /\ bs[b][1].to \in 1 .. Len(bs)
              \/ bs[b][1].op = "condbr" /\ bs[b][1].yes \in 1 .. Len(bs)
                   /\ bs[b][1].no \in 1 .. Len(bs)
          BY <1>3, <5>1, InstructionAt DEF N
        <5> QED
          BY <1>3, <3>2, <5>2 DEF N
      <4> QED
        BY <1>9, <4>1, <4>2
    <3> QED
      BY <2>2, <3>1, <3>2 DEF Forward
  <2>3. CASE a = b /\ Len(bs[b]) = 0
    <3>1. bs[b] = <<>> /\ cs[b][1] = ins
      BY <1>3, <1>4, <2>3
    <3> QED
      BY <1>7, <1>9, <2>3, <3>1 DEF Forward
  <2> QED
    BY <1>3, <2>1, <2>2, <2>3
<1>12. ASSUME NEW a \in DOMAIN bs, NEW k \in DOMAIN cs[a], cs[a][k].op = "eval"
       PROVE  Follows(s, cs, A, lab, o, w, a, k, cs[a][k].token)
  <2>1. CASE a # b
    <3>1. cs[a] = bs[a] /\ o[a] = out[a]
      BY <1>4, <1>6, <2>1
    <3>2. Follows(s, bs, A, lab, out, w, a, k, bs[a][k].token)
      BY <1>2, <1>12, <3>1
    <3> QED
      BY <3>1, <3>2 DEF Follows, Leads, Undecided, Decided
  <2>2. CASE a = b /\ k \in 1 .. Len(bs[b])
    <3> DEFINE i == bs[b][k].token
    <3>1. cs[b][k] = bs[b][k] /\ k \in DOMAIN bs[b]
      BY <1>3, <1>4, <2>2
    <3>2. Follows(s, bs, A, lab, out, w, b, k, i)
      BY <1>2, <1>12, <2>2, <3>1
    <3> HIDE DEF i
    <3>3. s[i] = "stmt"
      <4> SUFFICES ASSUME s[i] # "stmt" PROVE FALSE
        OBVIOUS
      <4>1. ~Undecided(bs, out, b)
        BY <1>8 DEF Undecided
      <4>2. k = 1 /\ Decided(s, bs, A, lab, b, i, w)
        BY <3>2, <4>1 DEF Follows
      <4>3. Len(bs[b]) = 2 /\ bs[b][2].op = "condbr"
        BY <4>2 DEF Decided
      <4>4. HasTerminator(bs[b])
        <5>1. IsTerminator(bs[b][2])
          BY <4>3 DEF IsTerminator
        <5>2. Len(bs[b]) >= 1 /\ IsTerminator(bs[b][Len(bs[b])])
          BY <4>3, <5>1
        <5> QED
          BY <1>3, <5>2
      <4> QED
        BY <4>4
    <3>4. Leads(bs, lab, out, b, k + 1, A[i + 1])
      BY <3>2, <3>3 DEF Follows
    <3>5. Leads(cs, lab, o, b, k + 1, A[i + 1])
      <4>1. CASE k < Len(bs[b])
        <5>1. Len(bs[b]) \in Nat /\ k \in Nat
          BY <1>3, <2>2
        <5>2. k + 1 \in 1 .. Len(bs[b]) /\ k + 1 <= Len(bs[b])
              /\ k + 1 <= Len(bs[b]) + 1
          BY <4>1, <5>1, NextIn
        <5>3. k + 1 <= Len(cs[b]) /\ cs[b][k + 1] = bs[b][k + 1]
          BY <1>4, <5>2
        <5> QED
          BY <3>4, <5>2, <5>3 DEF Leads
      <4>2. CASE k = Len(bs[b])
        <5>1. ~(k + 1 <= Len(bs[b])) /\ k + 1 <= Len(cs[b]) /\ cs[b][k + 1] = ins
          BY <1>3, <1>4, <2>2, <4>2
        <5> QED
          BY <3>4, <5>1 DEF Leads
      <4> QED
        BY <1>3, <2>2, <4>1, <4>2
    <3> QED
      BY <2>2, <3>1, <3>3, <3>5 DEF Follows, i
  <2>3. CASE a = b /\ k = Len(bs[b]) + 1
    <3>1. cs[b][k] = ins /\ ins.op = "eval" /\ s[ins.token] = "stmt" /\ v = A[ins.token + 1]
      BY <1>4, <1>12, <2>3
    <3>2. ~(k + 1 <= Len(cs[b]))
      BY <1>3, <1>4, <2>3
    <3>3. Leads(cs, lab, o, b, k + 1, A[ins.token + 1])
      BY <1>6, <3>1, <3>2 DEF Leads
    <3> QED
      BY <2>3, <3>1, <3>3 DEF Follows
  <2>4. a = b => k \in 1 .. Len(bs[b]) \/ k = Len(bs[b]) + 1
    BY <1>3, <1>4, <1>5
  <2> QED
    BY <2>1, <2>2, <2>3, <2>4
<1>13. Preserves(s, cs, A, lab, o, w)
  BY <1>2, <1>4, <1>6, <1>10, <1>11, <1>12 DEF Preserves
<1> QED
  BY <1>13 DEF cs, o

\* The source grows.  No token opens an else unless impl_branch stands between
\* two arms.
LEMMA PreservesSource ==
  ASSUME NEW s \in Seq(Token), NEW t \in Token,
         NEW bs, bs \in Seq(Seq(Instruction(Len(s), Len(bs)))),
         NEW A, NEW lab, NEW out, NEW w \in BOOLEAN, NEW x \in BOOLEAN,
         Preserves(s, bs, A, lab, out, w), t \in {"elseif", "else"} => w
  PROVE  Preserves(Append(s, t), bs, A, lab, out, x)
<1> DEFINE u == Append(s, t)
           n == Len(s)
<1>1. /\ n \in Nat /\ DOMAIN s = 1 .. n /\ Len(u) = n + 1
      /\ DOMAIN u = 1 .. n + 1 /\ DOMAIN u = DOMAIN s \cup {n + 1}
      /\ \A p \in 1 .. n : u[p] = s[p]
  BY SourceFacts
<1>2. /\ Len(bs) \in Nat /\ DOMAIN bs = 1 .. Len(bs)
  OBVIOUS
<1>3. ASSUME NEW b \in DOMAIN bs, NEW i, Decided(s, bs, A, lab, b, i, w)
      PROVE  Decided(u, bs, A, lab, b, i, x)
  <2>1. PICK c \in DOMAIN s : /\ Closes(s, c, i)
                              /\ w => c # n
                              /\ lab[bs[b][2].yes] = A[i + 1]
                              /\ lab[bs[b][2].no] = NotTaken(s, A, i, c)
    BY <1>3 DEF Decided
  <2>2. Closes(u, c, i) /\ c \in DOMAIN u /\ c # Len(u)
    BY <1>1, <2>1, ClosesStays
  <2>3. c # Len(s) \/ t \notin {"elseif", "else"}
    BY <2>1
  <2>4. NotTaken(u, A, i, c) = NotTaken(s, A, i, c)
    BY <2>1, <2>3, SkipsStays
  <2> HIDE DEF u, n
  <2> QED
    BY <1>3, <2>1, <2>2, <2>4 DEF Decided
<1>4. ASSUME NEW b \in DOMAIN bs, NEW k \in DOMAIN bs[b], bs[b][k].op = "eval"
      PROVE  Follows(u, bs, A, lab, out, x, b, k, bs[b][k].token)
  <2> DEFINE i == bs[b][k].token
  <2>1. Follows(s, bs, A, lab, out, w, b, k, i)
    BY <1>4 DEF Preserves
  <2>2. i \in 1 .. n
    BY <1>1, <1>2, <1>4, InstructionAt
  <2>3. u[i] = s[i]
    BY <1>1, <2>2
  <2> HIDE DEF u, n, i
  <2>4. Follows(u, bs, A, lab, out, x, b, k, i)
    BY <1>3, <2>1, <2>3 DEF Follows
  <2> QED
    BY <2>4 DEF i
<1> HIDE DEF u, n
<1>5. Preserves(u, bs, A, lab, out, x)
  BY <1>4 DEF Preserves
<1> QED
  BY <1>5 DEF u

\* Between two arms less is known of what follows than at other times.
LEMMA PreservesBetween ==
  ASSUME NEW s, NEW bs, NEW A, NEW lab, NEW out, NEW w \in BOOLEAN,
         Preserves(s, bs, A, lab, out, w)
  PROVE  Preserves(s, bs, A, lab, out, FALSE)
BY DEF Preserves, Follows, Decided

\* f, extended to a new block.
Ext(f, bs, x) == [a \in 1 .. Len(bs) + 1 |-> IF a \in DOMAIN bs THEN f[a] ELSE x]

\* cs is bs with a block more, c.
Added(bs, cs, c) ==
  /\ Len(cs) = Len(bs) + 1
  /\ DOMAIN cs = DOMAIN bs \cup {Len(bs) + 1} /\ DOMAIN cs = 1 .. Len(bs) + 1
  /\ Len(bs) + 1 \notin DOMAIN bs
  /\ \A a \in DOMAIN bs : cs[a] = bs[a]
  /\ cs[Len(bs) + 1] = c

\* What a block more leaves and what it adds.
LEMMA AddedContent ==
  ASSUME NEW S, NEW bs \in Seq(Seq(S)), NEW c \in Seq(S)
  PROVE  Append(bs, c) \in Seq(Seq(S)) /\ Added(bs, Append(bs, c), c)
<1> DEFINE cs == Append(bs, c)
<1>1. Len(bs) \in Nat /\ DOMAIN bs = 1 .. Len(bs)
  OBVIOUS
<1>2. cs \in Seq(Seq(S)) /\ Len(cs) = Len(bs) + 1 /\ DOMAIN cs = 1 .. Len(bs) + 1
  OBVIOUS
<1>3. /\ \A a \in DOMAIN bs : cs[a] = bs[a]
      /\ cs[Len(bs) + 1] = c
  BY <1>1
<1> HIDE DEF cs
<1>4. DOMAIN cs = DOMAIN bs \cup {Len(bs) + 1} /\ Len(bs) + 1 \notin DOMAIN bs
  BY <1>1, <1>2
<1> QED
  BY <1>2, <1>3, <1>4 DEF Added, cs

\* A new block is empty, or has a condition without its ways, or a return.
LEMMA PreservesNew ==
  ASSUME NEW s \in Seq(Token), NEW n \in Nat,
         NEW bs, bs \in Seq(Seq(Instruction(n, Len(bs)))),
         NEW A, NEW lab, NEW out, NEW w \in BOOLEAN,
         Preserves(s, bs, A, lab, out, w),
         NEW c \in Seq(Instruction(n, Len(bs))), Len(c) <= 1,
         NEW x \in Nat, NEW y \in Int,
         c = <<>> => x = y,
         c # <<>> => /\ c[1].op \in {"eval", "ret"}
                     /\ x = c[1].token
                     /\ c[1].op = "eval" => s[c[1].token] # "stmt" /\ y = -1
  PROVE  Preserves(s, Append(bs, c), A, Ext(lab, bs, x), Ext(out, bs, y), w)
<1> DEFINE N  == Len(bs)
           I  == Instruction(n, N)
           cs == Append(bs, c)
           l  == Ext(lab, bs, x)
           o  == Ext(out, bs, y)
<1>1. bs \in Seq(Seq(I)) /\ c \in Seq(I)
  OBVIOUS
<1>2. /\ lab \in [DOMAIN bs -> Nat] /\ out \in [DOMAIN bs -> Int]
      /\ 1 \in DOMAIN bs /\ lab[1] = A[1]
      /\ \A a \in DOMAIN bs : Leads(bs, lab, out, a, 1, lab[a]) /\ Forward(bs, a)
      /\ \A a \in DOMAIN bs : \A k \in DOMAIN bs[a] : bs[a][k].op = "eval" =>
           Follows(s, bs, A, lab, out, w, a, k, bs[a][k].token)
  BY DEF Preserves
<1>3. ASSUME NEW a \in DOMAIN bs, NEW k \in DOMAIN bs[a]
      PROVE  \/ bs[a][k].op = "eval" /\ bs[a][k].token \in 1 .. n
             \/ bs[a][k].op = "ret" /\ bs[a][k].token \in 0 .. n
             \/ bs[a][k].op = "br" /\ bs[a][k].to \in DOMAIN bs
             \/ bs[a][k].op = "condbr" /\ bs[a][k].yes \in DOMAIN bs
                  /\ bs[a][k].no \in DOMAIN bs
  <2>1. N \in Nat /\ DOMAIN bs = 1 .. N
    BY <1>1, BlockFacts, Zenon
  <2> HIDE DEF N
  <2>2. bs \in Seq(Seq(Instruction(n, N)))
    BY <1>1
  <2>3. \/ bs[a][k].op = "eval" /\ bs[a][k].token \in 1 .. n
        \/ bs[a][k].op = "ret" /\ bs[a][k].token \in 0 .. n
        \/ bs[a][k].op = "br" /\ bs[a][k].to \in 1 .. N
        \/ bs[a][k].op = "condbr" /\ bs[a][k].yes \in 1 .. N /\ bs[a][k].no \in 1 .. N
    BY <2>1, <2>2, InstructionAt
  <2> QED
    BY <2>1, <2>3
<1> HIDE DEF I
<1>4. cs \in Seq(Seq(I)) /\ Added(bs, cs, c)
  BY <1>1, AddedContent
<1>5. /\ N \in Nat /\ DOMAIN bs = 1 .. N
      /\ \A a \in DOMAIN bs :
           /\ bs[a] \in Seq(I) /\ Len(bs[a]) \in Nat
           /\ DOMAIN bs[a] = 1 .. Len(bs[a])
           /\ bs[a] = <<>> <=> Len(bs[a]) = 0
           /\ HasTerminator(bs[a]) <=>
                Len(bs[a]) >= 1 /\ IsTerminator(bs[a][Len(bs[a])])
  BY <1>1, BlockFacts, Zenon
<1>6. /\ DOMAIN cs = DOMAIN bs \cup {N + 1} /\ DOMAIN cs = 1 .. N + 1
      /\ N + 1 \notin DOMAIN bs
      /\ \A a \in DOMAIN bs : cs[a] = bs[a]
      /\ cs[N + 1] = c
  BY <1>4 DEF Added
<1>7. /\ l \in [1 .. N + 1 -> Nat] /\ o \in [1 .. N + 1 -> Int]
      /\ \A a \in DOMAIN bs : l[a] = lab[a] /\ o[a] = out[a]
      /\ l[N + 1] = x /\ o[N + 1] = y
  <2>1. /\ N + 1 \in 1 .. N + 1 /\ N + 1 \notin DOMAIN bs
        /\ \A a \in DOMAIN bs : a \in 1 .. N + 1
    BY <1>5
  <2>2. l \in [1 .. N + 1 -> Nat] /\ (\A a \in DOMAIN bs : l[a] = lab[a]) /\ l[N + 1] = x
    BY <1>2, <2>1 DEF Ext
  <2>3. o \in [1 .. N + 1 -> Int] /\ (\A a \in DOMAIN bs : o[a] = out[a]) /\ o[N + 1] = y
    BY <1>2, <2>1 DEF Ext
  <2> QED
    BY <2>2, <2>3
<1>8. Len(c) \in Nat /\ DOMAIN c = 1 .. Len(c) /\ (c = <<>> <=> Len(c) = 0)
  OBVIOUS
<1> HIDE DEF N, cs, l, o
<1>9. ASSUME NEW a \in DOMAIN bs, NEW k, NEW v, k \in DOMAIN bs[a] \/ k \notin 1 .. Len(bs[a]),
             k \in Nat, k >= 1, Leads(bs, lab, out, a, k, v)
      PROVE  Leads(cs, l, o, a, k, v)
  <2>1. cs[a] = bs[a] /\ o[a] = out[a] /\ Len(bs[a]) \in Nat
    BY <1>5, <1>6, <1>7
  <2>2. CASE k <= Len(bs[a])
    <3>1. k \in DOMAIN bs[a]
      BY <1>5, <1>9, <2>1, <2>2
    <3>2. MeetsIn(l, bs[a][k]) = MeetsIn(lab, bs[a][k])
      BY <1>3, <1>7, <3>1 DEF MeetsIn
    <3> QED
      BY <1>9, <2>1, <2>2, <3>2 DEF Leads
  <2>3. CASE ~(k <= Len(bs[a]))
    BY <1>9, <2>1, <2>3 DEF Leads
  <2> QED
    BY <2>2, <2>3
<1>10. ASSUME NEW a \in DOMAIN bs
      PROVE  Leads(cs, l, o, a, 1, l[a]) /\ Forward(cs, a)
  <2>1. Leads(cs, l, o, a, 1, l[a])
    <3>1. Leads(bs, lab, out, a, 1, lab[a]) /\ l[a] = lab[a]
      BY <1>2, <1>7
    <3>2. 1 \in DOMAIN bs[a] \/ 1 \notin 1 .. Len(bs[a])
      BY <1>5
    <3> QED
      BY <1>9, <3>1, <3>2
  <2>2. Forward(cs, a)
    <3>1. Forward(bs, a) /\ cs[a] = bs[a]
      BY <1>2, <1>6
    <3>2. ASSUME bs[a] # <<>>, bs[a][1].op = "br"
          PROVE  bs[a][1].to > a \/ Begins(cs, bs[a][1].to)
      <4>1. bs[a][1].to > a \/ Begins(bs, bs[a][1].to)
        BY <3>1, <3>2 DEF Forward
      <4>2. 1 \in DOMAIN bs[a]
        BY <1>5, <3>2
      <4>3. bs[a][1].to \in DOMAIN bs
        BY <1>3, <3>2, <4>2
      <4> QED
        BY <1>6, <4>1, <4>3 DEF Begins
    <3> QED
      BY <3>1, <3>2 DEF Forward
  <2> QED
    BY <2>1, <2>2
<1>11. Leads(cs, l, o, N + 1, 1, l[N + 1]) /\ Forward(cs, N + 1)
  <2>1. CASE c = <<>>
    <3>1. ~(1 <= Len(cs[N + 1])) /\ o[N + 1] = l[N + 1] /\ cs[N + 1] = <<>>
      BY <1>6, <1>7, <1>8, <2>1
    <3> QED
      BY <3>1 DEF Leads, Forward
  <2>2. CASE c # <<>>
    <3>1. 1 <= Len(c) /\ c[1].op \in {"eval", "ret"} /\ x = c[1].token
      BY <1>8, <2>2
    <3> QED
      BY <1>6, <1>7, <3>1 DEF Leads, MeetsIn, Forward
  <2> QED
    BY <2>1, <2>2
<1>12. ASSUME NEW a \in DOMAIN bs, NEW k \in DOMAIN bs[a], bs[a][k].op = "eval"
       PROVE  Follows(s, cs, A, l, o, w, a, k, bs[a][k].token)
  <2> DEFINE i == bs[a][k].token
  <2> SUFFICES Follows(s, cs, A, l, o, w, a, k, i)
    OBVIOUS
  <2>1. Follows(s, bs, A, lab, out, w, a, k, i)
    BY <1>2, <1>12
  <2>2. cs[a] = bs[a] /\ o[a] = out[a] /\ k \in Nat /\ k >= 1
        /\ Len(bs[a]) \in Nat /\ DOMAIN bs[a] = 1 .. Len(bs[a])
    <3>1. Len(bs[a]) \in Nat /\ DOMAIN bs[a] = 1 .. Len(bs[a])
      BY <1>5
    <3>2. k \in Nat /\ k >= 1
      BY <3>1
    <3> QED
      BY <1>6, <1>7, <3>1, <3>2
  <2> HIDE DEF i
  <2>3. CASE s[i] = "stmt"
    <3>1. Leads(bs, lab, out, a, k + 1, A[i + 1])
      BY <2>1, <2>3 DEF Follows
    <3>2. k + 1 \in DOMAIN bs[a] \/ k + 1 \notin 1 .. Len(bs[a])
      BY <2>2
    <3>3. k + 1 \in Nat /\ k + 1 >= 1
      BY <2>2
    <3>4. Leads(cs, l, o, a, k + 1, A[i + 1])
      BY <1>9, <3>1, <3>2, <3>3
    <3> QED
      BY <2>3, <3>4 DEF Follows
  <2>4. CASE s[i] # "stmt" /\ Undecided(bs, out, a)
    BY <2>1, <2>2, <2>4 DEF Follows, Undecided
  <2>5. CASE s[i] # "stmt" /\ Decided(s, bs, A, lab, a, i, w)
    <3>1. 2 \in DOMAIN bs[a] /\ bs[a][2].op = "condbr"
      BY <2>2, <2>5 DEF Decided
    <3>2. bs[a][2].yes \in DOMAIN bs /\ bs[a][2].no \in DOMAIN bs
      BY <1>3, <3>1
    <3>3. l[bs[a][2].yes] = lab[bs[a][2].yes] /\ l[bs[a][2].no] = lab[bs[a][2].no]
      BY <1>7, <3>2
    <3>4. Decided(s, cs, A, l, a, i, w)
      BY <2>2, <2>5, <3>3 DEF Decided
    <3> QED
      BY <2>1, <2>5, <3>4 DEF Follows
  <2>6. s[i] = "stmt" \/ Undecided(bs, out, a) \/ Decided(s, bs, A, lab, a, i, w)
    BY <2>1 DEF Follows
  <2> QED
    BY <2>3, <2>4, <2>5, <2>6
<1>13. ASSUME NEW k \in DOMAIN c, c[k].op = "eval"
       PROVE  Follows(s, cs, A, l, o, w, N + 1, k, c[k].token)
  <2>1. k = 1 /\ c # <<>> /\ Len(c) = 1
    BY <1>8
  <2>2. s[c[1].token] # "stmt" /\ y = -1
    BY <1>13, <2>1
  <2>3. Undecided(cs, o, N + 1)
    BY <1>6, <1>7, <2>1, <2>2 DEF Undecided
  <2> QED
    BY <2>1, <2>2, <2>3 DEF Follows
<1>14. /\ l \in [DOMAIN cs -> Nat] /\ o \in [DOMAIN cs -> Int]
       /\ 1 \in DOMAIN cs /\ l[1] = A[1]
  BY <1>2, <1>6, <1>7
<1>15. \A a \in DOMAIN cs : \A k \in DOMAIN cs[a] : cs[a][k].op = "eval" =>
           Follows(s, cs, A, l, o, w, a, k, cs[a][k].token)
  BY <1>6, <1>12, <1>13
<1>16. Preserves(s, cs, A, l, o, w)
  BY <1>6, <1>10, <1>11, <1>14, <1>15 DEF Preserves
<1> QED
  BY <1>16 DEF cs, l, o

LEMMA OfTwo ==
  ASSUME NEW S, NEW z \in Seq(S), Len(z) = 2
  PROVE  z # <<>> /\ DOMAIN z = {1, 2}
<1>1. DOMAIN z = 1 .. 2 /\ z # <<>>
  OBVIOUS
<1>2. 1 .. 2 = {1, 2}
  OBVIOUS
<1> QED
  BY <1>1, <1>2

\* A condition gets its two ways.
LEMMA PreservesConnect ==
  ASSUME NEW s \in Seq(Token), NEW n \in Nat,
         NEW bs, bs \in Seq(Seq(Instruction(n, Len(bs)))),
         NEW A, NEW lab, NEW out, NEW w \in BOOLEAN,
         Preserves(s, bs, A, lab, out, w),
         NEW b \in DOMAIN bs, NEW i, bs[b] = <<Eval(i)>>, s[i] # "stmt",
         NEW yes \in DOMAIN bs, NEW no \in DOMAIN bs,
         NEW c \in DOMAIN s, Closes(s, c, i), w => c # Len(s),
         lab[yes] = A[i + 1], lab[no] = NotTaken(s, A, i, c)
  PROVE  Preserves(s, Emit(bs, b, CondBr(yes, no)), A, lab, out, w)
<1> DEFINE N  == Len(bs)
           I  == Instruction(n, N)
           ins == CondBr(yes, no)
           cs == Emit(bs, b, ins)
<1>1. /\ lab \in [DOMAIN bs -> Nat] /\ out \in [DOMAIN bs -> Int]
      /\ 1 \in DOMAIN bs /\ lab[1] = A[1]
      /\ \A a \in DOMAIN bs : Leads(bs, lab, out, a, 1, lab[a]) /\ Forward(bs, a)
      /\ \A a \in DOMAIN bs : \A k \in DOMAIN bs[a] : bs[a][k].op = "eval" =>
           Follows(s, bs, A, lab, out, w, a, k, bs[a][k].token)
  BY DEF Preserves
<1>2. ins \in I /\ bs \in Seq(Seq(I)) /\ DOMAIN bs = 1 .. N /\ N \in Nat
  BY DEF Instruction, CondBr
<1>3. ins.op = "condbr" /\ ins.yes = yes /\ ins.no = no
  BY DEF CondBr
<1> HIDE DEF I, ins
<1>4. cs \in Seq(Seq(I)) /\ Emitted(bs, cs, b, ins)
  BY <1>2, EmitContent
<1> HIDE DEF cs, N
<1>5. Len(bs[b]) = 1 /\ bs[b][1] = Eval(i) /\ Eval(i).op = "eval" /\ Eval(i).token = i
      /\ bs[b] # <<>>
  BY DEF Eval
<1>6. /\ DOMAIN cs = DOMAIN bs /\ \A a \in DOMAIN bs \ {b} : cs[a] = bs[a]
      /\ Len(cs[b]) = 2 /\ cs[b][1] = Eval(i) /\ cs[b][2] = ins
      /\ cs[b] # <<>> /\ DOMAIN cs[b] = {1, 2}
  <2>1. cs[b] \in Seq(I)
    BY <1>4 DEF Emitted
  <2>2. Len(cs[b]) = 2
    BY <1>4, <1>5 DEF Emitted
  <2>3. cs[b] # <<>> /\ DOMAIN cs[b] = {1, 2}
    BY <2>1, <2>2, OfTwo
  <2>4. 1 \in 1 .. Len(bs[b]) /\ Len(bs[b]) + 1 = 2
    BY <1>5
  <2>5. cs[b][1] = Eval(i) /\ cs[b][2] = ins
    BY <1>4, <1>5, <2>4 DEF Emitted
  <2> QED
    BY <1>4, <2>2, <2>3, <2>5 DEF Emitted
<1>7. \A a : Begins(bs, a) /\ a \in DOMAIN bs => Begins(cs, a)
  BY <1>5, <1>6 DEF Begins
<1>8. ASSUME NEW a \in DOMAIN bs
      PROVE  Leads(cs, lab, out, a, 1, lab[a]) /\ Forward(cs, a)
  <2>1. Leads(bs, lab, out, a, 1, lab[a]) /\ Forward(bs, a)
    BY <1>1
  <2>2. CASE a = b
    <3>1. Leads(cs, lab, out, a, 1, lab[a])
      <4>1. MeetsIn(lab, Eval(i)) = lab[b] /\ Eval(i).op # "condbr"
        <5>1. 1 <= Len(bs[b])
          BY <1>5
        <5>2. MeetsIn(lab, bs[b][1]) = lab[b] /\ bs[b][1].op # "condbr"
          BY <2>1, <2>2, <5>1 DEF Leads
        <5> QED
          BY <1>5, <5>2
      <4> QED
        BY <1>6, <2>2, <4>1 DEF Leads
    <3>2. Forward(cs, a)
      BY <1>5, <1>6, <2>2 DEF Forward
    <3> QED
      BY <3>1, <3>2
  <2>3. CASE a # b
    <3>1. cs[a] = bs[a]
      BY <1>6, <2>3
    <3>2. bs[a] # <<>> /\ bs[a][1].op = "br" => bs[a][1].to \in DOMAIN bs
      <4>1. ASSUME bs[a] # <<>> PROVE 1 \in DOMAIN bs[a]
        <5>1. bs[a] \in Seq(I)
          BY <1>2
        <5> QED
          BY <4>1, <5>1
      <4>2. ASSUME 1 \in DOMAIN bs[a]
            PROVE \/ bs[a][1].op = "eval" /\ bs[a][1].token \in 1 .. n
                  \/ bs[a][1].op = "ret" /\ bs[a][1].token \in 0 .. n
                  \/ bs[a][1].op = "br" /\ bs[a][1].to \in 1 .. Len(bs)
                  \/ bs[a][1].op = "condbr" /\ bs[a][1].yes \in 1 .. Len(bs)
                     /\ bs[a][1].no \in 1 .. Len(bs)
        BY <1>2, <4>2, InstructionAt DEF N
      <4> QED
        BY <1>2, <4>1, <4>2 DEF N
    <3> QED
      BY <1>7, <2>1, <3>1, <3>2 DEF Leads, Forward
  <2> QED
    BY <2>2, <2>3
<1>9. Decided(s, cs, A, lab, b, i, w)
  BY <1>3, <1>6 DEF Decided
<1>10. ASSUME NEW a \in DOMAIN cs, NEW k \in DOMAIN cs[a], cs[a][k].op = "eval"
       PROVE  Follows(s, cs, A, lab, out, w, a, k, cs[a][k].token)
  <2>1. CASE a = b
    <3>1. k = 1 /\ cs[a][k].token = i
      BY <1>3, <1>5, <1>6, <1>10, <2>1
    <3> QED
      BY <1>9, <2>1, <3>1 DEF Follows
  <2>2. CASE a # b
    <3>1. cs[a] = bs[a] /\ a \in DOMAIN bs
      BY <1>6, <2>2
    <3>2. Follows(s, bs, A, lab, out, w, a, k, bs[a][k].token)
      BY <1>1, <1>10, <3>1
    <3> QED
      BY <3>1, <3>2 DEF Follows, Leads, Undecided, Decided
  <2> QED
    BY <2>1, <2>2
<1>11. Preserves(s, cs, A, lab, out, w)
  BY <1>1, <1>6, <1>8, <1>10 DEF Preserves
<1> QED
  BY <1>11 DEF cs, ins

-----------------------------------------------------------------------------
(* Where the code of a token is.                                           *)

\* cs has what bs has and ins at place k of block b.
OneMore(bs, cs, b, k, ins) ==
  /\ DOMAIN bs \subseteq DOMAIN cs
  /\ \A a \in DOMAIN bs : \A m \in DOMAIN bs[a] : m \in DOMAIN cs[a] /\ cs[a][m] = bs[a][m]
  /\ b \in DOMAIN cs /\ k \in DOMAIN cs[b] /\ cs[b][k] = ins
  /\ \A a \in DOMAIN cs : \A m \in DOMAIN cs[a] :
       (a \in DOMAIN bs /\ m \in DOMAIN bs[a]) \/ (a = b /\ m = k)

\* F is E with the token that ins evaluates, if it evaluates one.
Evaluating(E, F, ins) ==
  \/ ins.op # "eval" /\ F = E
  \/ \E t : ins = Eval(t) /\ t \notin E /\ F = E \cup {t}

\* One instruction more: one token more has its place, or none.
LEMMA PlacedMore ==
  ASSUME NEW bs, NEW cs, NEW b, NEW k, NEW ins, OneMore(bs, cs, b, k, ins),
         NEW E, NEW F, Evaluating(E, F, ins), Placed(E, bs)
  PROVE  Placed(F, cs)
<1>1. CASE ins.op # "eval" /\ F = E
  <2>1. \A i \in F : \E a \in DOMAIN cs : \E m \in DOMAIN cs[a] : cs[a][m] = Eval(i)
    <3> SUFFICES ASSUME NEW i \in F
                 PROVE  \E a \in DOMAIN cs : \E m \in DOMAIN cs[a] : cs[a][m] = Eval(i)
      OBVIOUS
    <3>1. PICK a \in DOMAIN bs : \E m \in DOMAIN bs[a] : bs[a][m] = Eval(i)
      BY <1>1 DEF Placed
    <3>2. PICK m \in DOMAIN bs[a] : bs[a][m] = Eval(i)
      BY <3>1
    <3> QED
      BY <3>1, <3>2 DEF OneMore
  <2>2. ASSUME NEW a \in DOMAIN cs, NEW m \in DOMAIN cs[a], cs[a][m].op = "eval"
        PROVE  a \in DOMAIN bs /\ m \in DOMAIN bs[a] /\ cs[a][m] = bs[a][m]
    BY <1>1, <2>2 DEF OneMore
  <2>3. ASSUME NEW a \in DOMAIN cs, NEW d \in DOMAIN cs,
               NEW m \in DOMAIN cs[a], NEW p \in DOMAIN cs[d],
               cs[a][m].op = "eval", cs[d][p] = cs[a][m]
        PROVE  a = d /\ m = p
    <3>1. a \in DOMAIN bs /\ m \in DOMAIN bs[a] /\ cs[a][m] = bs[a][m]
      BY <2>2, <2>3
    <3>2. d \in DOMAIN bs /\ p \in DOMAIN bs[d] /\ cs[d][p] = bs[d][p]
      <4>1. cs[d][p].op = "eval"
        BY <2>3
      <4> QED
        BY <2>2, <4>1
    <3>3. bs[a][m].op = "eval" /\ bs[d][p] = bs[a][m]
      BY <2>3, <3>1, <3>2
    <3> QED
      BY <3>1, <3>2, <3>3 DEF Placed
  <2>4. ASSUME NEW a \in DOMAIN cs, NEW m \in DOMAIN cs[a], cs[a][m].op = "eval"
        PROVE  cs[a][m].token \in F
    <3>1. a \in DOMAIN bs /\ m \in DOMAIN bs[a] /\ cs[a][m] = bs[a][m]
      BY <2>2, <2>4
    <3> QED
      BY <1>1, <2>4, <3>1 DEF Placed
  <2> QED
    BY <2>1, <2>3, <2>4 DEF Placed
<1>2. ASSUME NEW t, ins = Eval(t), t \notin E, F = E \cup {t} PROVE Placed(F, cs)
  <2>1. ins.op = "eval" /\ ins.token = t
    BY <1>2 DEF Eval
  <2>2. ASSUME NEW i \in F
        PROVE  \E a \in DOMAIN cs : \E m \in DOMAIN cs[a] : cs[a][m] = Eval(i)
    <3>1. CASE i = t
      BY <1>2, <3>1 DEF OneMore
    <3>2. CASE i \in E
      <4>1. PICK a \in DOMAIN bs : \E m \in DOMAIN bs[a] : bs[a][m] = Eval(i)
        BY <3>2 DEF Placed
      <4>2. PICK m \in DOMAIN bs[a] : bs[a][m] = Eval(i)
        BY <4>1
      <4> QED
        BY <4>1, <4>2 DEF OneMore
    <3> QED
      BY <1>2, <2>2, <3>1, <3>2
  <2>3. ASSUME NEW a \in DOMAIN cs, NEW m \in DOMAIN cs[a], cs[a][m].op = "eval"
        PROVE  \/ /\ a \in DOMAIN bs /\ m \in DOMAIN bs[a] /\ cs[a][m] = bs[a][m]
                  /\ cs[a][m].token \in E
               \/ a = b /\ m = k /\ cs[a][m].token = t
    <3>1. CASE a \in DOMAIN bs /\ m \in DOMAIN bs[a]
      <4>1. cs[a][m] = bs[a][m]
        BY <3>1 DEF OneMore
      <4>2. bs[a][m].token \in E
        BY <2>3, <3>1, <4>1 DEF Placed
      <4> QED
        BY <3>1, <4>1, <4>2
    <3>2. CASE a = b /\ m = k
      BY <2>1, <3>2 DEF OneMore
    <3> QED
      BY <3>1, <3>2 DEF OneMore
  <2>4. ASSUME NEW a \in DOMAIN cs, NEW d \in DOMAIN cs,
               NEW m \in DOMAIN cs[a], NEW p \in DOMAIN cs[d],
               cs[a][m].op = "eval", cs[d][p] = cs[a][m]
        PROVE  a = d /\ m = p
    <3>1. \/ /\ a \in DOMAIN bs /\ m \in DOMAIN bs[a] /\ cs[a][m] = bs[a][m]
             /\ cs[a][m].token \in E
          \/ a = b /\ m = k /\ cs[a][m].token = t
      BY <2>3, <2>4
    <3>2. cs[d][p].op = "eval" /\ cs[d][p].token = cs[a][m].token
      BY <2>4
    <3>3. \/ /\ d \in DOMAIN bs /\ p \in DOMAIN bs[d] /\ cs[d][p] = bs[d][p]
             /\ cs[d][p].token \in E
          \/ d = b /\ p = k /\ cs[d][p].token = t
      BY <2>3, <3>2
    <3>4. CASE a = b /\ m = k /\ cs[a][m].token = t
      BY <1>2, <3>2, <3>3, <3>4
    <3>5. CASE /\ a \in DOMAIN bs /\ m \in DOMAIN bs[a] /\ cs[a][m] = bs[a][m]
               /\ cs[a][m].token \in E
      <4>1. d \in DOMAIN bs /\ p \in DOMAIN bs[d] /\ cs[d][p] = bs[d][p]
        BY <1>2, <3>2, <3>3, <3>5
      <4>2. bs[a][m].op = "eval" /\ bs[d][p] = bs[a][m]
        BY <2>4, <3>5, <4>1
      <4> QED
        BY <3>5, <4>1, <4>2 DEF Placed
    <3> QED
      BY <3>1, <3>4, <3>5
  <2>5. ASSUME NEW a \in DOMAIN cs, NEW m \in DOMAIN cs[a], cs[a][m].op = "eval"
        PROVE  cs[a][m].token \in F
    BY <1>2, <2>3, <2>5
  <2> QED
    BY <2>2, <2>4, <2>5 DEF Placed
<1> QED
  BY <1>1, <1>2 DEF Evaluating

LEMMA RowFacts ==
  ASSUME NEW S, NEW bs \in Seq(Seq(S))
  PROVE  \A a \in DOMAIN bs : DOMAIN bs[a] = 1 .. Len(bs[a]) /\ Len(bs[a]) \in Nat
<1> SUFFICES ASSUME NEW a \in DOMAIN bs
             PROVE  DOMAIN bs[a] = 1 .. Len(bs[a]) /\ Len(bs[a]) \in Nat
  OBVIOUS
<1>1. bs[a] \in Seq(S)
  OBVIOUS
<1> QED
  BY <1>1

\* The same for Emit.
LEMMA PlacedEmit ==
  ASSUME NEW S, NEW bs \in Seq(Seq(S)), NEW b \in DOMAIN bs, NEW ins \in S,
         NEW E, NEW F, Evaluating(E, F, ins), Placed(E, bs)
  PROVE  Placed(F, Emit(bs, b, ins))
<1> DEFINE cs == Emit(bs, b, ins)
           k  == Len(bs[b]) + 1
<1>1. cs \in Seq(Seq(S)) /\ Emitted(bs, cs, b, ins)
  BY EmitContent
<1> HIDE DEF cs
<1>2. \A a \in DOMAIN bs : DOMAIN bs[a] = 1 .. Len(bs[a]) /\ Len(bs[a]) \in Nat
  BY RowFacts
<1>3. \A a \in DOMAIN cs : DOMAIN cs[a] = 1 .. Len(cs[a]) /\ Len(cs[a]) \in Nat
  BY <1>1, RowFacts
<1>4. DOMAIN cs = DOMAIN bs
  BY <1>1 DEF Emitted
<1>5. DOMAIN cs[b] = 1 .. k /\ cs[b][k] = ins /\ k \in 1 .. k
  BY <1>1, <1>2, <1>3, <1>4 DEF Emitted
<1>6. ASSUME NEW a \in DOMAIN bs, NEW m \in DOMAIN bs[a]
      PROVE  m \in DOMAIN cs[a] /\ cs[a][m] = bs[a][m]
  <2>1. CASE a = b
    <3>1. m \in 1 .. Len(bs[b]) /\ m \in 1 .. k
      BY <1>2, <2>1
    <3> QED
      BY <1>1, <1>5, <2>1, <3>1 DEF Emitted
  <2>2. CASE a # b
    BY <1>1, <2>2 DEF Emitted
  <2> QED
    BY <2>1, <2>2
<1>7. ASSUME NEW a \in DOMAIN cs, NEW m \in DOMAIN cs[a]
      PROVE  (a \in DOMAIN bs /\ m \in DOMAIN bs[a]) \/ (a = b /\ m = k)
  <2>1. CASE a = b
    <3>1. m \in 1 .. k
      BY <1>5, <2>1
    <3>2. m \in 1 .. Len(bs[b]) \/ m = k
      BY <1>2, <3>1
    <3> QED
      BY <1>2, <2>1, <3>2
  <2>2. CASE a # b
    BY <1>1, <1>4, <2>2 DEF Emitted
  <2> QED
    BY <2>1, <2>2
<1> HIDE DEF k
<1>8. OneMore(bs, cs, b, k, ins)
  BY <1>4, <1>5, <1>6, <1>7 DEF OneMore
<1>9. Placed(F, cs)
  BY <1>8, PlacedMore
<1> QED
  BY <1>9 DEF cs

\* The same for a new block of at most one instruction.
LEMMA PlacedNew ==
  ASSUME NEW S, NEW bs \in Seq(Seq(S)), NEW c \in Seq(S), Len(c) <= 1,
         NEW E, NEW F, c = <<>> => F = E, c # <<>> => Evaluating(E, F, c[1]),
         Placed(E, bs)
  PROVE  Placed(F, Append(bs, c))
<1> DEFINE cs == Append(bs, c)
           b  == Len(bs) + 1
<1>1. Added(bs, cs, c)
  BY AddedContent
<1> HIDE DEF cs
<1>2. /\ DOMAIN cs = DOMAIN bs \cup {b} /\ cs[b] = c
      /\ \A a \in DOMAIN bs : cs[a] = bs[a]
  BY <1>1 DEF Added
<1> HIDE DEF b
<1>3. CASE c = <<>>
  <2>1. DOMAIN cs[b] = {} /\ F = E
    BY <1>2, <1>3
  <2>2. ASSUME NEW a \in DOMAIN cs, NEW m \in DOMAIN cs[a]
        PROVE  a \in DOMAIN bs /\ m \in DOMAIN bs[a] /\ cs[a][m] = bs[a][m]
    BY <1>2, <2>1
  <2>3. ASSUME NEW i \in F
        PROVE  \E a \in DOMAIN cs : \E m \in DOMAIN cs[a] : cs[a][m] = Eval(i)
    <3>1. PICK a \in DOMAIN bs : \E m \in DOMAIN bs[a] : bs[a][m] = Eval(i)
      BY <2>1, <2>3 DEF Placed
    <3> QED
      BY <1>2, <3>1
  <2>4. ASSUME NEW a \in DOMAIN cs, NEW d \in DOMAIN cs,
               NEW m \in DOMAIN cs[a], NEW p \in DOMAIN cs[d],
               cs[a][m].op = "eval", cs[d][p] = cs[a][m]
        PROVE  a = d /\ m = p
    <3>1. a \in DOMAIN bs /\ m \in DOMAIN bs[a] /\ cs[a][m] = bs[a][m]
      BY <2>2
    <3>2. d \in DOMAIN bs /\ p \in DOMAIN bs[d] /\ cs[d][p] = bs[d][p]
      BY <2>2
    <3>3. bs[a][m].op = "eval" /\ bs[d][p] = bs[a][m]
      BY <2>4, <3>1, <3>2
    <3> QED
      BY <3>1, <3>2, <3>3 DEF Placed
  <2>5. ASSUME NEW a \in DOMAIN cs, NEW m \in DOMAIN cs[a], cs[a][m].op = "eval"
        PROVE  cs[a][m].token \in F
    <3>1. a \in DOMAIN bs /\ m \in DOMAIN bs[a] /\ cs[a][m] = bs[a][m]
      BY <2>2
    <3> QED
      BY <2>1, <2>5, <3>1 DEF Placed
  <2>6. Placed(F, cs)
    BY <2>3, <2>4, <2>5 DEF Placed
  <2> QED
    BY <2>6 DEF cs
<1>4. CASE c # <<>>
  <2>1. DOMAIN c = {1}
    <3>1. DOMAIN c = 1 .. Len(c) /\ Len(c) \in Nat /\ Len(c) # 0
      BY <1>4
    <3>2. 1 .. 1 = {1}
      OBVIOUS
    <3>3. Len(c) = 1
      BY <3>1
    <3> QED
      BY <3>1, <3>2, <3>3
  <2>2. OneMore(bs, cs, b, 1, c[1])
    BY <1>2, <2>1 DEF OneMore
  <2>3. Placed(F, cs)
    BY <1>4, <2>2, PlacedMore
  <2> QED
    BY <2>3 DEF cs
<1> QED
  BY <1>3, <1>4

\* The tokens that are evaluated, with a token more.
LEMMA EvaluatedNext ==
  ASSUME NEW s \in Seq(Token), NEW t \in Token
  PROVE  /\ Len(s) + 1 \notin EvaluatedIn(s)
         /\ EvaluatedIn(Append(s, t)) =
              IF t \in {"stmt", "while", "if", "elseif"} THEN EvaluatedIn(s) \cup {Len(s) + 1}
                                                        ELSE EvaluatedIn(s)
<1> DEFINE u == Append(s, t)
           n == Len(s) + 1
<1>1. /\ Len(s) \in Nat /\ DOMAIN s = 1 .. Len(s)
      /\ DOMAIN u = DOMAIN s \cup {n} /\ u[n] = t
      /\ \A p \in DOMAIN s : u[p] = s[p]
  BY SourceFacts
<1>2. n \notin DOMAIN s
  BY <1>1
<1> HIDE DEF u, n
<1>3. /\ n \notin EvaluatedIn(s)
      /\ EvaluatedIn(u) = IF t \in {"stmt", "while", "if", "elseif"}
                            THEN EvaluatedIn(s) \cup {n} ELSE EvaluatedIn(s)
  BY <1>1, <1>2 DEF EvaluatedIn
<1> QED
  BY <1>3 DEF u, n

-----------------------------------------------------------------------------
(* What a step leaves alone.                                               *)

\* u is s, or s with a token more.
Grown(s, u) == u = s \/ \E t \in Token : u = Append(s, t)

\* The blocks of B stand as they were; all blocks begin as they did.
Stand(bs, cs, lab, l, out, o, B) ==
  /\ \A b \in DOMAIN bs : l[b] = lab[b]
  /\ \A b \in B : cs[b] = bs[b] /\ o[b] = out[b]

\* What a source keeps when it grows.
LEMMA GrownFacts ==
  ASSUME NEW s \in Seq(Token), NEW u, Grown(s, u)
  PROVE  /\ u \in Seq(Token) /\ Len(s) \in Nat /\ Len(u) \in Nat /\ Len(s) <= Len(u)
         /\ DOMAIN s = 1 .. Len(s) /\ DOMAIN u = 1 .. Len(u)
         /\ DOMAIN s \subseteq DOMAIN u
         /\ \A p \in DOMAIN s : u[p] = s[p]
         /\ \A c, i : Closes(s, c, i) => Closes(u, c, i)
<1>1. CASE u = s
  <2>1. Len(s) \in Nat /\ DOMAIN s = 1 .. Len(s)
    OBVIOUS
  <2> QED
    BY <1>1, <2>1
<1>2. ASSUME NEW t \in Token, u = Append(s, t)
      PROVE  /\ u \in Seq(Token) /\ Len(s) \in Nat /\ Len(u) \in Nat /\ Len(s) <= Len(u)
             /\ DOMAIN s = 1 .. Len(s) /\ DOMAIN u = 1 .. Len(u)
             /\ DOMAIN s \subseteq DOMAIN u
             /\ \A p \in DOMAIN s : u[p] = s[p]
             /\ \A c, i : Closes(s, c, i) => Closes(u, c, i)
  <2>1. /\ Len(s) \in Nat /\ DOMAIN s = 1 .. Len(s)
        /\ u \in Seq(Token) /\ Len(u) = Len(s) + 1
        /\ DOMAIN u = 1 .. Len(s) + 1
        /\ DOMAIN u = DOMAIN s \cup {Len(s) + 1}
        /\ \A p \in 1 .. Len(s) : u[p] = s[p]
    BY <1>2, SourceFacts
  <2>2. \A c, i : Closes(s, c, i) => Closes(u, c, i)
    BY <1>2, ClosesStays
  <2> QED
    BY <2>1, <2>2
<1> QED
  BY <1>1, <1>2 DEF Grown

LEMMA EntryOf ==
  ASSUME NEW S, NEW z \in Seq(S), NEW j \in DOMAIN z
  PROVE  z[j] \in S
OBVIOUS

\* The arrays of impl_branch.
LEMMA BranchParts ==
  ASSUME NEW f, NEW N, IsBranch(f, N) \/ IsConnect(f, N)
  PROVE  /\ DOMAIN f.conds = 1 .. Len(f.conds) /\ Len(f.conds) \in Nat /\ Len(f.conds) >= 1
         /\ DOMAIN f.ends = 1 .. Len(f.ends) /\ Len(f.ends) \in Nat
         /\ DOMAIN f.starts = DOMAIN f.ends /\ Len(f.starts) = Len(f.ends)
         /\ \A j \in DOMAIN f.conds : f.conds[j] \in 1 .. N
         /\ \A j \in DOMAIN f.ends : f.starts[j] \in 1 .. N /\ f.ends[j] \in 1 .. N
<1>1. /\ f.conds \in Seq(1 .. N) /\ f.starts \in Seq(1 .. N) /\ f.ends \in Seq(1 .. N)
      /\ Len(f.starts) = Len(f.ends)
  <2>1. CASE IsBranch(f, N)
    BY <2>1 DEF IsBranch
  <2>2. CASE IsConnect(f, N)
    BY <2>2 DEF IsConnect
  <2> QED
    BY <2>1, <2>2
<1>2. f.conds # <<>>
  <2>1. CASE IsBranch(f, N)
    BY <2>1 DEF IsBranch
  <2>2. CASE IsConnect(f, N)
    <3>1. Len(f.conds) = Len(f.ends) + 1 /\ Len(f.ends) \in Nat
      BY <1>1, <2>2 DEF IsConnect
    <3>2. Len(f.conds) # 0
      BY <3>1
    <3> QED
      BY <3>2
  <2> QED
    BY <2>1, <2>2
<1> DEFINE x == f.conds
           y == f.starts
           z == f.ends
<1>3. x \in Seq(1 .. N) /\ y \in Seq(1 .. N) /\ z \in Seq(1 .. N) /\ Len(y) = Len(z) /\ x # <<>>
  BY <1>1, <1>2
<1> HIDE DEF x, y, z
<1>4. /\ DOMAIN x = 1 .. Len(x) /\ Len(x) \in Nat /\ Len(x) >= 1
      /\ DOMAIN z = 1 .. Len(z) /\ Len(z) \in Nat
      /\ DOMAIN y = DOMAIN z
      /\ \A j \in DOMAIN x : x[j] \in 1 .. N
      /\ \A j \in DOMAIN z : y[j] \in 1 .. N /\ z[j] \in 1 .. N
  <2>1. DOMAIN x = 1 .. Len(x) /\ Len(x) \in Nat /\ Len(x) >= 1
    BY <1>3
  <2>2. DOMAIN z = 1 .. Len(z) /\ Len(z) \in Nat /\ DOMAIN y = DOMAIN z
    BY <1>3
  <2>3. \A j \in DOMAIN x : x[j] \in 1 .. N
    BY <1>3, EntryOf
  <2>4. \A j \in DOMAIN z : z[j] \in 1 .. N
    BY <1>3, EntryOf
  <2>5. \A j \in DOMAIN y : y[j] \in 1 .. N
    BY <1>3, EntryOf
  <2> QED
    BY <2>1, <2>2, <2>3, <2>4, <2>5
<1> QED
  BY <1>3, <1>4 DEF x, y, z

\* An arm stays what it is while its blocks stand.
LEMMA ArmStays ==
  ASSUME NEW s \in Seq(Token), NEW u, Grown(s, u), NEW bs, NEW cs, NEW A,
         NEW lab, NEW l, NEW f, NEW j, NEW t \in DOMAIN s, NEW c \in DOMAIN s,
         cs[f.conds[j]] = bs[f.conds[j]], l[f.starts[j]] = lab[f.starts[j]],
         ArmAt(s, bs, A, lab, f, j, t, c)
  PROVE  ArmAt(u, cs, A, l, f, j, t, c)
BY GrownFacts DEF ArmAt

\* The same for all closed arms.
LEMMA ArmsStay ==
  ASSUME NEW s \in Seq(Token), NEW u, Grown(s, u), NEW bs, NEW cs, NEW A,
         NEW lab, NEW l, NEW out, NEW o, NEW B, NEW f, NEW e,
         IsBranch(f, Len(bs)), DOMAIN bs = 1 .. Len(bs),
         Stand(bs, cs, lab, l, out, o, B), Owed(f) \subseteq B,
         Arms(s, bs, A, lab, out, f, e)
  PROVE  Arms(u, cs, A, l, o, f, e)
<1>1. /\ DOMAIN s \subseteq DOMAIN u
      /\ \A p \in DOMAIN s : u[p] = s[p]
  BY GrownFacts
<1>2. /\ DOMAIN f.conds = 1 .. Len(f.conds) /\ Len(f.conds) \in Nat
      /\ DOMAIN f.ends = 1 .. Len(f.ends) /\ Len(f.ends) \in Nat
      /\ \A j \in DOMAIN f.ends : f.starts[j] \in DOMAIN bs
      /\ Owed(f) = Entries(f.conds) \cup Entries(f.ends)
  <2>1. Owed(f) = Entries(f.conds) \cup Entries(f.ends)
    BY OwedFacts
  <2> QED
    BY <2>1, BranchParts
<1>3. Len(f.ends) <= Len(f.conds)
  BY DEF Arms
<1>4. \A k \in DOMAIN f.conds : cs[f.conds[k]] = bs[f.conds[k]]
  BY <1>2 DEF Stand, Entries
<1>5. \A j \in DOMAIN f.ends : l[f.starts[j]] = lab[f.starts[j]] /\ o[f.ends[j]] = out[f.ends[j]]
  BY <1>2 DEF Stand, Entries
<1>6. ASSUME NEW j \in DOMAIN f.ends
      PROVE  /\ o[f.ends[j]] = A[e]
             /\ \E t, c \in DOMAIN u : ArmAt(u, cs, A, l, f, j, t, c) /\ FollowedBy(u, cs, f, j, c, e)
  <2>1. PICK t \in DOMAIN s, c \in DOMAIN s :
          ArmAt(s, bs, A, lab, f, j, t, c) /\ FollowedBy(s, bs, f, j, c, e)
    BY DEF Arms
  <2>2. j \in DOMAIN f.conds /\ (j # Len(f.conds) => j + 1 \in DOMAIN f.conds)
    BY <1>2, <1>3
  <2>3. ArmAt(u, cs, A, l, f, j, t, c)
    BY <1>4, <1>5, <2>1, <2>2, ArmStays
  <2>4. FollowedBy(u, cs, f, j, c, e)
    BY <1>1, <1>4, <2>1, <2>2 DEF FollowedBy
  <2>5. o[f.ends[j]] = A[e]
    BY <1>5 DEF Arms
  <2>6. t \in DOMAIN u /\ c \in DOMAIN u
    BY <1>1
  <2> QED
    BY <2>3, <2>4, <2>5, <2>6
<1> QED
  BY <1>3, <1>6 DEF Arms

\* A caller keeps what it knows while the blocks it owes stand.
LEMMA CallingStays ==
  ASSUME NEW s \in Seq(Token), NEW u, Grown(s, u), NEW bs, NEW cs, NEW A,
         NEW lab, NEW l, NEW out, NEW o, NEW B, NEW f, NEW g, NEW p,
         IsFrame(f, Len(bs)), IsFrame(g, Len(bs)), Calls(f, g), g.fn # "connect",
         DOMAIN bs = 1 .. Len(bs), 1 \in DOMAIN bs,
         Stand(bs, cs, lab, l, out, o, B), Owed(f) \subseteq B,
         f.fn = "basic_block" => Owed(g) \subseteq B,
         Calling(s, bs, A, lab, out, f, g, p)
  PROVE  Calling(u, cs, A, l, o, f, g, p)
<1>1. /\ DOMAIN s \subseteq DOMAIN u
      /\ \A q \in DOMAIN s : u[q] = s[q]
  BY GrownFacts
<1>2. CASE f.fn = "func"
  <2>1. f.entry = 1 /\ bs[1] = <<>> /\ out[1] = A[1] /\ 1 < g.start
    BY <1>2 DEF Calling
  <2>2. 1 \in B
    <3>1. Owed(f) = {f.entry}
      BY <1>2, FrameKinds, OwedFacts
    <3> QED
      BY <2>1, <3>1
  <2> QED
    BY <1>2, <2>1, <2>2 DEF Calling, Stand
<1>3. CASE f.fn = "basic_block"
  <2> DEFINE c == IF g.fn = "while" THEN g.cond ELSE g.conds[1]
  <2>1. /\ bs[c] # <<>> /\ bs[c][1] = Eval(out[f.last])
        /\ g.fn = "branch" /\ g.orElse # 0 => f.start < g.orElse
    BY <1>3 DEF Calling
  <2>2. f.last \in B
    <3>1. Owed(f) = {f.last}
      BY <1>3, FrameKinds, OwedFacts
    <3> QED
      BY <3>1
  <2>3. c \in B
    <3>0. Owed(g) \subseteq B
      BY <1>3
    <3>1. CASE g.fn = "while"
      <4>1. Owed(g) = {g.cond}
        BY <3>1, FrameKinds, OwedFacts
      <4> QED
        BY <3>0, <3>1, <4>1
    <3>2. CASE g.fn = "branch"
      <4>1. IsBranch(g, Len(bs)) /\ Owed(g) = Entries(g.conds) \cup Entries(g.ends)
        BY <3>2, FrameKinds, OwedFacts
      <4>2. 1 \in DOMAIN g.conds
        BY <4>1, BranchParts
      <4> QED
        BY <3>0, <3>2, <4>1, <4>2 DEF Entries
    <3> QED
      BY <1>3, <3>1, <3>2 DEF Calls
  <2>4. cs[c] = bs[c] /\ o[f.last] = out[f.last]
    BY <2>2, <2>3 DEF Stand
  <2> QED
    BY <1>3, <2>1, <2>4 DEF Calling
<1>4. CASE f.fn = "while"
  <2>1. p \in DOMAIN s /\ s[p] = "while" /\ bs[f.cond] = <<Eval(p)>>
    BY <1>4 DEF Calling
  <2>2. f.cond \in B
    <3>1. Owed(f) = {f.cond}
      BY <1>4, FrameKinds, OwedFacts
    <3> QED
      BY <3>1
  <2>3. p \in DOMAIN u /\ u[p] = "while" /\ cs[f.cond] = <<Eval(p)>>
    BY <1>1, <2>1, <2>2 DEF Stand
  <2> QED
    BY <1>4, <2>3 DEF Calling
<1>5. CASE f.fn = "branch"
  <2>1. /\ p \in DOMAIN s /\ Arms(s, bs, A, lab, out, f, p)
        /\ IF f.orElse = 0
              THEN /\ bs[f.conds[Len(f.conds)]] = <<Eval(p)>>
                   /\ s[p] = IF f.ends = <<>> THEN "if" ELSE "elseif"
              ELSE /\ s[p] = "else" /\ g.start = f.orElse
                   /\ \A j \in DOMAIN f.ends : f.ends[j] < f.orElse
    BY <1>5 DEF Calling
  <2>2. IsBranch(f, Len(bs)) /\ Owed(f) = Entries(f.conds) \cup Entries(f.ends)
    BY <1>5, FrameKinds, OwedFacts
  <2>3. Arms(u, cs, A, l, o, f, p)
    BY <2>1, <2>2, ArmsStay
  <2>4. cs[f.conds[Len(f.conds)]] = bs[f.conds[Len(f.conds)]]
    <3>1. Len(f.conds) \in DOMAIN f.conds
      BY <2>2, BranchParts
    <3> QED
      BY <2>2, <3>1 DEF Entries, Stand
  <2>5. p \in DOMAIN u /\ u[p] = s[p]
    BY <1>1, <2>1
  <2> QED
    BY <1>5, <2>1, <2>3, <2>4, <2>5 DEF Calling
<1> QED
  BY <1>2, <1>3, <1>4, <1>5 DEF Calls

\* The frames up to n stand as they did.
LEMMA BelowStays ==
  ASSUME NEW s \in Seq(Token), NEW u, Grown(s, u), NEW bs, NEW cs, NEW A,
         NEW lab, NEW l, NEW out, NEW o, NEW B, NEW st, NEW tt, NEW open, NEW opn,
         NEW n \in Nat, Kept(st, tt, n), \A k \in 1 .. n : opn[k] = open[k],
         \A k \in 1 .. n : /\ IsFrame(st[k], Len(bs)) /\ st[k].fn # "connect"
                           /\ Owed(st[k]) \subseteq B,
         \A k \in 1 .. n - 1 : Calls(st[k], st[k + 1]),
         DOMAIN bs = 1 .. Len(bs), 1 \in DOMAIN bs,
         Stand(bs, cs, lab, l, out, o, B),
         Below(s, bs, A, lab, out, st, open, n)
  PROVE  Below(u, cs, A, l, o, tt, opn, n)
<1>1. ASSUME NEW k \in 1 .. n, tt[k].fn = "basic_block"
      PROVE  BodyOf(A, l, tt[k], opn[k])
  <2>1. tt[k] = st[k] /\ opn[k] = open[k] /\ IsFrame(st[k], Len(bs))
    BY DEF Kept
  <2>2. BodyOf(A, lab, st[k], open[k])
    BY <1>1, <2>1 DEF Below
  <2>3. st[k].start \in DOMAIN bs
    <3>1. IsBody(st[k], Len(bs))
      BY <1>1, <2>1, FrameKinds
    <3> QED
      BY <3>1 DEF IsBody
  <2> QED
    BY <2>1, <2>2, <2>3 DEF BodyOf, Stand
<1>2. ASSUME NEW k \in 1 .. n - 1
      PROVE  Calling(u, cs, A, l, o, tt[k], tt[k + 1], opn[k + 1])
  <2>1. k \in 1 .. n /\ k + 1 \in 1 .. n
    OBVIOUS
  <2>2. tt[k] = st[k] /\ tt[k + 1] = st[k + 1] /\ opn[k + 1] = open[k + 1]
    BY <2>1 DEF Kept
  <2> DEFINE f == st[k]
             g == st[k + 1]
             p == open[k + 1]
  <2>3. /\ IsFrame(f, Len(bs)) /\ IsFrame(g, Len(bs)) /\ Calls(f, g) /\ g.fn # "connect"
        /\ Owed(f) \subseteq B /\ Owed(g) \subseteq B
    BY <2>1
  <2>4. Calling(s, bs, A, lab, out, f, g, p)
    BY DEF Below
  <2> HIDE DEF f, g, p
  <2>5. Calling(u, cs, A, l, o, f, g, p)
    BY <2>3, <2>4, CallingStays
  <2> QED
    BY <2>2, <2>5 DEF f, g, p
<1> QED
  BY <1>1, <1>2 DEF Below

-----------------------------------------------------------------------------
(* The meaning as an invariant.                                            *)

\* What goes on from the next state goes on from this one.
LEMMA MeansBefore ==
  ASSUME IInv, stack # <<>>, NEW m, NEW open, MeansWith(m, open), Grown(src, src'),
         NEW A \in [Nat -> Nat], Respects(src', A), ~PlainElse(src')
  PROVE  \E lab, out : /\ Preserves(src, blocks, A, lab, out, Running("branch"))
                       /\ Frames(src, blocks, A, lab, out, stack, open)
<1>1. src \in Seq(Token)
  BY StateFacts
<1>2. Respects(src, A) /\ ~PlainElse(src)
  BY <1>1, RespectsWas, PlainElseStays DEF Grown
<1> QED
  BY <1>2 DEF MeansWith

\* The body on top of the stack is the one that was opened last.
LEMMA PlaceOnStack ==
  ASSUME IInv, stack # <<>>, NEW m, NEW open, MeansWith(m, open)
  PROVE  /\ m \in Nat /\ open \in [Nat -> Nat]
         /\ Frame.fn = "basic_block" => Len(stack) = 2 * m + 2
         /\ Frame.fn # "basic_block" => Len(stack) = 2 * m + 3
<1>1. m \in Nat /\ open \in [Nat -> Nat] /\ Len(stack) \in {2 * m + 2, 2 * m + 3}
  BY DEF MeansWith, Nested
<1>2. Len(stack) \in Nat /\ Len(stack) >= 2
  BY StateFacts
<1>3. Frame.fn = "basic_block" <=> Len(stack) % 2 = 0
  <2>1. Len(stack) \in 1 .. Len(stack)
    BY <1>2
  <2> QED
    BY <2>1 DEF IInv, Stacked, Frame
<1>4. (2 * m + 2) % 2 = 0 /\ (2 * m + 3) % 2 = 1
  BY <1>1
<1> QED
  BY <1>1, <1>3, <1>4

-----------------------------------------------------------------------------
(* The frames after a step.                                                *)

\* The frames up to n stand as they did if the step stays above them.
StepStays(n, lab, l, out, o) ==
  /\ n \in Nat /\ n >= 1 /\ n <= Len(stack)
  /\ n < Len(stack) \/ stack[n].fn = "basic_block"
  /\ Grown(src, src')
  /\ \A b \in DOMAIN blocks : l[b] = lab[b]
  /\ \A b \in DOMAIN blocks \ Above(stack, n) : blocks'[b] = blocks[b] /\ o[b] = out[b]

\* A step above place n of the stack leaves alone what the frames below owe.
LEMMA StepStand ==
  ASSUME IInv, stack # <<>>, NEW n, NEW lab, NEW l, NEW out, NEW o,
         StepStays(n, lab, l, out, o)
  PROVE  /\ 1 \in DOMAIN blocks
         /\ \A k \in 1 .. n - 1 : Calls(stack[k], stack[k + 1])
         /\ \E B : /\ Stand(blocks, blocks', lab, l, out, o, B)
                   /\ \A k \in 1 .. n : /\ IsFrame(stack[k], Len(blocks))
                                        /\ stack[k].fn # "connect"
                                        /\ Owed(stack[k]) \subseteq B
<1>1. n \in Nat /\ n >= 1 /\ n <= Len(stack) /\ (n < Len(stack) \/ stack[n].fn = "basic_block")
  BY DEF StepStays
<1> DEFINE B == UNION {Owed(stack[k]) : k \in 1 .. n}
<1>2. /\ src \in Seq(Token) /\ Len(blocks) \in Nat /\ DOMAIN blocks = 1 .. Len(blocks)
      /\ Len(stack) \in Nat /\ DOMAIN stack = 1 .. Len(stack)
  BY StateFacts
<1>3. 1 \in DOMAIN blocks
  <2>1. builder \in 1 .. Len(blocks)
    BY DEF IInv, Typed
  <2> QED
    BY <1>1, <1>2, <2>1
<1>4. \A k \in 1 .. n : k \in DOMAIN stack /\ k \in 1 .. Len(stack)
  BY <1>1, <1>2
<1>5. \A k \in 1 .. n - 1 : Calls(stack[k], stack[k + 1])
  <2>1. \A k \in 1 .. n - 1 : k \in 1 .. Len(stack) - 1
    BY <1>1, <1>2
  <2> QED
    BY <2>1 DEF IInv, Stacked
<1>6. \A k \in 1 .. n : stack[k].fn # "connect"
  <2> SUFFICES ASSUME NEW k \in 1 .. n PROVE stack[k].fn # "connect"
    OBVIOUS
  <2>0. k < Len(stack) \/ (k = Len(stack) /\ k = n)
    <3> DEFINE N == Len(stack)
    <3>1. N \in Nat /\ k \in Nat /\ k <= n /\ n <= N
      BY <1>1, <1>2
    <3> HIDE DEF N
    <3>2. k < N \/ (k = N /\ k = n)
      BY <1>1, <3>1
    <3> QED
      BY <3>2 DEF N
  <2>1. CASE k < Len(stack)
    <3>1. k \in 1 .. Len(stack) - 1
      BY <1>1, <1>2, <2>1
    <3>2. Calls(stack[k], stack[k + 1])
      BY <3>1 DEF IInv, Stacked
    <3> QED
      BY <3>2 DEF Calls
  <2>2. CASE k = Len(stack) /\ k = n
    BY <1>1, <2>2
  <2> QED
    BY <2>0, <2>1, <2>2
<1>7. \A k \in 1 .. n : IsFrame(stack[k], Len(blocks)) /\ Owed(stack[k]) \subseteq B
  BY <1>4 DEF IInv, Typed
<1>8. B \subseteq DOMAIN blocks \ Above(stack, n)
  <2> SUFFICES ASSUME NEW k \in 1 .. n, NEW b \in Owed(stack[k])
               PROVE  b \in DOMAIN blocks /\ b \notin Above(stack, n)
    OBVIOUS
  <2>1. k \in DOMAIN stack
    BY <1>4
  <2>2. b \in DOMAIN blocks
    BY <2>1 DEF IInv, Owing
  <2>3. ASSUME NEW i \in n + 1 .. Len(stack) PROVE b \notin Owed(stack[i])
    <3>1. i \in DOMAIN stack /\ i # k
      BY <1>1, <1>2
    <3>2. Owed(stack[k]) \cap Owed(stack[i]) = {}
      BY <2>1, <3>1 DEF IInv, Owing
    <3> QED
      BY <3>2
  <2> QED
    BY <2>2, <2>3 DEF Above
<1> HIDE DEF B
<1>9. Stand(blocks, blocks', lab, l, out, o, B)
  BY <1>8 DEF Stand, StepStays
<1> QED
  BY <1>3, <1>5, <1>6, <1>7, <1>9

\* So these keep what they know.
LEMMA StepBelow ==
  ASSUME IInv, stack # <<>>, NEW n, NEW lab, NEW l, NEW out, NEW o,
         StepStays(n, lab, l, out, o), Kept(stack, stack', n),
         NEW A, NEW open, NEW opn, \A k \in 1 .. n : opn[k] = open[k],
         Frames(src, blocks, A, lab, out, stack, open)
  PROVE  Below(src', blocks', A, l, o, stack', opn, n)
<1>1. /\ src \in Seq(Token) /\ DOMAIN blocks = 1 .. Len(blocks)
      /\ Len(stack) \in Nat /\ DOMAIN stack = 1 .. Len(stack)
  BY StateFacts
<1>2. PICK B : /\ Stand(blocks, blocks', lab, l, out, o, B)
               /\ \A k \in 1 .. n : /\ IsFrame(stack[k], Len(blocks))
                                    /\ stack[k].fn # "connect"
                                    /\ Owed(stack[k]) \subseteq B
  BY StepStand
<1>3. 1 \in DOMAIN blocks /\ \A k \in 1 .. n - 1 : Calls(stack[k], stack[k + 1])
  BY StepStand
<1>4. n \in Nat /\ n >= 1 /\ n <= Len(stack) /\ Grown(src, src')
  BY DEF StepStays
<1>5. Below(src, blocks, A, lab, out, stack, open, n)
  <2>1. Below(src, blocks, A, lab, out, stack, open, Len(stack))
    BY DEF Frames
  <2>2. \A k \in 1 .. n - 1 : k \in 1 .. Len(stack) - 1
    BY <1>1, <1>4
  <2>3. \A k \in 1 .. n : k \in 1 .. Len(stack)
    BY <1>1, <1>4
  <2> QED
    BY <2>1, <2>2, <2>3 DEF Below
<1> QED
  BY <1>1, <1>2, <1>3, <1>4, <1>5, BelowStays

\* So does what the frame at n keeps of the body that it called.
LEMMA StepCaller ==
  ASSUME IInv, stack # <<>>, NEW n, NEW lab, NEW l, NEW out, NEW o,
         StepStays(n, lab, l, out, o), n < Len(stack), stack[n + 1].fn = "basic_block",
         NEW A, NEW open, Frames(src, blocks, A, lab, out, stack, open),
         NEW g, g.fn = "basic_block", g.start = stack[n + 1].start
  PROVE  /\ Calling(src', blocks', A, l, o, stack[n], g, open[n + 1])
         /\ l[g.start] = A[open[n + 1] + 1]
<1> DEFINE f == stack[n]
           h == stack[n + 1]
           p == open[n + 1]
<1>1. /\ src \in Seq(Token) /\ DOMAIN blocks = 1 .. Len(blocks)
      /\ Len(stack) \in Nat /\ DOMAIN stack = 1 .. Len(stack)
  BY StateFacts
<1>2. PICK B : /\ Stand(blocks, blocks', lab, l, out, o, B)
               /\ \A k \in 1 .. n : /\ IsFrame(stack[k], Len(blocks))
                                    /\ stack[k].fn # "connect"
                                    /\ Owed(stack[k]) \subseteq B
  BY StepStand
<1>3. 1 \in DOMAIN blocks
  BY StepStand
<1>4. n \in Nat /\ n >= 1 /\ n <= Len(stack) /\ Grown(src, src')
  BY DEF StepStays
<1>5. n \in 1 .. n /\ n \in 1 .. Len(stack) - 1 /\ n + 1 \in DOMAIN stack /\ n + 1 \in 1 .. Len(stack)
  BY <1>1, <1>4
<1>6. IsFrame(f, Len(blocks)) /\ Owed(f) \subseteq B
  BY <1>2, <1>5
<1>7. IsFrame(h, Len(blocks)) /\ h.fn = "basic_block"
  BY <1>5 DEF IInv, Typed
<1>8. Calls(f, h)
  BY <1>5 DEF IInv, Stacked
<1>9. f.fn # "basic_block"
  BY <1>7, <1>8 DEF Calls
<1>10. Calling(src, blocks, A, lab, out, f, h, p) /\ BodyOf(A, lab, h, p)
  BY <1>5, <1>7 DEF Frames, Below
<1>11. l[h.start] = A[p + 1]
  <2>1. h.start \in DOMAIN blocks
    BY <1>1, <1>7, FrameKinds DEF IsBody
  <2> QED
    BY <1>2, <1>10, <2>1 DEF Stand, BodyOf
<1>12. g.start = h.start
  OBVIOUS
<1> HIDE DEF f, h, p
<1>13. Calling(src', blocks', A, l, o, f, h, p)
  BY <1>1, <1>2, <1>3, <1>4, <1>6, <1>7, <1>8, <1>9, <1>10, CallingStays
<1>14. Calling(src', blocks', A, l, o, f, g, p)
  BY <1>8, <1>9, <1>12, <1>13 DEF Calling, Calls
<1> QED
  BY <1>11, <1>12, <1>14 DEF f, h, p

\* The frames when one new frame is on top.
LEMMA FramesPut ==
  ASSUME NEW s, NEW bs, NEW A, NEW lab, NEW out, NEW st, NEW tt, NEW open,
         NEW n \in Nat, n >= 1, NEW g, Puts(st, tt, n, g),
         Below(s, bs, A, lab, out, tt, open, n),
         Calling(s, bs, A, lab, out, st[n], g, open[n + 1]),
         g.fn = "basic_block" => BodyOf(A, lab, g, open[n + 1]),
         Walking(s, bs, A, lab, out, g)
  PROVE  Frames(s, bs, A, lab, out, tt, open)
<1>1. Len(tt) = n + 1 /\ tt[n + 1] = g /\ tt[n] = st[n]
  BY DEF Puts, Kept
<1>2. ASSUME NEW k \in 1 .. n + 1, tt[k].fn = "basic_block"
      PROVE  BodyOf(A, lab, tt[k], open[k])
  <2>1. k \in 1 .. n \/ k = n + 1
    OBVIOUS
  <2> QED
    BY <1>1, <1>2, <2>1 DEF Below
<1>3. ASSUME NEW k \in 1 .. n
      PROVE  Calling(s, bs, A, lab, out, tt[k], tt[k + 1], open[k + 1])
  <2>1. k \in 1 .. n - 1 \/ k = n
    OBVIOUS
  <2> QED
    BY <1>1, <2>1 DEF Below
<1>4. (n + 1) - 1 = n
  OBVIOUS
<1>5. Below(s, bs, A, lab, out, tt, open, n + 1)
  BY <1>2, <1>3, <1>4 DEF Below
<1> QED
  BY <1>1, <1>5 DEF Frames

\* The frames when two new frames are on top.
LEMMA FramesPutTwo ==
  ASSUME NEW s, NEW bs, NEW A, NEW lab, NEW out, NEW st, NEW tt, NEW open,
         NEW n \in Nat, n >= 1, NEW g, NEW h, PutsTwo(st, tt, n, g, h),
         Below(s, bs, A, lab, out, tt, open, n),
         g.fn # "basic_block", h.fn = "basic_block",
         Calling(s, bs, A, lab, out, st[n], g, open[n + 1]),
         Calling(s, bs, A, lab, out, g, h, open[n + 2]),
         BodyOf(A, lab, h, open[n + 2]),
         Walking(s, bs, A, lab, out, h)
  PROVE  Frames(s, bs, A, lab, out, tt, open)
<1>1. Len(tt) = n + 2 /\ tt[n + 1] = g /\ tt[n + 2] = h /\ tt[n] = st[n]
  BY DEF PutsTwo, Kept
<1>2. ASSUME NEW k \in 1 .. n + 2, tt[k].fn = "basic_block"
      PROVE  BodyOf(A, lab, tt[k], open[k])
  <2>1. k \in 1 .. n \/ k = n + 1 \/ k = n + 2
    OBVIOUS
  <2> QED
    BY <1>1, <1>2, <2>1 DEF Below
<1>3. ASSUME NEW k \in 1 .. n + 1
      PROVE  Calling(s, bs, A, lab, out, tt[k], tt[k + 1], open[k + 1])
  <2>1. k \in 1 .. n - 1 \/ k = n \/ k = n + 1
    OBVIOUS
  <2>2. (n + 1) + 1 = n + 2
    OBVIOUS
  <2> QED
    BY <1>1, <2>1, <2>2 DEF Below
<1>4. (n + 2) - 1 = n + 1
  OBVIOUS
<1>5. Below(s, bs, A, lab, out, tt, open, n + 2)
  BY <1>2, <1>3, <1>4 DEF Below
<1> QED
  BY <1>1, <1>5 DEF Frames

\* The frame of a body is the only one that changes, and those above it go.
LEMMA BodyFrames ==
  ASSUME IInv, stack # <<>>, NEW n, NEW lab, NEW l, NEW out, NEW o,
         StepStays(n, lab, l, out, o), n < Len(stack), stack[n + 1].fn = "basic_block",
         NEW A, NEW open, Frames(src, blocks, A, lab, out, stack, open),
         NEW g, Puts(stack, stack', n, g),
         g.fn = "basic_block", g.start = stack[n + 1].start, g.start <= g.last,
         Walking(src', blocks', A, l, o, g)
  PROVE  Frames(src', blocks', A, l, o, stack', open)
<1>1. /\ Calling(src', blocks', A, l, o, stack[n], g, open[n + 1])
      /\ l[g.start] = A[open[n + 1] + 1]
  BY StepCaller
<1>2. Below(src', blocks', A, l, o, stack', open, n)
  BY StepBelow DEF Puts
<1>3. BodyOf(A, l, g, open[n + 1])
  BY <1>1 DEF BodyOf
<1>4. n \in Nat /\ n >= 1
  BY DEF StepStays
<1> QED
  BY <1>1, <1>2, <1>3, <1>4, FramesPut

-----------------------------------------------------------------------------
(* The first state, and the statements.                                    *)

\* With a new empty block that promises x, l and o say it of all blocks.
Promised(s, bs, A, lab, out, w, x, l, o) ==
  /\ Preserves(s, AppendBlock(bs), A, l, o, w)
  /\ \A a \in DOMAIN bs : l[a] = lab[a] /\ o[a] = out[a]
  /\ l[Len(bs) + 1] = x /\ o[Len(bs) + 1] = x

\* An empty block more, with any promise.
LEMMA PreservesEmpty ==
  ASSUME NEW s \in Seq(Token), NEW n \in Nat,
         NEW bs, bs \in Seq(Seq(Instruction(n, Len(bs)))),
         NEW A, NEW lab, NEW out, NEW w \in BOOLEAN,
         Preserves(s, bs, A, lab, out, w), NEW x \in Nat
  PROVE  \E l, o : Promised(s, bs, A, lab, out, w, x, l, o)
<1>1. <<>> \in Seq(Instruction(n, Len(bs))) /\ Len(<<>>) <= 1 /\ x \in Int
  OBVIOUS
<1>2. Preserves(s, Append(bs, <<>>), A, Ext(lab, bs, x), Ext(out, bs, x), w)
  BY <1>1, PreservesNew
<1>3. /\ Len(bs) \in Nat /\ DOMAIN bs = 1 .. Len(bs)
      /\ lab \in [DOMAIN bs -> Nat] /\ out \in [DOMAIN bs -> Int]
  BY DEF Preserves
<1>4. /\ \A a \in DOMAIN bs : Ext(lab, bs, x)[a] = lab[a] /\ Ext(out, bs, x)[a] = out[a]
      /\ Ext(lab, bs, x)[Len(bs) + 1] = x /\ Ext(out, bs, x)[Len(bs) + 1] = x
  <2>1. /\ Len(bs) + 1 \in 1 .. Len(bs) + 1 /\ Len(bs) + 1 \notin DOMAIN bs
        /\ \A a \in DOMAIN bs : a \in 1 .. Len(bs) + 1
    BY <1>3
  <2> QED
    BY <2>1 DEF Ext
<1> QED
  BY <1>2, <1>4 DEF AppendBlock, Promised

\* impl_func_def before the body.
LEMMA InitMeans == Init => Means
<1> SUFFICES ASSUME Init PROVE Means
  OBVIOUS
<1> DEFINE open == [k \in Nat |-> 0]
           f == FuncFrame(1)
           g == BasicBlockFrame(2)
<1>1. /\ src = <<>> /\ Len(src) = 0 /\ DOMAIN src = {} /\ src \in Seq(Token)
      /\ blocks \in Seq(Seq(Instruction(0, 2))) /\ Len(blocks) = 2
      /\ DOMAIN blocks = {1, 2}
      /\ \A b \in {1, 2} : blocks[b] = <<>>
  BY DEF Init
<1>2. f.fn = "func" /\ f.entry = 1 /\ g.fn = "basic_block" /\ g.start = 2 /\ g.last = 2
  BY DEF FuncFrame, BasicBlockFrame
<1> HIDE DEF f, g
<1>3. Len(stack) = 2 /\ DOMAIN stack = 1 .. 2 /\ stack # <<>> /\ stack[1] = f /\ stack[2] = g
  BY DEF Init, f, g
<1>4. Nested(src, 0, open)
  <2>1. DepthIn(src, 0) = 0
    <3>1. /\ {q \in 1 .. 0 : src[q] \in Opening} = {}
          /\ {q \in 1 .. 0 : src[q] = "end"} = {}
      OBVIOUS
    <3> QED
      BY <3>1, FS_EmptySet DEF DepthIn
  <2>2. open \in [Nat -> Nat] /\ open[2] = 0
    OBVIOUS
  <2> QED
    BY <1>1, <2>1, <2>2 DEF Nested
<1>5. Placed(EvaluatedIn(src), blocks)
  <2>1. EvaluatedIn(src) = {}
    BY <1>1 DEF EvaluatedIn
  <2>2. \A b \in DOMAIN blocks : DOMAIN blocks[b] = {}
    BY <1>1
  <2> QED
    BY <2>1, <2>2 DEF Placed
<1>6. ASSUME NEW A \in [Nat -> Nat]
      PROVE  \E lab, out : /\ Preserves(src, blocks, A, lab, out, Running("branch"))
                           /\ Frames(src, blocks, A, lab, out, stack, open)
  <2> DEFINE lab == [b \in {1, 2} |-> A[1]]
  <2>1. lab \in [{1, 2} -> Nat] /\ lab \in [{1, 2} -> Int] /\ lab[1] = A[1] /\ lab[2] = A[1]
    OBVIOUS
  <2> HIDE DEF lab
  <2>2. Preserves(src, blocks, A, lab, lab, Running("branch"))
    <3>1. \A b \in DOMAIN blocks : Leads(blocks, lab, lab, b, 1, lab[b]) /\ Forward(blocks, b)
      BY <1>1, SMTT(30) DEF Leads, Forward
    <3>2. \A b \in DOMAIN blocks : DOMAIN blocks[b] = {}
      BY <1>1
    <3> QED
      BY <1>1, <2>1, <3>1, <3>2 DEF Preserves
  <2>3. Frames(src, blocks, A, lab, lab, stack, open)
    <3>1. Calling(src, blocks, A, lab, lab, f, g, open[2])
      BY <1>1, <1>2, <2>1 DEF Calling
    <3>2. BodyOf(A, lab, g, open[2])
      BY <1>2, <2>1 DEF BodyOf
    <3>3. Walking(src, blocks, A, lab, lab, g)
      BY <1>1, <1>2, <2>1 DEF Walking
    <3>4. Below(src, blocks, A, lab, lab, stack, open, 2)
      <4>1. 1 .. 2 = {1, 2} /\ 1 .. 2 - 1 = {1}
        OBVIOUS
      <4> HIDE DEF open
      <4> QED
        BY <1>2, <1>3, <3>1, <3>2, <4>1 DEF Below
    <3> QED
      BY <1>3, <3>3, <3>4 DEF Frames
  <2> QED
    BY <2>2, <2>3
<1>7. MeansWith(0, open)
  <2> HIDE DEF open
  <2>1. Len(stack) \in {2 * 0 + 2, 2 * 0 + 3}
    BY <1>3
  <2> QED
    BY <1>3, <1>4, <1>5, <1>6, <2>1 DEF MeansWith
<1> QED
  BY <1>7 DEF Means

\* A statement or a return, and the rest of the turn of impl_basic_block.
LEMMA AfterSimpleMeans ==
  ASSUME IInv, IInv', Running("basic_block"), NEW m, NEW open, MeansWith(m, open),
         NEW t \in {"stmt", "return"}, src' = Append(src, t),
         NEW ins, ins = IF t = "stmt" THEN Eval(Len(src) + 1) ELSE Ret(Len(src) + 1),
         AfterSimple(Emit(blocks, builder, ins), Frame)
  PROVE  MeansWith(m, open)'
<1> DEFINE L  == Len(src)
           N  == Len(blocks)
           I  == Instruction(L + 1, N)
           bs == Emit(blocks, builder, ins)
           n  == Len(stack) - 1
           f  == Frame
<1>1. /\ L \in Nat /\ N \in Nat /\ Len(stack) \in Nat
      /\ Len(stack) >= 2 /\ stack # <<>> /\ n \in Nat /\ n >= 1 /\ n < Len(stack)
      /\ n + 1 = Len(stack) /\ DOMAIN blocks = 1 .. N /\ src \in Seq(Token)
  BY StateFacts, BodyFacts
<1>2. PICK S : stack \in Seq(S)
  BY StateFacts
<1>3. /\ IsBody(f, N) /\ f.fn = "basic_block" /\ builder = f.last
      /\ builder \in DOMAIN blocks /\ ~HasTerminator(blocks[builder])
      /\ Above(stack, n) = {builder} /\ stack[n + 1] = f
  BY <1>1, BodyFacts, RunningFacts DEF Frame
<1>4. Len(stack) = 2 * m + 2 /\ m \in Nat /\ open \in [Nat -> Nat]
  BY <1>1, <1>3, PlaceOnStack
<1>5. /\ t \in Token /\ src' \in Seq(Token) /\ Len(src') = L + 1 /\ src'[L + 1] = t
      /\ L + 1 \in DOMAIN src' /\ Len(src') \in Nat /\ src' # <<>>
  <2>1. t \in Token
    BY DEF Token
  <2>2. Len(src') = L + 1
    BY <1>1, <2>1
  <2> QED
    BY <1>1, <2>1, <2>2, SourceFacts
<1>6. blocks \in Seq(Seq(I)) /\ ins \in I
  <2>1. blocks \in Seq(Seq(I))
    BY <1>1, StateFacts, BlocksGrow
  <2>2. ins \in I
    BY <1>1 DEF Eval, Ret, Instruction
  <2> QED
    BY <2>1, <2>2
<1>7. bs \in Seq(Seq(I)) /\ Emitted(blocks, bs, builder, ins)
      /\ (HasTerminator(bs[builder]) <=> IsTerminator(ins))
  <2> HIDE DEF I
  <2>1. bs \in Seq(Seq(I)) /\ Emitted(blocks, bs, builder, ins)
    BY <1>3, <1>6, EmitContent
  <2>2. HasTerminator(bs[builder]) <=> IsTerminator(ins)
    BY <1>3, <1>6, EmitFacts
  <2> QED
    BY <2>1, <2>2
<1>8. Nested(src', m, open)
  BY <1>1, NestedStatement DEF MeansWith
<1>9. Placed(EvaluatedIn(src'), bs)
  <2>1. Evaluating(EvaluatedIn(src), EvaluatedIn(src'), ins)
    BY <1>1, <1>5, EvaluatedNext DEF Evaluating, Eval, Ret
  <2> HIDE DEF I
  <2> QED
    BY <1>3, <1>6, <2>1, PlacedEmit DEF MeansWith
<1>10. ~Running("branch")
  BY <1>3 DEF Running, Frame
<1>11. Grown(src, src')
  BY <1>5 DEF Grown
<1>12. ASSUME NEW A \in [Nat -> Nat], Respects(src', A), ~PlainElse(src')
       PROVE  \E lab, out, o : /\ Frames(src, blocks, A, lab, out, stack, open)
                               /\ Preserves(src', bs, A, lab, o, FALSE)
                               /\ \A b \in DOMAIN blocks \ {builder} : o[b] = out[b]
                               /\ o[builder] = A[L + 2]
  <2>1. PICK lab, out : /\ Preserves(src, blocks, A, lab, out, Running("branch"))
                        /\ Frames(src, blocks, A, lab, out, stack, open)
    BY <1>1, <1>11, <1>12, MeansBefore
  <2>2. Preserves(src, blocks, A, lab, out, FALSE)
    BY <2>1, PreservesBetween DEF Running
  <2>3. Preserves(src', blocks, A, lab, out, FALSE)
    <3>1. blocks \in Seq(Seq(Instruction(Len(src), Len(blocks))))
      BY StateFacts
    <3>2. t \notin {"elseif", "else"}
      OBVIOUS
    <3> QED
      BY <1>1, <1>5, <2>2, <3>1, <3>2, PreservesSource
  <2>4. out[builder] = L + 1
    <3>1. out[builder] = A[L + 1]
      BY <1>1, <1>3, <2>1 DEF Frames, Walking, Frame
    <3>2. A[L + 1] = L + 1
      BY <1>5, <1>12 DEF Respects
    <3> QED
      BY <3>1, <3>2
  <2>5. /\ MeetsIn(lab, ins) = L + 1 /\ ins.op \in {"eval", "ret"}
        /\ ins.op = "eval" => ins.token = L + 1 /\ t = "stmt"
    BY DEF MeetsIn, Eval, Ret
  <2>6. A[L + 2] \in Int /\ A[L + 2] = A[(L + 1) + 1]
    BY <1>1
  <2>7. Clean(blocks)
    BY DEF IInv
  <2> DEFINE o == [out EXCEPT ![builder] = A[L + 2]]
  <2>8. Preserves(src', bs, A, lab, o, FALSE)
    <3>1. blocks \in Seq(Seq(Instruction(L + 1, Len(blocks)))) /\ L + 1 \in Nat
          /\ ins \in Instruction(L + 1, Len(blocks))
      BY <1>1, <1>6
    <3>2. ins.op = "eval" => src'[ins.token] = "stmt" /\ A[L + 2] = A[ins.token + 1]
      BY <1>5, <2>5, <2>6
    <3>3. ins.op # "condbr" /\ ins.op # "br" /\ MeetsIn(lab, ins) = out[builder]
      BY <2>4, <2>5
    <3> QED
      BY <1>3, <1>5, <2>3, <2>6, <2>7, <3>1, <3>2, <3>3, PreservesEmit
  <2>9. out \in [DOMAIN blocks -> Int]
    BY <2>1 DEF Preserves
  <2>10. o[builder] = A[L + 2] /\ \A b \in DOMAIN blocks \ {builder} : o[b] = out[b]
    BY <1>3, <2>9
  <2> HIDE DEF o
  <2> QED
    BY <2>1, <2>8, <2>10
<1> HIDE DEF bs, I
<1>13. n <= Len(stack)
  BY <1>1
<1>14. CASE t = "stmt"
  <2>1. blocks' = bs /\ builder' = builder /\ stack' = stack
    <3>1. ~IsTerminator(ins)
      BY <1>14 DEF IsTerminator, Eval
    <3> QED
      BY <1>3, <1>7, <3>1 DEF AfterSimple, bs
  <2>2. Puts(stack, stack', n, f)
    BY <1>1, <1>2, <2>1 DEF Puts, Kept, Frame
  <2>3. ~Running("branch")'
    BY <1>3, <2>1 DEF Running, Frame
  <2>4. ASSUME NEW A \in [Nat -> Nat], Respects(src', A), ~PlainElse(src')
        PROVE  \E lab, out : /\ Preserves(src', blocks', A, lab, out, FALSE)
                             /\ Frames(src', blocks', A, lab, out, stack', open)
    <3>1. PICK lab, out, o : /\ Frames(src, blocks, A, lab, out, stack, open)
                             /\ Preserves(src', bs, A, lab, o, FALSE)
                             /\ \A b \in DOMAIN blocks \ {builder} : o[b] = out[b]
                             /\ o[builder] = A[L + 2]
      BY <1>12, <2>4
    <3>2. Walking(src', blocks', A, lab, o, f)
      <4>1. o[f.last] = A[Len(src') + 1]
        <5>1. L + 2 = Len(src') + 1
          BY <1>1, <1>5
        <5> QED
          BY <1>3, <3>1, <5>1
      <4>2. src'[Len(src')] = "stmt"
        BY <1>5, <1>14
      <4> QED
        BY <1>3, <4>1, <4>2 DEF Walking
    <3>3. StepStays(n, lab, lab, out, o)
      <4>1. \A b \in DOMAIN blocks \ {builder} : blocks'[b] = blocks[b] /\ o[b] = out[b]
        BY <1>7, <2>1, <3>1 DEF Emitted
      <4> QED
        BY <1>1, <1>3, <1>11, <1>13, <4>1 DEF StepStays
    <3>4. f.start <= f.last
      <4>1. Below(src, blocks, A, lab, out, stack, open, Len(stack))
        BY <1>1, <3>1 DEF Frames
      <4>2. Len(stack) \in 1 .. Len(stack) /\ f = stack[Len(stack)]
        BY <1>1 DEF Frame
      <4> QED
        BY <1>3, <4>1, <4>2 DEF Below, BodyOf
    <3>5. Frames(src', blocks', A, lab, o, stack', open)
      BY <1>1, <1>3, <2>2, <3>1, <3>2, <3>3, <3>4, BodyFrames
    <3> QED
      BY <2>1, <3>1, <3>5
  <2>5. Len(stack') \in {2 * m + 2, 2 * m + 3} /\ stack' # <<>>
    BY <1>1, <1>4, <2>1
  <2>6. Running("branch")' = FALSE
    BY <2>3 DEF Running
  <2> QED
    BY <1>8, <1>9, <2>1, <2>4, <2>5, <2>6 DEF MeansWith
<1>15. CASE t = "return"
  <2> DEFINE g == [f EXCEPT !.last = N + 1]
  <2>0. Len(bs) = N /\ DOMAIN bs = DOMAIN blocks
    BY <1>7 DEF Emitted
  <2>1. blocks' = AppendBlock(bs) /\ stack' = Append(Pop(1), g)
    <3>1. IsTerminator(ins)
      BY <1>15 DEF IsTerminator, Ret
    <3> QED
      BY <1>3, <1>7, <2>0, <3>1 DEF AfterSimple, bs
  <2>2. Puts(stack, stack', n, g)
    <3> HIDE DEF g
    <3>1. stack' = Append(SubSeq(stack, 1, n), g)
      BY <2>1 DEF Pop
    <3>2. n \in 0 .. Len(stack)
      BY <1>1
    <3> QED
      BY <1>2, <3>1, <3>2, PutsFacts
  <2>3. g.fn = "basic_block" /\ g.start = f.start /\ g.last = N + 1 /\ g.start <= g.last
    BY <1>1, <1>3 DEF IsBody
  <2> HIDE DEF g
  <2>4. Added(bs, blocks', <<>>)
    <3>1. <<>> \in Seq(I)
      OBVIOUS
    <3> QED
      BY <1>7, <2>1, <3>1, AddedContent DEF AppendBlock
  <2>5. ASSUME NEW A \in [Nat -> Nat], Respects(src', A), ~PlainElse(src')
        PROVE  \E lab, out : /\ Preserves(src', blocks', A, lab, out, FALSE)
                             /\ Frames(src', blocks', A, lab, out, stack', open)
    <3>1. PICK lab, out, o : /\ Frames(src, blocks, A, lab, out, stack, open)
                             /\ Preserves(src', bs, A, lab, o, FALSE)
                             /\ \A b \in DOMAIN blocks \ {builder} : o[b] = out[b]
                             /\ o[builder] = A[L + 2]
      BY <1>12, <2>5
    <3>2. A[L + 2] \in Nat /\ bs \in Seq(Seq(Instruction(L + 1, Len(bs)))) /\ L + 1 \in Nat
      <4>0. L \in Nat
        BY <1>1
      <4>1. L + 1 \in Nat /\ L + 2 \in Nat
        BY <4>0, SMTT(30)
      <4>2. bs \in Seq(Seq(Instruction(L + 1, Len(bs))))
        BY <1>7, <2>0 DEF I
      <4> QED
        BY <4>1, <4>2
    <3>3. PICK l, p : Promised(src', bs, A, lab, o, FALSE, A[L + 2], l, p)
      BY <1>5, <3>1, <3>2, PreservesEmpty
    <3>4. Walking(src', blocks', A, l, p, g)
      <4>1. p[g.last] = A[Len(src') + 1]
        <5>1. L + 2 = Len(src') + 1
          BY <1>1, <1>5
        <5> QED
          BY <2>0, <2>3, <3>3, <5>1 DEF Promised
      <4>2. blocks'[g.last] = <<>>
        BY <2>0, <2>3, <2>4 DEF Added
      <4> QED
        BY <2>3, <4>1, <4>2 DEF Walking
    <3>5. StepStays(n, lab, l, out, p)
      <4>1. \A b \in DOMAIN blocks \ {builder} : blocks'[b] = blocks[b] /\ p[b] = out[b]
        BY <1>7, <2>0, <2>4, <3>1, <3>3 DEF Emitted, Added, Promised
      <4> QED
        BY <1>1, <1>3, <1>11, <1>13, <2>0, <3>3, <4>1 DEF StepStays, Promised
    <3>6. Frames(src', blocks', A, l, p, stack', open)
      BY <1>1, <1>3, <2>2, <2>3, <3>1, <3>4, <3>5, BodyFrames
    <3> QED
      BY <2>1, <3>3, <3>6 DEF Promised
  <2>6. Placed(EvaluatedIn(src'), blocks')
    <3>1. <<>> \in Seq(I) /\ Len(<<>>) <= 1
      OBVIOUS
    <3> QED
      BY <1>7, <1>9, <2>1, <3>1, PlacedNew DEF AppendBlock
  <2>7. Len(stack') \in {2 * m + 2, 2 * m + 3} /\ stack' # <<>>
    BY <1>1, <1>4, <2>2 DEF Puts
  <2>8. Running("branch")' = FALSE
    <3>1. stack'[Len(stack')] = g
      BY <2>2 DEF Puts
    <3> QED
      BY <2>3, <3>1 DEF Running
  <2> QED
    BY <1>8, <2>5, <2>6, <2>7, <2>8 DEF MeansWith
<1> QED
  BY <1>14, <1>15

LEMMA SimpleStatementMeans ==
  ASSUME IInv, IInv', NEW m, NEW open, MeansWith(m, open), SimpleStatement
  PROVE  MeansWith(m, open)'
BY AfterSimpleMeans DEF SimpleStatement

LEMMA ReturnStatementMeans ==
  ASSUME IInv, IInv', NEW m, NEW open, MeansWith(m, open), ReturnStatement
  PROVE  MeansWith(m, open)'
BY AfterSimpleMeans DEF ReturnStatement

-----------------------------------------------------------------------------
(* The actions that open a body.                                           *)

\* The body starts at block start, under the frame g that is at n + 1.
OpensBody(n, g, start, open, A, lab, out, l, o) ==
  /\ Frames(src, blocks, A, lab, out, stack, open)
  /\ Preserves(src', blocks', A, l, o, FALSE)
  /\ \A b \in DOMAIN blocks : l[b] = lab[b] /\ o[b] = out[b]
  /\ l[start] = A[Len(src) + 2] /\ o[start] = A[Len(src) + 2]
  /\ Calling(src', blocks', A, l, o, stack[n], g, open[n + 1])
  /\ Calling(src', blocks', A, l, o, g, BasicBlockFrame(start), Len(src) + 1)

\* A token opens a body: what is left to show is what its blocks and frames do.
LEMMA OpenBodyMeans ==
  ASSUME IInv, IInv', stack # <<>>, NEW m, NEW open, MeansWith(m, open),
         NEW t \in Opening, src' = Append(src, t),
         NEW n, n = 2 * m + 2, n <= Len(stack), stack[n].fn = "basic_block",
         NEW g, g.fn # "basic_block", NEW start \in Nat,
         PutsTwo(stack, stack', n, g, BasicBlockFrame(start)),
         \A b \in DOMAIN blocks : blocks'[b] = blocks[b],
         Placed(EvaluatedIn(src'), blocks'),
         \A A \in [Nat -> Nat] : Respects(src', A) /\ ~PlainElse(src') =>
           \E lab, out, l, o : OpensBody(n, g, start, open, A, lab, out, l, o)
  PROVE  \E opn : MeansWith(m + 1, opn)'
<1> DEFINE L == Len(src)
           h == BasicBlockFrame(start)
<1>1. PICK opn : opn = [open EXCEPT ![2 * m + 4] = L + 1]
  OBVIOUS
<1>2. src \in Seq(Token) /\ L \in Nat
  BY StateFacts
<1>3. m \in Nat /\ open \in [Nat -> Nat] /\ Nested(src, m, open)
  BY DEF MeansWith, Nested
<1>4. n \in Nat /\ n >= 1 /\ n + 2 = 2 * m + 4 /\ n + 1 \in Nat /\ n + 1 # 2 * m + 4
      /\ \A k \in 1 .. n : k \in Nat /\ k # 2 * m + 4
  <2>1. m \in Nat
    BY <1>3
  <2>2. n \in Nat /\ n >= 1 /\ n + 2 = 2 * m + 4
    BY <2>1
  <2>3. n + 1 \in Nat /\ n + 1 # n + 2 /\ \A k \in 1 .. n : k \in Nat /\ k # n + 2
    BY <2>2
  <2> QED
    BY <2>2, <2>3
<1>5. /\ Nested(src', m + 1, opn)
      /\ opn[2 * m + 4] = L + 1
      /\ \A k \in Nat : k # 2 * m + 4 => opn[k] = open[k]
  BY <1>1, <1>2, <1>3, NestedPush
<1>6. opn[n + 2] = L + 1 /\ opn[n + 1] = open[n + 1] /\ \A k \in 1 .. n : opn[k] = open[k]
  BY <1>4, <1>5
<1>7. h.fn = "basic_block" /\ h.start = start /\ h.last = start
  BY DEF BasicBlockFrame
<1>8. t \in Token /\ Len(src') = L + 1 /\ src'[L + 1] = t /\ t \notin {"return", "end"}
  <2>1. t \in Token /\ t \notin {"return", "end"}
    BY DEF Token, Opening
  <2> QED
    BY <1>2, <2>1, SourceFacts
<1>9. Grown(src, src')
  BY <1>8 DEF Grown
<1>10. Running("branch")' = FALSE /\ Len(stack') = 2 * m + 4 /\ stack' # <<>>
  <2>1. Len(stack') = n + 2 /\ stack'[n + 2] = h
    BY DEF PutsTwo
  <2>2. stack'[Len(stack')] = h
    BY <2>1
  <2> HIDE DEF h
  <2>3. Running("branch")' = FALSE
    BY <1>7, <2>2 DEF Running
  <2>4. Len(stack') = 2 * m + 4
    BY <1>4, <2>1
  <2>5. stack' # <<>>
    <3>1. 2 * m + 4 # 0
      BY <1>3
    <3> QED
      BY <2>4, <3>1
  <2> QED
    BY <2>3, <2>4, <2>5
<1>11. ASSUME NEW A \in [Nat -> Nat], Respects(src', A), ~PlainElse(src')
       PROVE  \E lab, out : /\ Preserves(src', blocks', A, lab, out, FALSE)
                            /\ Frames(src', blocks', A, lab, out, stack', opn)
  <2>1. PICK lab, out, l, o : OpensBody(n, g, start, open, A, lab, out, l, o)
    BY <1>11
  <2>2. /\ Frames(src, blocks, A, lab, out, stack, open)
        /\ Preserves(src', blocks', A, l, o, FALSE)
        /\ \A b \in DOMAIN blocks : l[b] = lab[b] /\ o[b] = out[b]
        /\ l[start] = A[L + 2] /\ o[start] = A[L + 2]
        /\ Calling(src', blocks', A, l, o, stack[n], g, open[n + 1])
        /\ Calling(src', blocks', A, l, o, g, h, L + 1)
    BY <2>1 DEF OpensBody
  <2> HIDE DEF h
  <2>3. StepStays(n, lab, l, out, o)
    BY <1>4, <1>9, <2>2 DEF StepStays
  <2>4. Below(src', blocks', A, l, o, stack', opn, n)
    <3>1. Kept(stack, stack', n)
      BY DEF PutsTwo
    <3> QED
      BY <1>6, <2>2, <2>3, <3>1, StepBelow
  <2>5. A[L + 2] = A[(L + 1) + 1]
    BY <1>2
  <2>6. BodyOf(A, l, h, opn[n + 2])
    BY <1>6, <1>7, <2>2, <2>5 DEF BodyOf
  <2>7. Walking(src', blocks', A, l, o, h)
    <3>1. o[h.last] = A[Len(src') + 1]
      BY <1>7, <1>8, <2>2, <2>5
    <3>2. src'[Len(src')] \notin {"return", "end"}
      BY <1>8
    <3> QED
      BY <1>7, <3>1, <3>2 DEF Walking
  <2>8. Frames(src', blocks', A, l, o, stack', opn)
    <3>1. PutsTwo(stack, stack', n, g, h)
      BY DEF h
    <3>2. /\ Calling(src', blocks', A, l, o, stack[n], g, opn[n + 1])
          /\ Calling(src', blocks', A, l, o, g, h, opn[n + 2])
      BY <1>6, <2>2
    <3> QED
      BY <1>4, <1>7, <2>4, <2>6, <2>7, <3>1, <3>2, FramesPutTwo
  <2> QED
    BY <2>2, <2>8
<1>12. Len(stack') \in {2 * (m + 1) + 2, 2 * (m + 1) + 3}
  <2>1. 2 * (m + 1) + 2 = 2 * m + 4
    BY <1>3
  <2> QED
    BY <1>10, <2>1
<1>13. PICK k : k = m + 1
  OBVIOUS
<1>14. Nested(src', k, opn) /\ Len(stack') \in {2 * k + 2, 2 * k + 3}
  BY <1>5, <1>12, <1>13
<1>15. MeansWith(k, opn)'
  BY <1>10, <1>11, <1>14 DEF MeansWith
<1> QED
  BY <1>13, <1>15

\* With a new condition, token i, and an empty block for the body after it.
Opened(u, bs, A, lab, out, i, l, o) ==
  /\ Preserves(u, CondAndBody(bs, i), A, l, o, FALSE)
  /\ \A a \in DOMAIN bs : l[a] = lab[a] /\ o[a] = out[a]
  /\ l[Len(bs) + 2] = A[i + 1] /\ o[Len(bs) + 2] = A[i + 1]

CondOf(bs, cs, i) ==
  /\ Len(cs) = Len(bs) + 2 /\ DOMAIN bs \subseteq DOMAIN cs
  /\ \A a \in DOMAIN bs : cs[a] = bs[a]
  /\ cs[Len(bs) + 1] = <<Eval(i)>>

\* The two blocks of a condition and its body.
LEMMA CondAndBodyContent ==
  ASSUME NEW S, NEW bs \in Seq(Seq(S)), NEW i, Eval(i) \in S
  PROVE  /\ CondOf(bs, CondAndBody(bs, i), i)
         /\ Append(bs, <<Eval(i)>>) \in Seq(Seq(S))
         /\ Len(Append(bs, <<Eval(i)>>)) = Len(bs) + 1
         /\ \A a \in DOMAIN bs : a \in DOMAIN Append(bs, <<Eval(i)>>)
<1> DEFINE c  == <<Eval(i)>>
           b1 == Append(bs, c)
           cs == Append(b1, <<>>)
<1>1. c \in Seq(S) /\ <<>> \in Seq(S)
  OBVIOUS
<1>2. Len(bs) \in Nat
  OBVIOUS
<1> HIDE DEF c
<1>3. b1 \in Seq(Seq(S)) /\ Added(bs, b1, c)
  BY <1>1, AddedContent
<1> HIDE DEF b1
<1>4. Added(b1, cs, <<>>)
  BY <1>1, <1>3, AddedContent
<1> HIDE DEF cs
<1>5. /\ Len(b1) = Len(bs) + 1 /\ DOMAIN b1 = DOMAIN bs \cup {Len(bs) + 1}
      /\ \A a \in DOMAIN bs : b1[a] = bs[a]
      /\ b1[Len(bs) + 1] = c
  BY <1>3 DEF Added
<1>6. /\ Len(cs) = Len(b1) + 1 /\ DOMAIN cs = DOMAIN b1 \cup {Len(b1) + 1}
      /\ \A a \in DOMAIN b1 : cs[a] = b1[a]
  BY <1>4 DEF Added
<1>7. Len(cs) = Len(bs) + 2
  BY <1>2, <1>5, <1>6
<1>8. CondOf(bs, cs, i)
  BY <1>5, <1>6, <1>7 DEF CondOf, c
<1> QED
  BY <1>3, <1>5, <1>8 DEF cs, b1, c, CondAndBody

\* They do what the source says, whatever it will be.
LEMMA PreservesOpen ==
  ASSUME NEW s \in Seq(Token), NEW t \in {"while", "if", "elseif"},
         NEW bs, bs \in Seq(Seq(Instruction(Len(s), Len(bs)))),
         NEW A \in [Nat -> Nat], NEW lab, NEW out, NEW w \in BOOLEAN,
         Preserves(s, bs, A, lab, out, w), t = "elseif" => w
  PROVE  \E l, o : Opened(Append(s, t), bs, A, lab, out, Len(s) + 1, l, o)
<1> DEFINE u  == Append(s, t)
           i  == Len(s) + 1
           N  == Len(bs)
           b1 == Append(bs, <<Eval(i)>>)
           J  == Instruction(i, N)
           K  == Instruction(i, N + 1)
<1>1. t \in Token /\ t # "stmt" /\ t # "else"
  BY DEF Token, Opening
<1>2. Len(s) \in Nat /\ u \in Seq(Token) /\ Len(u) = i /\ u[i] = t
  BY <1>1, SourceFacts
<1>3. i \in Nat /\ N \in Nat /\ N + 1 \in Nat /\ Len(s) <= i /\ N <= N + 1 /\ N <= N /\ i <= i
      /\ i + 1 \in Nat /\ i \in 1 .. i /\ DOMAIN bs = 1 .. N /\ (N + 1) + 1 = N + 2
  <2>1. Len(s) \in Nat /\ N \in Nat /\ DOMAIN bs = 1 .. N
    BY SMTT(30)
  <2>2. \A x \in Nat : x + 1 \in Nat /\ x <= x + 1 /\ x <= x /\ (x + 1) + 1 = x + 2
                       /\ (x + 1) + 1 \in Nat /\ x + 1 \in 1 .. x + 1 /\ x + 1 <= x + 1
    OBVIOUS
  <2> HIDE DEF N
  <2> QED
    BY <2>1, <2>2
<1>4. Preserves(u, bs, A, lab, out, FALSE)
  BY <1>1, PreservesSource
<1>5. bs \in Seq(Seq(J))
  BY <1>2, <1>3, BlocksGrow
<1>6. Eval(i) \in J
  BY <1>3 DEF Eval, Instruction
<1>7. Eval(i).op = "eval" /\ Eval(i).token = i
  BY DEF Eval
<1>8. CondOf(bs, CondAndBody(bs, i), i) /\ b1 \in Seq(Seq(J)) /\ Len(b1) = N + 1
      /\ \A a \in DOMAIN bs : a \in DOMAIN b1
  <2> HIDE DEF J, i
  <2> QED
    BY <1>5, <1>6, CondAndBodyContent
<1> DEFINE l1 == Ext(lab, bs, i)
           o1 == Ext(out, bs, -1)
           c  == <<Eval(i)>>
<1>9. Preserves(u, b1, A, l1, o1, FALSE)
  <2>1. c \in Seq(J) /\ Len(c) <= 1 /\ c # <<>> /\ c[1] = Eval(i)
    <3> HIDE DEF J, i
    <3> QED
      BY <1>6
  <2>2. c[1].op = "eval" /\ c[1].token = i /\ u[c[1].token] # "stmt"
    BY <1>1, <1>2, <1>7, <2>1
  <2>3. bs \in Seq(Seq(Instruction(i, Len(bs)))) /\ c \in Seq(Instruction(i, Len(bs)))
    BY <1>5, <2>1
  <2>4. -1 \in Int
    OBVIOUS
  <2> HIDE DEF J, i, c, u
  <2>5. Preserves(u, Append(bs, c), A, Ext(lab, bs, i), Ext(out, bs, -1), FALSE)
    BY <1>2, <1>3, <1>4, <2>1, <2>2, <2>3, <2>4, PreservesNew
  <2> QED
    BY <2>5 DEF c
<1>10. \A a \in DOMAIN bs : l1[a] = lab[a] /\ o1[a] = out[a]
  <2>1. \A a \in DOMAIN bs : a \in 1 .. N + 1
    BY <1>3
  <2> QED
    BY <2>1 DEF Ext
<1>11. A[i + 1] \in Nat
  BY <1>3
<1>12. b1 \in Seq(Seq(Instruction(i, Len(b1))))
  <2>1. J \subseteq K
    BY <1>3, InstructionGrows, ZenonT(30)
  <2>2. Len(b1) = N + 1
    BY <1>8
  <2> HIDE DEF J, b1
  <2>3. b1 \in Seq(Seq(K))
    <3> HIDE DEF K
    <3>1. Seq(J) \subseteq Seq(K)
      BY <2>1, SeqGrows
    <3>2. Seq(Seq(J)) \subseteq Seq(Seq(K))
      BY <3>1, SeqGrows
    <3> QED
      BY <1>8, <3>2
  <2> QED
    BY <2>2, <2>3
<1> HIDE DEF l1, o1, b1, J, K, u, i
<1>13. PICK l, o : Promised(u, b1, A, l1, o1, FALSE, A[i + 1], l, o)
  BY <1>2, <1>3, <1>9, <1>11, <1>12, PreservesEmpty
<1>14. AppendBlock(b1) = CondAndBody(bs, i)
  BY DEF AppendBlock, b1, CondAndBody
<1>15. Opened(u, bs, A, lab, out, i, l, o)
  BY <1>3, <1>8, <1>10, <1>13, <1>14 DEF Promised, Opened
<1> QED
  BY <1>15 DEF u, i

\* The condition has its place.
LEMMA PlacedOpen ==
  ASSUME NEW s \in Seq(Token), NEW t \in {"while", "if", "elseif"},
         NEW bs, bs \in Seq(Seq(Instruction(Len(s), Len(bs)))),
         Placed(EvaluatedIn(s), bs)
  PROVE  Placed(EvaluatedIn(Append(s, t)), CondAndBody(bs, Len(s) + 1))
<1> DEFINE E == EvaluatedIn(s)
           F == EvaluatedIn(Append(s, t))
           i == Len(s) + 1
           J == Instruction(i, Len(bs))
           b1 == Append(bs, <<Eval(i)>>)
           c == <<Eval(i)>>
<1>1. t \in Token
  BY DEF Token, Opening
<1>2. i \notin E /\ F = E \cup {i}
  BY <1>1, EvaluatedNext
<1>3. Len(s) \in Nat /\ i \in Nat /\ i \in 1 .. i /\ Len(bs) \in Nat /\ Len(s) <= i /\ Len(bs) <= Len(bs)
  <2>1. Len(s) \in Nat /\ Len(bs) \in Nat
    OBVIOUS
  <2> QED
    BY <2>1
<1>4. bs \in Seq(Seq(J))
  BY <1>3, BlocksGrow
<1>5. Eval(i) \in J
  BY <1>3 DEF Eval, Instruction
<1> HIDE DEF J, i, E, F
<1>6. c \in Seq(J) /\ Len(c) <= 1 /\ c # <<>> /\ c[1] = Eval(i) /\ <<>> \in Seq(J) /\ Len(<<>>) <= 1
  BY <1>5
<1>7. Evaluating(E, F, c[1])
  BY <1>2, <1>6 DEF Evaluating
<1>8. Append(bs, c) \in Seq(Seq(J)) /\ Placed(E, bs)
  BY <1>4, <1>6 DEF E
<1> HIDE DEF c
<1>9. Placed(F, Append(bs, c))
  BY <1>4, <1>6, <1>7, <1>8, PlacedNew
<1>10. Placed(F, Append(Append(bs, c), <<>>))
  BY <1>6, <1>8, <1>9, PlacedNew
<1> QED
  BY <1>10 DEF CondAndBody, F, i, c

\* The calls that the frame g of a new condition takes part in.
CondCalls(n, g, open) ==
  \A A \in [Nat -> Nat] : \A lab, out, l, o :
    /\ Respects(src', A)
    /\ Frames(src, blocks, A, lab, out, stack, open)
    /\ Opened(src', blocks, A, lab, out, Len(src) + 1, l, o)
    => /\ Calling(src', blocks', A, l, o, stack[n], g, open[n + 1])
       /\ Calling(src', blocks', A, l, o, g, BasicBlockFrame(Len(blocks) + 2), Len(src) + 1)

\* impl_cond_block and impl_while open a body with a condition.
LEMMA OpenCondMeans ==
  ASSUME IInv, IInv', stack # <<>>, NEW m, NEW open, MeansWith(m, open),
         NEW t \in {"while", "if", "elseif"}, src' = Append(src, t),
         t = "elseif" => Running("branch"),
         blocks' = CondAndBody(blocks, Len(src) + 1),
         NEW n, n = 2 * m + 2, n <= Len(stack), stack[n].fn = "basic_block",
         NEW g, g.fn # "basic_block",
         PutsTwo(stack, stack', n, g, BasicBlockFrame(Len(blocks) + 2)),
         CondCalls(n, g, open)
  PROVE  \E opn : MeansWith(m + 1, opn)'
<1> DEFINE L == Len(src)
           N == Len(blocks)
<1>1. /\ src \in Seq(Token) /\ blocks \in Seq(Seq(Instruction(L, N)))
      /\ L \in Nat /\ N \in Nat /\ DOMAIN blocks = 1 .. N
  BY StateFacts
<1>2. t \in Opening /\ t \in Token
  BY DEF Opening, Token
<1>3. \A b \in DOMAIN blocks : blocks'[b] = blocks[b]
  <2> DEFINE J == Instruction(L + 1, N)
             i == L + 1
  <2>1. L + 1 \in Nat /\ L <= L + 1 /\ N <= N
    BY <1>1
  <2>2. blocks \in Seq(Seq(J))
    BY <1>1, <2>1, BlocksGrow
  <2>3. Eval(i) \in J
    <3>1. i \in 1 .. i
      BY <1>1
    <3> QED
      BY <3>1 DEF Instruction, Eval
  <2> HIDE DEF J
  <2>4. blocks' = CondAndBody(blocks, i)
    OBVIOUS
  <2> HIDE DEF i
  <2> QED
    BY <2>2, <2>3, <2>4, CondAndBodyContent DEF CondOf
<1>4. Placed(EvaluatedIn(src'), blocks')
  <2>1. Placed(EvaluatedIn(src), blocks)
    BY DEF MeansWith
  <2> QED
    BY <1>1, <2>1, PlacedOpen
<1>5. Grown(src, src')
  BY <1>2 DEF Grown
<1>6. ASSUME NEW A \in [Nat -> Nat], Respects(src', A), ~PlainElse(src')
      PROVE  \E lab, out, l, o : OpensBody(n, g, N + 2, open, A, lab, out, l, o)
  <2>1. PICK lab, out : /\ Preserves(src, blocks, A, lab, out, Running("branch"))
                        /\ Frames(src, blocks, A, lab, out, stack, open)
    BY <1>5, <1>6, MeansBefore
  <2>2. PICK w \in BOOLEAN : /\ Preserves(src, blocks, A, lab, out, w)
                             /\ t = "elseif" => w
    <3>1. CASE Running("branch")
      BY <2>1, <3>1 DEF Running
    <3>2. CASE ~Running("branch")
      BY <2>1, <3>2, PreservesBetween DEF Running
    <3> QED
      BY <3>1, <3>2
  <2>3. PICK l, o : Opened(src', blocks, A, lab, out, L + 1, l, o)
    BY <1>1, <2>2, PreservesOpen
  <2>4. /\ Calling(src', blocks', A, l, o, stack[n], g, open[n + 1])
        /\ Calling(src', blocks', A, l, o, g, BasicBlockFrame(N + 2), L + 1)
    BY <1>6, <2>1, <2>3 DEF CondCalls
  <2>5. A[(L + 1) + 1] = A[L + 2]
    BY <1>1
  <2>6. OpensBody(n, g, N + 2, open, A, lab, out, l, o)
    BY <2>1, <2>3, <2>4, <2>5 DEF OpensBody, Opened
  <2> QED
    BY <2>6
<1>7. N + 2 \in Nat
  BY <1>1
<1> QED
  BY <1>2, <1>3, <1>4, <1>6, <1>7, OpenBodyMeans

\* What a new condition looks like, at the moment it is made.
LEMMA NewCondition ==
  ASSUME IInv, NEW t \in {"while", "if", "elseif"}, src' = Append(src, t),
         blocks' = CondAndBody(blocks, Len(src) + 1)
  PROVE  /\ blocks'[Len(blocks) + 1] = <<Eval(Len(src) + 1)>>
         /\ \A b \in DOMAIN blocks : blocks'[b] = blocks[b]
         /\ Len(src) + 1 \in DOMAIN src' /\ src'[Len(src) + 1] = t
<1> DEFINE L == Len(src)
           N == Len(blocks)
           J == Instruction(L + 1, N)
           i == L + 1
<1>1. /\ src \in Seq(Token) /\ blocks \in Seq(Seq(Instruction(L, N)))
      /\ L \in Nat /\ N \in Nat /\ L + 1 \in Nat /\ L <= L + 1 /\ N <= N /\ i \in 1 .. i
  <2>1. L \in Nat /\ N \in Nat
    BY StateFacts
  <2> QED
    BY <2>1, StateFacts
<1>2. blocks \in Seq(Seq(J))
  BY <1>1, BlocksGrow
<1>3. Eval(i) \in J
  BY <1>1 DEF Instruction, Eval
<1>4. blocks' = CondAndBody(blocks, i)
  OBVIOUS
<1> HIDE DEF J, i
<1>5. CondOf(blocks, blocks', i)
  BY <1>2, <1>3, <1>4, CondAndBodyContent
<1>6. t \in Token
  BY DEF Opening, Token
<1> QED
  BY <1>1, <1>5, <1>6, SourceFacts DEF CondOf, i

\* While a body is walked its frame is the one opened last.
LEMMA BodyOnTop ==
  ASSUME IInv, Running("basic_block"), NEW m, NEW open, MeansWith(m, open)
  PROVE  /\ stack # <<>> /\ Len(stack) \in Nat /\ Len(stack) = 2 * m + 2 /\ m \in Nat
         /\ Frame = stack[Len(stack)] /\ Frame.fn = "basic_block"
         /\ Frame.last \in DOMAIN blocks
<1>1. stack # <<>> /\ Frame.fn = "basic_block" /\ Frame.last \in DOMAIN blocks
  BY BodyFacts
<1> QED
  BY <1>1, PlaceOnStack, StateFacts DEF Frame

\* The body that calls g begins what comes next with the condition of g.
LEMMA NextCalled ==
  ASSUME IInv, Running("basic_block"), NEW m, NEW open, MeansWith(m, open),
         NEW t \in {"while", "if"}, src' = Append(src, t),
         blocks' = CondAndBody(blocks, Len(src) + 1),
         NEW A \in [Nat -> Nat], NEW lab, NEW out, NEW l, NEW o, Respects(src', A),
         Frames(src, blocks, A, lab, out, stack, open),
         Opened(src', blocks, A, lab, out, Len(src) + 1, l, o),
         NEW g, \/ g.fn = "while" /\ g.cond = Len(blocks) + 1
                \/ g.fn = "branch" /\ g.conds[1] = Len(blocks) + 1 /\ g.orElse = 0,
         NEW p
  PROVE  Calling(src', blocks', A, l, o, Frame, g, p)
<1> DEFINE c == Len(blocks) + 1
<1>1. blocks'[c] = <<Eval(Len(src) + 1)>> /\ Len(src) + 1 \in DOMAIN src'
      /\ src'[Len(src) + 1] = t
  BY NewCondition
<1>2. stack # <<>> /\ Frame = stack[Len(stack)] /\ Frame.fn = "basic_block"
      /\ Frame.last \in DOMAIN blocks
  BY BodyOnTop
<1>3. o[Frame.last] = Len(src) + 1
  <2>1. out[Frame.last] = A[Len(src) + 1]
    BY <1>2 DEF Frames, Walking
  <2>2. A[Len(src) + 1] = Len(src) + 1
    BY <1>1 DEF Respects
  <2> QED
    BY <1>2, <2>1, <2>2 DEF Opened
<1>4. blocks'[c] # <<>> /\ blocks'[c][1] = Eval(o[Frame.last])
  <2>1. PICK e : e = Eval(Len(src) + 1)
    OBVIOUS
  <2>2. blocks'[c] = <<e>> /\ e = Eval(o[Frame.last])
    BY <1>1, <1>3, <2>1
  <2> HIDE DEF c
  <2> QED
    BY <2>2, SMTT(30)
<1> HIDE DEF c
<1>5. \/ g.fn = "while" /\ g.cond = c
      \/ g.fn = "branch" /\ g.conds[1] = c /\ g.orElse = 0
  BY DEF c
<1> QED
  BY <1>2, <1>4, <1>5 DEF Calling

LEMMA BeginWhileMeans ==
  ASSUME IInv, IInv', NEW m, NEW open, MeansWith(m, open), BeginWhile
  PROVE  Means'
<1> DEFINE N == Len(blocks)
           n == Len(stack)
<1>1. PICK g : g = WhileFrame(N + 1)
  OBVIOUS
<1>2. /\ Running("basic_block") /\ src' = Append(src, "while")
      /\ blocks' = CondAndBody(blocks, Len(src) + 1)
      /\ stack' = stack \o <<g, BasicBlockFrame((N + 1) + 1)>>
  BY <1>1 DEF BeginWhile
<1>3. g.fn = "while" /\ g.cond = N + 1
  BY <1>1 DEF WhileFrame
<1>4. /\ stack # <<>> /\ n \in Nat /\ n = 2 * m + 2
      /\ Frame = stack[n] /\ Frame.fn = "basic_block"
  BY <1>2, BodyOnTop
<1>5. (N + 1) + 1 = N + 2
  BY StateFacts
<1>6. PutsTwo(stack, stack', n, g, BasicBlockFrame(N + 2))
  <2>1. PICK S : stack \in Seq(S)
    BY StateFacts
  <2>2. stack' = stack \o <<g, BasicBlockFrame(N + 2)>>
    BY <1>2, <1>5
  <2> QED
    BY <2>1, <2>2, PushFacts
<1>7. CondCalls(n, g, open)
  <2> SUFFICES ASSUME NEW A \in [Nat -> Nat], NEW lab, NEW out, NEW l, NEW o,
                      Respects(src', A), Frames(src, blocks, A, lab, out, stack, open),
                      Opened(src', blocks, A, lab, out, Len(src) + 1, l, o)
               PROVE  /\ Calling(src', blocks', A, l, o, stack[n], g, open[n + 1])
                      /\ Calling(src', blocks', A, l, o, g, BasicBlockFrame(N + 2), Len(src) + 1)
    BY DEF CondCalls
  <2>1. Calling(src', blocks', A, l, o, Frame, g, open[n + 1])
    <3>1. Running("basic_block") /\ src' = Append(src, "while")
          /\ blocks' = CondAndBody(blocks, Len(src) + 1)
      BY <1>2
    <3>2. \/ g.fn = "while" /\ g.cond = Len(blocks) + 1
          \/ g.fn = "branch" /\ g.conds[1] = Len(blocks) + 1 /\ g.orElse = 0
      BY <1>3
    <3>3. "while" \in {"while", "if"}
      OBVIOUS
    <3> QED
      BY <3>1, <3>2, <3>3, NextCalled, Zenon
  <2>2. Calling(src', blocks', A, l, o, g, BasicBlockFrame(N + 2), Len(src) + 1)
    BY <1>2, <1>3, NewCondition DEF Calling
  <2> QED
    BY <1>4, <2>1, <2>2
<1>8. n <= Len(stack)
  BY <1>4
<1> HIDE DEF n, N
<1>9. \E opn : MeansWith(m + 1, opn)'
  BY <1>2, <1>3, <1>4, <1>6, <1>7, <1>8, OpenCondMeans DEF N
<1>10. PICK k, opn : MeansWith(k, opn)'
  BY <1>9
<1> QED
  BY <1>10 DEF Means

LEMMA BeginBranchMeans ==
  ASSUME IInv, IInv', NEW m, NEW open, MeansWith(m, open), BeginBranch
  PROVE  Means'
<1> DEFINE N == Len(blocks)
           n == Len(stack)
<1>1. PICK g : g = BranchFrame(N + 1)
  OBVIOUS
<1>2. /\ Running("basic_block") /\ src' = Append(src, "if")
      /\ blocks' = CondAndBody(blocks, Len(src) + 1)
      /\ stack' = stack \o <<g, BasicBlockFrame((N + 1) + 1)>>
  BY <1>1 DEF BeginBranch
<1>3. /\ g.fn = "branch" /\ g.conds[1] = N + 1 /\ g.orElse = 0
      /\ Len(g.conds) = 1 /\ g.ends = <<>> /\ DOMAIN g.ends = {} /\ Len(g.ends) = 0
  <2>1. PICK c : c = N + 1
    OBVIOUS
  <2> HIDE DEF N
  <2> QED
    BY <1>1, <2>1 DEF BranchFrame
<1>4. /\ stack # <<>> /\ n \in Nat /\ n = 2 * m + 2
      /\ Frame = stack[n] /\ Frame.fn = "basic_block"
  BY <1>2, BodyOnTop
<1>5. (N + 1) + 1 = N + 2
  BY StateFacts
<1>6. PutsTwo(stack, stack', n, g, BasicBlockFrame(N + 2))
  <2>1. PICK S : stack \in Seq(S)
    BY StateFacts
  <2>2. stack' = stack \o <<g, BasicBlockFrame(N + 2)>>
    BY <1>2, <1>5
  <2> QED
    BY <2>1, <2>2, PushFacts
<1>7. CondCalls(n, g, open)
  <2> SUFFICES ASSUME NEW A \in [Nat -> Nat], NEW lab, NEW out, NEW l, NEW o,
                      Respects(src', A), Frames(src, blocks, A, lab, out, stack, open),
                      Opened(src', blocks, A, lab, out, Len(src) + 1, l, o)
               PROVE  /\ Calling(src', blocks', A, l, o, stack[n], g, open[n + 1])
                      /\ Calling(src', blocks', A, l, o, g, BasicBlockFrame(N + 2), Len(src) + 1)
    BY DEF CondCalls
  <2>1. Calling(src', blocks', A, l, o, Frame, g, open[n + 1])
    <3>1. Running("basic_block") /\ src' = Append(src, "if")
          /\ blocks' = CondAndBody(blocks, Len(src) + 1)
      BY <1>2
    <3>2. \/ g.fn = "while" /\ g.cond = Len(blocks) + 1
          \/ g.fn = "branch" /\ g.conds[1] = Len(blocks) + 1 /\ g.orElse = 0
      BY <1>3
    <3>3. "if" \in {"while", "if"}
      OBVIOUS
    <3> QED
      BY <3>1, <3>2, <3>3, NextCalled, Zenon
  <2>2. Arms(src', blocks', A, l, o, g, Len(src) + 1)
    BY <1>3 DEF Arms
  <2>3. blocks'[N + 1] = <<Eval(Len(src) + 1)>>
        /\ Len(src) + 1 \in DOMAIN src' /\ src'[Len(src) + 1] = "if"
    BY <1>2, NewCondition
  <2> DEFINE i == Len(src) + 1
  <2> HIDE DEF i
  <2>4. Calling(src', blocks', A, l, o, g, BasicBlockFrame(N + 2), i)
    BY <1>3, <2>2, <2>3 DEF Calling, i
  <2> QED
    BY <1>4, <2>1, <2>4 DEF i
<1>8. n <= Len(stack)
  BY <1>4
<1> HIDE DEF n, N
<1>9. \E opn : MeansWith(m + 1, opn)'
  BY <1>2, <1>3, <1>4, <1>6, <1>7, <1>8, OpenCondMeans DEF N
<1>10. PICK k, opn : MeansWith(k, opn)'
  BY <1>9
<1> QED
  BY <1>10 DEF Means

-----------------------------------------------------------------------------
(* Further arms.                                                           *)

\* g is the branch f with a condition more, token i, in block d.
NewArm(s, u, bs, cs, lab, l, out, o, f, g, i, d) ==
  /\ u = Append(s, "elseif") /\ i = Len(s) + 1
  /\ DOMAIN bs = 1 .. Len(bs)
  /\ Stand(bs, cs, lab, l, out, o, DOMAIN bs)
  /\ IsBranch(f, Len(bs)) /\ ArmsAreClosed(f)
  /\ cs[d] = <<Eval(i)>>
  /\ g.ends = f.ends /\ g.starts = f.starts
  /\ Len(g.conds) = Len(f.conds) + 1 /\ g.conds[Len(f.conds) + 1] = d
  /\ \A j \in DOMAIN f.conds : g.conds[j] = f.conds[j]

\* The last arm is followed by the one whose condition is appended.
LEMMA ArmsContinue ==
  ASSUME NEW s \in Seq(Token), NEW u, NEW bs, NEW cs, NEW A, NEW lab, NEW l,
         NEW out, NEW o, NEW f, NEW g, NEW i, NEW d,
         NewArm(s, u, bs, cs, lab, l, out, o, f, g, i, d),
         Arms(s, bs, A, lab, out, f, i)
  PROVE  Arms(u, cs, A, l, o, g, i)
<1> DEFINE C == Len(f.conds)
<1> USE DEF Stand, NewArm
<1>1. /\ DOMAIN f.conds = 1 .. C /\ C \in Nat /\ C >= 1
      /\ DOMAIN f.ends = 1 .. C /\ DOMAIN f.starts = DOMAIN f.ends
      /\ \A j \in DOMAIN f.conds : f.conds[j] \in DOMAIN bs
      /\ \A j \in DOMAIN f.ends : f.starts[j] \in DOMAIN bs /\ f.ends[j] \in DOMAIN bs
      /\ Len(f.ends) = C
  BY BranchParts DEF ArmsAreClosed
<1>2. "elseif" \in Token
  BY DEF Token, Opening
<1>3. Grown(s, u)
  BY <1>2 DEF Grown
<1>4. i \in DOMAIN u /\ u[i] = "elseif" /\ \A p \in DOMAIN s : u[p] = s[p]
  BY <1>2, SourceFacts
<1>5. DOMAIN s \subseteq DOMAIN u
  BY <1>3, GrownFacts
<1>6. ASSUME NEW j \in DOMAIN f.ends
      PROVE  /\ o[f.ends[j]] = A[i]
             /\ \E t, c \in DOMAIN u : ArmAt(u, cs, A, l, g, j, t, c) /\ FollowedBy(u, cs, g, j, c, i)
  <2>1. /\ out[f.ends[j]] = A[i]
        /\ \E t, c \in DOMAIN s : ArmAt(s, bs, A, lab, f, j, t, c) /\ FollowedBy(s, bs, f, j, c, i)
    BY DEF Arms
  <2>2. PICK t, c \in DOMAIN s : ArmAt(s, bs, A, lab, f, j, t, c) /\ FollowedBy(s, bs, f, j, c, i)
    BY <2>1
  <2>3. j \in DOMAIN f.conds /\ g.conds[j] = f.conds[j] /\ g.starts[j] = f.starts[j]
        /\ f.conds[j] \in DOMAIN bs /\ f.starts[j] \in DOMAIN bs /\ f.ends[j] \in DOMAIN bs
    BY <1>1
  <2>4. ArmAt(u, cs, A, l, g, j, t, c)
    <3>1. ArmAt(u, cs, A, l, f, j, t, c)
      BY <1>3, <2>2, <2>3, ArmStays
    <3> QED
      BY <2>3, <3>1 DEF ArmAt
  <2>5. FollowedBy(u, cs, g, j, c, i)
    <3>1. j # Len(g.conds) /\ j \in Nat /\ j + 1 \in 1 .. C + 1 /\ (j # C => j + 1 \in 1 .. C)
          /\ (j = C => j + 1 = C + 1)
      BY <1>1
    <3>2. CASE j = C
      <4>1. c + 1 = i
        BY <2>2, <3>2 DEF FollowedBy
      <4>2. g.conds[j + 1] = d
        BY <3>1, <3>2
      <4> QED
        BY <1>4, <3>1, <4>1, <4>2 DEF FollowedBy
    <3>3. CASE j # C
      <4>1. bs[f.conds[j + 1]] = <<Eval(c + 1)>> /\ c + 1 \in DOMAIN s /\ s[c + 1] = "elseif"
        BY <2>2, <3>3 DEF FollowedBy
      <4>2. j + 1 \in DOMAIN f.conds
        BY <1>1, <3>1, <3>3
      <4>3. g.conds[j + 1] = f.conds[j + 1] /\ f.conds[j + 1] \in DOMAIN bs
        BY <1>1, <4>2
      <4> QED
        BY <1>4, <1>5, <3>1, <4>1, <4>3 DEF FollowedBy
    <3> QED
      BY <3>2, <3>3
  <2>6. t \in DOMAIN u /\ c \in DOMAIN u
    BY <1>5
  <2> QED
    BY <2>1, <2>3, <2>4, <2>5, <2>6
<1>7. Len(g.ends) <= Len(g.conds)
  BY <1>1
<1> QED
  BY <1>6, <1>7 DEF Arms

\* Between two arms the frame of impl_branch is above that of the body.
LEMMA BetweenArms ==
  ASSUME IInv, Running("branch"), NEW m, NEW open, MeansWith(m, open)
  PROVE  LET n == Len(stack) - 1 IN
         /\ stack # <<>> /\ Frame.fn = "branch" /\ ArmsAreClosed(Frame)
         /\ IsBranch(Frame, Len(blocks)) /\ m \in Nat
         /\ n \in Nat /\ n >= 1 /\ n = 2 * m + 2 /\ n <= Len(stack) /\ n < Len(stack)
         /\ n \in 0 .. Len(stack) /\ n + 1 = Len(stack) /\ n \in 1 .. Len(stack) - 1
         /\ stack[n] = Caller /\ stack[n + 1] = Frame /\ Caller.fn = "basic_block"
         /\ IsBody(Caller, Len(blocks)) /\ Caller.last \in DOMAIN blocks
         /\ Above(stack, n) = Owed(Frame)
<1> DEFINE n == Len(stack) - 1
<1>1. /\ stack # <<>> /\ Frame.fn = "branch" /\ ArmsAreClosed(Frame)
      /\ IsBranch(Frame, Len(blocks))
  BY BranchFacts
<1>2. /\ n \in Nat /\ n >= 1 /\ n < Len(stack) /\ n \in 0 .. Len(stack) /\ n + 1 = Len(stack)
      /\ stack[n] = Caller /\ stack[n + 1] = Frame /\ Caller.fn = "basic_block"
      /\ IsBody(Caller, Len(blocks)) /\ Above(stack, n) = Owed(Frame)
  BY <1>1, CallerIsBody
<1>3. m \in Nat /\ Len(stack) = 2 * m + 3 /\ Len(stack) \in Nat
  BY <1>1, PlaceOnStack, StateFacts
<1>4. n = 2 * m + 2 /\ n <= Len(stack) /\ n \in 1 .. Len(stack) - 1
  BY <1>2, <1>3
<1>5. Caller.last \in DOMAIN blocks
  BY <1>2, StateFacts DEF IsBody
<1> QED
  BY <1>1, <1>2, <1>3, <1>4, <1>5

LEMMA ElseIfMeans ==
  ASSUME IInv, IInv', NEW m, NEW open, MeansWith(m, open), ElseIf
  PROVE  Means'
<1> DEFINE N == Len(blocks)
           n == Len(stack) - 1
           i == Len(src) + 1
           f == Frame
<1>1. PICK g : g = [f EXCEPT !.conds = Append(@, N + 1)]
  OBVIOUS
<1>2. /\ Running("branch") /\ src' = Append(src, "elseif")
      /\ blocks' = CondAndBody(blocks, Len(src) + 1)
      /\ stack' = Append(SubSeq(stack, 1, n), g) \o <<BasicBlockFrame((N + 1) + 1)>>
  BY <1>1 DEF ElseIf, Pop
<1>3. /\ stack # <<>> /\ f.fn = "branch" /\ ArmsAreClosed(f) /\ IsBranch(f, N) /\ m \in Nat
      /\ n \in Nat /\ n >= 1 /\ n = 2 * m + 2 /\ n <= Len(stack) /\ n < Len(stack)
      /\ n \in 0 .. Len(stack) /\ n + 1 = Len(stack) /\ n \in 1 .. Len(stack) - 1
      /\ stack[n] = Caller /\ stack[n + 1] = f /\ Caller.fn = "basic_block"
      /\ Caller.last \in DOMAIN blocks
  BY <1>2, BetweenArms
<1>4. /\ f.conds \in Seq(1 .. N) /\ f.conds # <<>> /\ f.ends \in Seq(1 .. N)
      /\ f \in [fn : {"branch"}, conds : Seq(1 .. N), starts : Seq(1 .. N),
                ends : Seq(1 .. N), orElse : 0 .. N]
      /\ f.orElse = 0 /\ Len(f.conds) = Len(f.ends)
  BY <1>3 DEF IsBranch, ArmsAreClosed
<1>5. (N + 1) + 1 = N + 2 /\ N \in Nat /\ DOMAIN blocks = 1 .. N
  BY StateFacts
<1>6. /\ g.fn = "branch" /\ g.starts = f.starts /\ g.ends = f.ends /\ g.orElse = 0
      /\ g.conds = Append(f.conds, N + 1)
  <2> HIDE DEF f, N
  <2> QED
    BY <1>1, <1>4
<1>7. /\ Len(g.conds) = Len(f.conds) + 1 /\ g.conds[Len(f.conds) + 1] = N + 1
      /\ \A j \in DOMAIN f.conds : g.conds[j] = f.conds[j]
      /\ g.conds[1] = f.conds[1] /\ f.conds[1] \in DOMAIN blocks
      /\ g.ends # <<>>
  <2> DEFINE z == f.conds
             I == 1 .. N
  <2>1. z \in Seq(I) /\ z # <<>> /\ N + 1 \in Nat /\ g.conds = Append(z, N + 1)
        /\ g.ends \in Seq(I) /\ Len(g.ends) = Len(z)
    BY <1>4, <1>5, <1>6
  <2>2. 1 \in DOMAIN z /\ Len(z) \in Nat /\ Len(z) >= 1 /\ g.ends # <<>>
    <3> HIDE DEF z, I
    <3> QED
      BY <2>1
  <2>3. z[1] \in I
    <3> HIDE DEF z, I
    <3> QED
      BY <2>1, <2>2
  <2>4. /\ Len(g.conds) = Len(z) + 1 /\ g.conds[Len(z) + 1] = N + 1
        /\ \A j \in DOMAIN z : g.conds[j] = z[j]
    <3> DEFINE e == N + 1
    <3> HIDE DEF z, I, e
    <3> QED
      BY <2>1 DEF e
  <2> QED
    BY <1>5, <2>2, <2>3, <2>4
<1>8. PutsTwo(stack, stack', n, g, BasicBlockFrame(N + 2))
  <2>1. PICK S : stack \in Seq(S)
    BY StateFacts
  <2>2. stack' = Append(SubSeq(stack, 1, n), g) \o <<BasicBlockFrame(N + 2)>>
    BY <1>2, <1>5
  <2> HIDE DEF n
  <2> QED
    BY <1>3, <2>1, <2>2, PutsTwoFacts
<1>9. /\ blocks'[N + 1] = <<Eval(i)>> /\ \A b \in DOMAIN blocks : blocks'[b] = blocks[b]
      /\ i \in DOMAIN src' /\ src'[i] = "elseif"
  <2>1. "elseif" \in {"while", "if", "elseif"}
    OBVIOUS
  <2> QED
    BY <1>2, <2>1, NewCondition
<1>10. src \in Seq(Token)
  BY StateFacts
<1>11. CondCalls(n, g, open)
  <2> SUFFICES ASSUME NEW A \in [Nat -> Nat], NEW lab, NEW out, NEW l, NEW o,
                      Respects(src', A), Frames(src, blocks, A, lab, out, stack, open),
                      Opened(src', blocks, A, lab, out, i, l, o)
               PROVE  /\ Calling(src', blocks', A, l, o, stack[n], g, open[n + 1])
                      /\ Calling(src', blocks', A, l, o, g, BasicBlockFrame(N + 2), i)
    BY DEF CondCalls
  <2>1. \A b \in DOMAIN blocks : l[b] = lab[b] /\ o[b] = out[b]
    BY DEF Opened
  <2>2. Calling(src', blocks', A, l, o, stack[n], g, open[n + 1])
    <3>1. Calling(src, blocks, A, lab, out, stack[n], stack[n + 1], open[n + 1])
      BY <1>3 DEF Frames, Below
    <3>2. /\ blocks[f.conds[1]] # <<>> /\ blocks[f.conds[1]][1] = Eval(out[Caller.last])
      BY <1>3, <3>1 DEF Calling
    <3>3. /\ blocks'[g.conds[1]] # <<>> /\ blocks'[g.conds[1]][1] = Eval(o[Caller.last])
      BY <1>3, <1>7, <1>9, <2>1, <3>2
    <3> HIDE DEF n, N, f
    <3> QED
      BY <1>3, <1>6, <3>3 DEF Calling
  <2>3. Arms(src', blocks', A, l, o, g, i)
    <3>1. Arms(src, blocks, A, lab, out, f, i)
      BY <1>3 DEF Frames, Walking
    <3>2. PICK d : d = N + 1
      OBVIOUS
    <3>3. /\ blocks'[d] = <<Eval(i)>> /\ DOMAIN blocks = 1 .. Len(blocks)
          /\ src' = Append(src, "elseif") /\ i = Len(src) + 1
          /\ IsBranch(f, Len(blocks)) /\ ArmsAreClosed(f)
      BY <1>2, <1>3, <1>5, <1>9, <3>2
    <3>4. Stand(blocks, blocks', lab, l, out, o, DOMAIN blocks)
      BY <1>9, <2>1 DEF Stand
    <3>5. NewArm(src, src', blocks, blocks', lab, l, out, o, f, g, i, d)
      BY <1>6, <1>7, <3>2, <3>3, <3>4 DEF NewArm
    <3> HIDE DEF f, i
    <3> QED
      BY <1>10, <3>1, <3>5, ArmsContinue
  <2>4. blocks'[g.conds[Len(g.conds)]] = <<Eval(i)>>
    BY <1>7, <1>9
  <2>5. Calling(src', blocks', A, l, o, g, BasicBlockFrame(N + 2), i)
    <3> HIDE DEF i, N, n, f
    <3> QED
      BY <1>6, <1>7, <1>9, <2>3, <2>4 DEF Calling
  <2> QED
    BY <2>2, <2>5
<1> HIDE DEF n, N
<1>12. \E opn : MeansWith(m + 1, opn)'
  <2>1. "elseif" \in {"while", "if", "elseif"} /\ g.fn # "basic_block" /\ stack[n].fn = "basic_block"
    BY <1>3, <1>6
  <2> HIDE DEF f, i
  <2> QED
    BY <1>2, <1>3, <1>8, <1>11, <2>1, OpenCondMeans DEF N
<1>13. PICK k, opn : MeansWith(k, opn)'
  BY <1>12
<1> QED
  BY <1>13 DEF Means

\* The else has the arms that are closed.
LEMMA ArmsWithElse ==
  ASSUME NEW s, NEW bs, NEW A, NEW lab, NEW out, NEW f, NEW g, NEW e,
         g.conds = f.conds, g.starts = f.starts, g.ends = f.ends,
         Arms(s, bs, A, lab, out, f, e)
  PROVE  Arms(s, bs, A, lab, out, g, e)
<1>1. ASSUME NEW j, NEW t, NEW c
      PROVE  /\ ArmAt(s, bs, A, lab, f, j, t, c) => ArmAt(s, bs, A, lab, g, j, t, c)
             /\ FollowedBy(s, bs, f, j, c, e) => FollowedBy(s, bs, g, j, c, e)
  BY DEF ArmAt, FollowedBy
<1>2. /\ Len(f.ends) <= Len(f.conds)
      /\ \A j \in DOMAIN f.ends :
           /\ out[f.ends[j]] = A[e]
           /\ \E t, c \in DOMAIN s : ArmAt(s, bs, A, lab, f, j, t, c) /\ FollowedBy(s, bs, f, j, c, e)
  BY DEF Arms
<1>3. Len(g.ends) <= Len(g.conds)
  BY <1>2
<1>4. ASSUME NEW j \in DOMAIN g.ends
      PROVE  /\ out[g.ends[j]] = A[e]
             /\ \E t, c \in DOMAIN s : ArmAt(s, bs, A, lab, g, j, t, c) /\ FollowedBy(s, bs, g, j, c, e)
  BY <1>1, <1>2
<1> QED
  BY <1>3, <1>4 DEF Arms

LEMMA BeginElseMeans ==
  ASSUME IInv, IInv', NEW m, NEW open, MeansWith(m, open), BeginElse
  PROVE  Means'
<1> DEFINE N == Len(blocks)
           n == Len(stack) - 1
           L == Len(src)
           f == Frame
           J == Instruction(L + 1, N)
<1>1. PICK g : g = [f EXCEPT !.orElse = N + 1]
  OBVIOUS
<1>2. /\ Running("branch") /\ src' = Append(src, "else")
      /\ blocks' = AppendBlock(blocks)
      /\ stack' = Append(SubSeq(stack, 1, n), g) \o <<BasicBlockFrame(N + 1)>>
  BY <1>1 DEF BeginElse, Pop
<1>3. /\ stack # <<>> /\ f.fn = "branch" /\ ArmsAreClosed(f) /\ IsBranch(f, N) /\ m \in Nat
      /\ n \in Nat /\ n >= 1 /\ n = 2 * m + 2 /\ n <= Len(stack) /\ n < Len(stack)
      /\ n \in 0 .. Len(stack) /\ n + 1 = Len(stack) /\ n \in 1 .. Len(stack) - 1
      /\ stack[n] = Caller /\ stack[n + 1] = f /\ Caller.fn = "basic_block"
      /\ Caller.last \in DOMAIN blocks /\ IsBody(Caller, N)
  BY <1>2, BetweenArms
<1>4. /\ src \in Seq(Token) /\ blocks \in Seq(Seq(Instruction(L, N)))
      /\ L \in Nat /\ N \in Nat /\ DOMAIN blocks = 1 .. N
  BY StateFacts
<1>5. L + 1 \in Nat /\ L <= L + 1 /\ N <= N /\ N + 1 \in Nat /\ L + 2 \in Nat /\ N + 1 # 0
      /\ (L + 1) + 1 = L + 2 /\ \A x \in 1 .. N : x < N + 1
  <2>1. L \in Nat /\ N \in Nat
    BY <1>4
  <2> HIDE DEF L, N
  <2> QED
    BY <2>1
<1>6. blocks \in Seq(Seq(J)) /\ <<>> \in Seq(J) /\ Len(<<>>) <= 1
  <2>1. blocks \in Seq(Seq(J))
    BY <1>4, <1>5, BlocksGrow
  <2> QED
    BY <2>1
<1>7. /\ g.fn = "branch" /\ g.conds = f.conds /\ g.starts = f.starts /\ g.ends = f.ends
      /\ g.orElse = N + 1
  <2>1. f \in [fn : {"branch"}, conds : Seq(1 .. N), starts : Seq(1 .. N),
                ends : Seq(1 .. N), orElse : 0 .. N]
    BY <1>3 DEF IsBranch
  <2> DEFINE c == N + 1
  <2>2. g = [f EXCEPT !.orElse = c]
    BY <1>1
  <2> HIDE DEF f, N, c
  <2>3. /\ g.fn = "branch" /\ g.conds = f.conds /\ g.starts = f.starts /\ g.ends = f.ends
        /\ g.orElse = c
    BY <2>1, <2>2
  <2> QED
    BY <2>3 DEF c
<1>8. PutsTwo(stack, stack', n, g, BasicBlockFrame(N + 1))
  <2>1. PICK S : stack \in Seq(S)
    BY StateFacts
  <2> HIDE DEF n, N
  <2> QED
    BY <1>2, <1>3, <2>1, PutsTwoFacts
<1>9. Added(blocks, blocks', <<>>)
  <2> HIDE DEF J
  <2> QED
    BY <1>2, <1>6, AddedContent DEF AppendBlock
<1>10. \A b \in DOMAIN blocks : blocks'[b] = blocks[b]
  BY <1>9 DEF Added
<1>11. "else" \in Token /\ "else" \in Opening
  BY DEF Token, Opening
<1>12. /\ L + 1 \in DOMAIN src' /\ src'[L + 1] = "else" /\ Len(src') = L + 1
  BY <1>2, <1>4, <1>11, SourceFacts
<1>13. Grown(src, src')
  BY <1>2, <1>11 DEF Grown
<1>14. Placed(EvaluatedIn(src'), blocks')
  <2>1. Placed(EvaluatedIn(src), blocks)
    BY DEF MeansWith
  <2>2. EvaluatedIn(src') = EvaluatedIn(src)
    BY <1>2, <1>4, <1>11, EvaluatedNext
  <2> HIDE DEF J
  <2> QED
    BY <1>2, <1>6, <2>1, <2>2, PlacedNew DEF AppendBlock
<1>15. ASSUME NEW A \in [Nat -> Nat], Respects(src', A), ~PlainElse(src')
       PROVE  \E lab, out, l, o : OpensBody(n, g, N + 1, open, A, lab, out, l, o)
  <2>1. PICK lab, out : /\ Preserves(src, blocks, A, lab, out, Running("branch"))
                        /\ Frames(src, blocks, A, lab, out, stack, open)
    BY <1>3, <1>13, <1>15, MeansBefore
  <2>2. Preserves(src, blocks, A, lab, out, TRUE)
    BY <1>2, <2>1 DEF Running
  <2>3. Preserves(src', blocks, A, lab, out, FALSE)
    BY <1>2, <1>4, <1>11, <2>2, PreservesSource
  <2>4. A[L + 2] \in Nat
    BY <1>5
  <2>5. PICK l, o : Promised(src', blocks, A, lab, out, FALSE, A[L + 2], l, o)
    <3>1. src' \in Seq(Token)
      BY <1>4, <1>13, GrownFacts
    <3> DEFINE k == L + 1
    <3>2. k \in Nat /\ blocks \in Seq(Seq(Instruction(k, Len(blocks))))
      BY <1>5, <1>6
    <3> HIDE DEF k
    <3> QED
      BY <2>3, <2>4, <3>1, <3>2, PreservesEmpty
  <2>6. /\ Preserves(src', blocks', A, l, o, FALSE)
        /\ \A b \in DOMAIN blocks : l[b] = lab[b] /\ o[b] = out[b]
        /\ l[N + 1] = A[L + 2] /\ o[N + 1] = A[L + 2]
    BY <1>2, <2>5 DEF Promised
  <2>7. Calling(src', blocks', A, l, o, stack[n], g, open[n + 1])
    <3>1. Calling(src, blocks, A, lab, out, stack[n], stack[n + 1], open[n + 1])
      BY <1>3, <2>1 DEF Frames, Below
    <3>2. /\ blocks[f.conds[1]] # <<>> /\ blocks[f.conds[1]][1] = Eval(out[Caller.last])
      BY <1>3, <3>1 DEF Calling
    <3>3. f.conds[1] \in DOMAIN blocks
      <4>1. /\ DOMAIN f.conds = 1 .. Len(f.conds) /\ Len(f.conds) \in Nat /\ Len(f.conds) >= 1
            /\ \A j \in DOMAIN f.conds : f.conds[j] \in 1 .. N
        BY <1>3, BranchParts
      <4>2. 1 \in DOMAIN f.conds
        <5> HIDE DEF f
        <5> QED
          BY <4>1
      <4> QED
        BY <1>4, <4>1, <4>2
    <3>4. /\ blocks'[g.conds[1]] # <<>> /\ blocks'[g.conds[1]][1] = Eval(o[Caller.last])
      BY <1>3, <1>7, <1>10, <2>6, <3>2, <3>3
    <3>5. Caller.start < N + 1
      <4>1. Caller.start \in 1 .. N
        BY <1>3 DEF IsBody
      <4> HIDE DEF N
      <4> QED
        BY <1>5, <4>1
    <3> HIDE DEF n, N, f
    <3> QED
      BY <1>3, <1>7, <3>4, <3>5 DEF Calling
  <2>8. Arms(src', blocks', A, l, o, g, L + 1)
    <3>1. Arms(src, blocks, A, lab, out, f, L + 1)
      BY <1>3, <2>1 DEF Frames, Walking
    <3> DEFINE i == L + 1
               B == DOMAIN blocks
    <3>2. Stand(blocks, blocks', lab, l, out, o, B) /\ Owed(f) \subseteq B
      <4>1. Owed(f) \subseteq B
        BY <1>3, RunningFacts
      <4> QED
        BY <1>10, <2>6, <4>1 DEF Stand
    <3>3. IsBranch(f, Len(blocks)) /\ DOMAIN blocks = 1 .. Len(blocks)
      BY <1>3, <1>4
    <3> HIDE DEF f, i, B
    <3>4. Arms(src, blocks, A, lab, out, f, i)
      BY <3>1 DEF i
    <3>5. Arms(src', blocks', A, l, o, f, i)
      BY <1>4, <1>13, <3>2, <3>3, <3>4, ArmsStay
    <3>6. Arms(src', blocks', A, l, o, g, i)
      BY <1>7, <3>5, ArmsWithElse
    <3> QED
      BY <3>6 DEF i
  <2>9. Calling(src', blocks', A, l, o, g, BasicBlockFrame(N + 1), L + 1)
    <3>1. \A j \in DOMAIN g.ends : g.ends[j] < N + 1
      <4>1. \A j \in DOMAIN f.ends : f.ends[j] \in 1 .. N
        BY <1>3, BranchParts
      <4> HIDE DEF N, f
      <4> QED
        BY <1>5, <1>7, <4>1
    <3>2. BasicBlockFrame(N + 1).start = g.orElse
      BY <1>7 DEF BasicBlockFrame
    <3> DEFINE i == L + 1
    <3>3. i \in DOMAIN src' /\ src'[i] = "else" /\ Arms(src', blocks', A, l, o, g, i)
      BY <1>12, <2>8
    <3>4. g.orElse # 0
      BY <1>5, <1>7
    <3> HIDE DEF i, N
    <3>5. Calling(src', blocks', A, l, o, g, BasicBlockFrame(N + 1), i)
      BY <1>7, <3>1, <3>2, <3>3, <3>4 DEF Calling
    <3> QED
      BY <3>5 DEF i
  <2> HIDE DEF n, N, f
  <2>10. OpensBody(n, g, N + 1, open, A, lab, out, l, o)
    BY <2>1, <2>6, <2>7, <2>9 DEF OpensBody
  <2> QED
    BY <2>10
<1>16. \E opn : MeansWith(m + 1, opn)'
  <2>1. g.fn # "basic_block" /\ stack[n].fn = "basic_block"
    BY <1>3, <1>7
  <2> HIDE DEF f, n, N
  <2> QED
    BY <1>2, <1>3, <1>5, <1>8, <1>10, <1>11, <1>14, <1>15, <2>1, OpenBodyMeans
<1>17. PICK k, opn : MeansWith(k, opn)'
  BY <1>16
<1> QED
  BY <1>17 DEF Means

-----------------------------------------------------------------------------
(* The end of a body.                                                      *)

\* Means after a step that is not the last one.
LEMMA MeansAfter ==
  ASSUME NEW m, NEW open, Nested(src', m, open), stack' # <<>>,
         Len(stack') \in {2 * m + 2, 2 * m + 3},
         Placed(EvaluatedIn(src'), blocks'),
         \A A \in [Nat -> Nat] : Respects(src', A) /\ ~PlainElse(src') =>
           \E lab, out : /\ Preserves(src', blocks', A, lab, out, Running("branch")')
                         /\ Frames(src', blocks', A, lab, out, stack', open)
  PROVE  Means'
<1>1. MeansWith(m, open)'
  BY DEF MeansWith
<1> QED
  BY <1>1 DEF Means

\* Before the end of a body that token i opened.
EndsBody(A, lab, out, open, i) ==
  /\ Preserves(src', blocks, A, lab, out, TRUE)
  /\ Preserves(src', blocks, A, lab, out, FALSE)
  /\ Frames(src, blocks, A, lab, out, stack, open)
  /\ lab[Frame.start] = A[i + 1] /\ Frame.start <= Frame.last
  /\ out[Frame.last] = A[Len(src) + 1]
  /\ Calling(src, blocks, A, lab, out, Caller, Frame, i)
  /\ Calling(src, blocks, A, lab, out, stack[Len(stack) - 2], Caller, open[Len(stack) - 1])
  /\ A[Len(src) + 1] = IF src[i] = "while" THEN i ELSE A[Len(src) + 2]
  /\ src[i] \in {"elseif", "else"} => A[i] = A[Len(src) + 2]

\* A body ends: what is known of its frame and of the one that called it.
LEMMA EndOfBody ==
  ASSUME IInv, Running("basic_block"), Caller.fn \in {"while", "branch"},
         NEW m, NEW open, MeansWith(m, open), src' = Append(src, "end")
  PROVE  LET i == open[Len(stack)] IN
         /\ m \in Nat /\ m >= 1 /\ Len(stack) = 2 * m + 2
         /\ Nested(src', m - 1, open)
         /\ Closes(src', Len(src) + 1, i) /\ i \in DOMAIN src /\ i \in DOMAIN src'
         /\ src'[i] = src[i] /\ src[i] \in Opening
         /\ \A A \in [Nat -> Nat] : Respects(src', A) /\ ~PlainElse(src') =>
              \E lab, out : EndsBody(A, lab, out, open, i)
<1> DEFINE i == open[Len(stack)]
           n == Len(stack)
           L == Len(src)
<1>1. /\ stack # <<>> /\ n \in Nat /\ n = 2 * m + 2 /\ m \in Nat
      /\ Frame = stack[n] /\ Frame.fn = "basic_block" /\ Frame.last \in DOMAIN blocks
  BY BodyOnTop
<1>2. /\ src \in Seq(Token) /\ blocks \in Seq(Seq(Instruction(L, Len(blocks))))
      /\ L \in Nat
  BY StateFacts
<1>3. n >= 4
  BY EnclosingFacts
<1>4. m >= 1
  BY <1>1, <1>3
<1>5. Nested(src, m, open)
  BY DEF MeansWith
<1>6. i = open[2 * m + 2]
  BY <1>1
<1>7. /\ Nested(src', m - 1, open) /\ Closes(src', L + 1, i)
      /\ i \in DOMAIN src /\ src[i] \in Opening
  BY <1>2, <1>4, <1>5, <1>6, NestedPop
<1>8. "end" \in Token
  BY DEF Token
<1>9. Grown(src, src')
  BY <1>8 DEF Grown
<1>10. i \in DOMAIN src' /\ src'[i] = src[i] /\ L + 1 \in DOMAIN src'
       /\ src' \in Seq(Token)
  <2> HIDE DEF i
  <2> QED
    BY <1>2, <1>7, <1>8, SourceFacts
<1>11. n - 1 \in 1 .. n - 1 /\ n - 2 \in 1 .. n - 1 /\ (n - 1) + 1 = n /\ (n - 2) + 1 = n - 1
       /\ n \in 1 .. n
  <2> HIDE DEF n
  <2> QED
    BY <1>1, <1>3
<1>12. ASSUME NEW A \in [Nat -> Nat], Respects(src', A), ~PlainElse(src')
       PROVE  \E lab, out : EndsBody(A, lab, out, open, i)
  <2>1. PICK lab, out : /\ Preserves(src, blocks, A, lab, out, Running("branch"))
                        /\ Frames(src, blocks, A, lab, out, stack, open)
    BY <1>1, <1>9, <1>12, MeansBefore
  <2>2. Preserves(src, blocks, A, lab, out, FALSE)
    BY <2>1, PreservesBetween DEF Running
  <2>3. /\ Preserves(src', blocks, A, lab, out, TRUE)
        /\ Preserves(src', blocks, A, lab, out, FALSE)
    BY <1>2, <1>8, <2>2, PreservesSource
  <2>4. Below(src, blocks, A, lab, out, stack, open, n) /\ Walking(src, blocks, A, lab, out, Frame)
    BY <1>1, <2>1 DEF Frames
  <2>5. BodyOf(A, lab, Frame, i)
    BY <1>1, <1>11, <2>4 DEF Below
  <2>6. /\ Calling(src, blocks, A, lab, out, stack[n - 1], stack[(n - 1) + 1], open[(n - 1) + 1])
        /\ Calling(src, blocks, A, lab, out, stack[n - 2], stack[(n - 2) + 1], open[(n - 2) + 1])
    BY <1>11, <2>4 DEF Below
  <2>7. /\ Calling(src, blocks, A, lab, out, Caller, Frame, i)
        /\ Calling(src, blocks, A, lab, out, stack[n - 2], Caller, open[n - 1])
    BY <1>1, <1>11, <2>6 DEF Caller
  <2>8. out[Frame.last] = A[L + 1]
    BY <1>1, <2>4 DEF Walking
  <2>9. (L + 1) + 1 = L + 2
    BY <1>2
  <2>10. /\ A[L + 1] = IF src[i] = "while" THEN i ELSE A[L + 2]
         /\ src[i] \in {"elseif", "else"} => A[i] = A[L + 2]
    <3> HIDE DEF i, L
    <3>1. /\ A[L + 1] = IF src'[i] = "while" THEN i ELSE A[(L + 1) + 1]
          /\ src'[i] \in {"elseif", "else"} => A[i] = A[(L + 1) + 1]
      BY <1>7, <1>10, <1>12 DEF Respects
    <3> QED
      BY <1>10, <2>9, <3>1
  <2> HIDE DEF i, n, L
  <2>11. EndsBody(A, lab, out, open, i)
    BY <2>1, <2>3, <2>5, <2>7, <2>8, <2>10 DEF EndsBody, BodyOf, n, L
  <2> QED
    BY <2>11
<1> HIDE DEF i
<1> QED
  BY <1>1, <1>4, <1>7, <1>10, <1>12 DEF i

\* impl_branch notes the arm that its body, from start to last, has ended.
ArmEnds(s, u, bs, A, lab, out, f, g, i, start, last, e) ==
  /\ u = Append(s, "end") /\ e = Len(s) + 2
  /\ IsBranch(f, Len(bs)) /\ ArmIsOpen(f) /\ f.orElse = 0
  /\ i \in DOMAIN s /\ Closes(u, Len(s) + 1, i)
  /\ bs[f.conds[Len(f.conds)]] = <<Eval(i)>>
  /\ s[i] = IF f.ends = <<>> THEN "if" ELSE "elseif"
  /\ s[i] = "elseif" => A[i] = A[e]
  /\ g.conds = f.conds /\ g.starts = Append(f.starts, start) /\ g.ends = Append(f.ends, last)
  /\ lab[start] = A[i + 1] /\ out[last] = A[e]

\* The arm that ends is one more closed arm.
LEMMA ArmsClose ==
  ASSUME NEW s \in Seq(Token), NEW u, NEW bs, NEW A, NEW lab, NEW out, NEW f, NEW g,
         NEW i, NEW start, NEW last, NEW e,
         ArmEnds(s, u, bs, A, lab, out, f, g, i, start, last, e),
         Arms(s, bs, A, lab, out, f, i)
  PROVE  Arms(u, bs, A, lab, out, g, e)
<1> DEFINE C == Len(f.ends)
<1>1. /\ u = Append(s, "end") /\ e = Len(s) + 2
      /\ IsBranch(f, Len(bs)) /\ ArmIsOpen(f) /\ f.orElse = 0
      /\ i \in DOMAIN s /\ Closes(u, Len(s) + 1, i)
      /\ bs[f.conds[Len(f.conds)]] = <<Eval(i)>>
      /\ s[i] = IF f.ends = <<>> THEN "if" ELSE "elseif"
      /\ s[i] = "elseif" => A[i] = A[e]
      /\ g.conds = f.conds /\ g.starts = Append(f.starts, start) /\ g.ends = Append(f.ends, last)
      /\ lab[start] = A[i + 1] /\ out[last] = A[e]
  BY DEF ArmEnds
<1>2. /\ DOMAIN f.ends = 1 .. C /\ C \in Nat /\ Len(f.starts) = C
      /\ Len(f.conds) = C + 1
  BY <1>1, BranchParts DEF ArmIsOpen
<1>3. /\ Len(g.ends) = C + 1 /\ DOMAIN g.ends = 1 .. C + 1
      /\ \A j \in 1 .. C : g.ends[j] = f.ends[j] /\ g.starts[j] = f.starts[j]
      /\ g.ends[C + 1] = last /\ g.starts[C + 1] = start
  <2> DEFINE T == (1 .. Len(bs)) \cup {start, last}
  <2>1. f.ends \in Seq(1 .. Len(bs)) /\ f.starts \in Seq(1 .. Len(bs))
    BY <1>1 DEF IsBranch
  <2>2. 1 .. Len(bs) \subseteq T
    OBVIOUS
  <2>3. f.ends \in Seq(T) /\ f.starts \in Seq(T) /\ start \in T /\ last \in T
    <3> HIDE DEF T
    <3>1. Seq(1 .. Len(bs)) \subseteq Seq(T)
      BY <2>2, SeqGrows
    <3> QED
      BY <2>1, <3>1 DEF T
  <2> HIDE DEF T
  <2>4. \A z \in Seq(T), x \in T :
          /\ Len(Append(z, x)) = Len(z) + 1 /\ DOMAIN Append(z, x) = 1 .. Len(z) + 1
          /\ \A j \in 1 .. Len(z) : Append(z, x)[j] = z[j]
          /\ Append(z, x)[Len(z) + 1] = x
    OBVIOUS
  <2> DEFINE z == f.ends
             y == f.starts
  <2>5. /\ Len(Append(z, last)) = Len(z) + 1 /\ DOMAIN Append(z, last) = 1 .. Len(z) + 1
        /\ \A j \in 1 .. Len(z) : Append(z, last)[j] = z[j]
        /\ Append(z, last)[Len(z) + 1] = last
        /\ \A j \in 1 .. Len(y) : Append(y, start)[j] = y[j]
        /\ Append(y, start)[Len(y) + 1] = start
    <3>1. z \in Seq(T) /\ y \in Seq(T) /\ start \in T /\ last \in T
      BY <2>3
    <3> HIDE DEF z, y
    <3> QED
      BY <2>4, <3>1
  <2>6. g.ends = Append(z, last) /\ g.starts = Append(y, start) /\ Len(z) = C /\ Len(y) = C
    BY <1>1, <1>2
  <2> HIDE DEF C
  <2>7. \A j \in 1 .. C : g.ends[j] = z[j] /\ g.starts[j] = y[j]
    BY <2>5, <2>6
  <2> QED
    BY <2>5, <2>6, <2>7
<1>4. "end" \in Token
  BY DEF Token
<1>5. Grown(s, u)
  BY <1>1, <1>4 DEF Grown
<1>6. /\ \A p \in DOMAIN s : u[p] = s[p] /\ p \in DOMAIN u
      /\ Len(s) \in Nat
  BY <1>5, GrownFacts
<1>7. ASSUME NEW j \in 1 .. C
      PROVE  /\ out[g.ends[j]] = A[e]
             /\ \E t, c \in DOMAIN u : ArmAt(u, bs, A, lab, g, j, t, c) /\ FollowedBy(u, bs, g, j, c, e)
  <2>1. /\ out[f.ends[j]] = A[i]
        /\ \E t, c \in DOMAIN s : ArmAt(s, bs, A, lab, f, j, t, c) /\ FollowedBy(s, bs, f, j, c, i)
    BY <1>2 DEF Arms
  <2>2. PICK t, c \in DOMAIN s : ArmAt(s, bs, A, lab, f, j, t, c) /\ FollowedBy(s, bs, f, j, c, i)
    BY <2>1
  <2>3. ArmAt(u, bs, A, lab, f, j, t, c)
    BY <1>5, <2>2, ArmStays
  <2>4. ArmAt(u, bs, A, lab, g, j, t, c)
    BY <1>1, <1>3, <2>3 DEF ArmAt
  <2>5. j # Len(f.conds)
    BY <1>2
  <2>6. FollowedBy(u, bs, g, j, c, e)
    BY <1>1, <1>6, <2>2, <2>5 DEF FollowedBy
  <2>7. f.ends # <<>>
    <3>1. C # 0
      BY <1>2
    <3> QED
      BY <3>1
  <2>8. A[i] = A[e]
    BY <1>1, <2>7
  <2> QED
    BY <1>3, <1>6, <2>1, <2>4, <2>6, <2>8
<1>8. ASSUME NEW j, j = C + 1
      PROVE  /\ out[g.ends[j]] = A[e]
             /\ \E t, c \in DOMAIN u : ArmAt(u, bs, A, lab, g, j, t, c) /\ FollowedBy(u, bs, g, j, c, e)
  <2> DEFINE c == Len(s) + 1
  <2>1. c \in DOMAIN u /\ i \in DOMAIN u /\ u[i] = s[i]
    <3>1. Len(s) + 1 \in DOMAIN u
      BY <1>1, <1>4, SourceFacts
    <3> QED
      BY <1>1, <1>6, <3>1
  <2>2. Len(g.conds) = j /\ c + 1 = e /\ Closes(u, c, i)
    BY <1>1, <1>2, <1>6, <1>8
  <2> HIDE DEF c
  <2>3. FollowedBy(u, bs, g, j, c, e)
    BY <2>2 DEF FollowedBy
  <2>4. ArmAt(u, bs, A, lab, g, j, i, c)
    <3>1. bs[g.conds[j]] = <<Eval(i)>>
      BY <1>1, <2>2
    <3>2. u[i] \in {"if", "elseif"}
      BY <1>1, <2>1
    <3>3. lab[g.starts[j]] = A[i + 1]
      BY <1>1, <1>3, <1>8
    <3> QED
      BY <2>2, <3>1, <3>2, <3>3 DEF ArmAt
  <2>5. out[g.ends[j]] = A[e]
    BY <1>1, <1>3, <1>8
  <2> QED
    BY <2>1, <2>3, <2>4, <2>5
<1>9. \A j \in DOMAIN g.ends : j \in 1 .. C \/ j = C + 1
  BY <1>2, <1>3
<1>10. Len(g.ends) <= Len(g.conds)
  BY <1>1, <1>2, <1>3
<1> QED
  BY <1>7, <1>8, <1>9, <1>10 DEF Arms

LEMMA EndArmMeans ==
  ASSUME IInv, IInv', NEW m, NEW open, MeansWith(m, open), EndArm
  PROVE  Means'
<1> DEFINE N == Len(blocks)
           n == Len(stack) - 2
           L == Len(src)
           f == Caller
           i == open[Len(stack)]
<1>1. PICK g : g = [f EXCEPT !.starts = Append(@, Frame.start),
                             !.ends = Append(@, Frame.last)]
  OBVIOUS
<1>2. /\ Running("basic_block") /\ f.fn = "branch" /\ f.orElse = 0
      /\ src' = Append(src, "end") /\ blocks' = blocks
      /\ stack' = Append(SubSeq(stack, 1, n), g)
  BY <1>1 DEF EndArm, Called, Pop
<1>3. /\ m \in Nat /\ m >= 1 /\ Len(stack) = 2 * m + 2
      /\ Nested(src', m - 1, open)
      /\ Closes(src', L + 1, i) /\ i \in DOMAIN src /\ i \in DOMAIN src'
      /\ src'[i] = src[i] /\ src[i] \in Opening
      /\ \A A \in [Nat -> Nat] : Respects(src', A) /\ ~PlainElse(src') =>
           \E lab, out : EndsBody(A, lab, out, open, i)
  BY <1>2, EndOfBody
<1>4. /\ stack # <<>> /\ IsBranch(f, N) /\ ArmIsOpen(f)
  BY <1>2, BodyFacts, RunningFacts, FrameKinds DEF Calls
<1>5. /\ n \in Nat /\ n >= 1 /\ n < Len(stack) /\ n \in 0 .. Len(stack) /\ n + 1 = Len(stack) - 1
      /\ stack[n + 1] = f /\ n = 2 * (m - 1) + 2 /\ n <= Len(stack) /\ m - 1 \in Nat
  <2>1. Len(stack) \in Nat
    BY StateFacts
  <2>2. m \in Nat /\ m >= 1 /\ Len(stack) = 2 * m + 2
    BY <1>3
  <2>3. /\ n \in Nat /\ n >= 1 /\ n < Len(stack) /\ n \in 0 .. Len(stack) /\ n + 1 = Len(stack) - 1
        /\ n = 2 * (m - 1) + 2 /\ n <= Len(stack) /\ m - 1 \in Nat
    BY <2>1, <2>2
  <2> QED
    BY <2>3 DEF Caller
<1>6. /\ g.fn = "branch" /\ g.conds = f.conds /\ g.orElse = 0
      /\ g.starts = Append(f.starts, Frame.start) /\ g.ends = Append(f.ends, Frame.last)
  <2>1. f \in [fn : {"branch"}, conds : Seq(1 .. N), starts : Seq(1 .. N),
                ends : Seq(1 .. N), orElse : 0 .. N]
    BY <1>4 DEF IsBranch
  <2> HIDE DEF f, N
  <2> QED
    BY <1>1, <1>2, <2>1
<1>7. Puts(stack, stack', n, g)
  <2>1. PICK S : stack \in Seq(S)
    BY StateFacts
  <2> HIDE DEF n
  <2> QED
    BY <1>2, <1>5, <2>1, PutsFacts
<1>8. /\ src \in Seq(Token) /\ "end" \in Token
  BY StateFacts DEF Token
<1>9. Grown(src, src')
  BY <1>2, <1>8 DEF Grown
<1>10. Len(src') = L + 1 /\ L \in Nat /\ L + 2 = (L + 1) + 1
  BY <1>2, <1>8, SourceFacts
<1>11. Placed(EvaluatedIn(src'), blocks')
  BY <1>2, <1>8, EvaluatedNext DEF MeansWith
<1>12. Len(stack') = n + 1 /\ stack' # <<>> /\ Running("branch")' = TRUE
  <2>1. Len(stack') = n + 1 /\ stack'[n + 1] = g
    BY <1>7 DEF Puts
  <2>2. stack' # <<>>
    <3>1. Len(stack') # 0
      BY <1>5, <2>1
    <3> QED
      BY <3>1
  <2> QED
    BY <1>6, <2>1, <2>2 DEF Running
<1>13. ASSUME NEW A \in [Nat -> Nat], Respects(src', A), ~PlainElse(src')
       PROVE  \E lab, out : /\ Preserves(src', blocks', A, lab, out, TRUE)
                            /\ Frames(src', blocks', A, lab, out, stack', open)
  <2>1. PICK lab, out : EndsBody(A, lab, out, open, i)
    BY <1>3, <1>13
  <2>2. /\ Preserves(src', blocks', A, lab, out, TRUE)
        /\ Frames(src, blocks, A, lab, out, stack, open)
        /\ lab[Frame.start] = A[i + 1]
        /\ out[Frame.last] = A[L + 1]
        /\ Calling(src, blocks, A, lab, out, f, Frame, i)
        /\ Calling(src, blocks, A, lab, out, stack[n], f, open[n + 1])
        /\ A[L + 1] = IF src[i] = "while" THEN i ELSE A[L + 2]
        /\ src[i] \in {"elseif", "else"} => A[i] = A[L + 2]
    BY <1>2, <1>5, <2>1 DEF EndsBody
  <2>3. /\ Arms(src, blocks, A, lab, out, f, i)
        /\ blocks[f.conds[Len(f.conds)]] = <<Eval(i)>>
        /\ src[i] = IF f.ends = <<>> THEN "if" ELSE "elseif"
    <3> HIDE DEF f, i
    <3> QED
      BY <1>2, <2>2 DEF Calling
  <2>4. Arms(src', blocks', A, lab, out, g, L + 2)
    <3>1. PICK e : e = L + 2
      OBVIOUS
    <3>2. out[Frame.last] = A[e]
      BY <2>2, <2>3, <3>1
    <3>3. ArmEnds(src, src', blocks, A, lab, out, f, g, i, Frame.start, Frame.last, e)
      BY <1>2, <1>3, <1>4, <1>6, <2>2, <2>3, <3>1, <3>2 DEF ArmEnds
    <3> HIDE DEF f, i
    <3>4. Arms(src', blocks, A, lab, out, g, e)
      BY <1>8, <2>3, <3>3, ArmsClose
    <3> QED
      BY <1>2, <3>1, <3>4
  <2>5. Walking(src', blocks', A, lab, out, g)
    <3>1. Arms(src', blocks', A, lab, out, g, Len(src') + 1)
      <4>1. Len(src') + 1 = L + 2
        BY <1>10
      <4> QED
        BY <2>4, <4>1
    <3> QED
      BY <1>6, <3>1 DEF Walking
  <2>6. StepStays(n, lab, lab, out, out)
    BY <1>2, <1>5, <1>9 DEF StepStays
  <2>7. Below(src', blocks', A, lab, out, stack', open, n)
    <3>1. Kept(stack, stack', n)
      BY <1>7 DEF Puts
    <3> HIDE DEF n
    <3> QED
      BY <1>4, <2>2, <2>6, <3>1, StepBelow
  <2>8. Calling(src', blocks', A, lab, out, stack[n], g, open[n + 1])
    <3>1. stack[n].fn = "basic_block"
      BY <1>2, EnclosingFacts
    <3> HIDE DEF n, f
    <3> QED
      BY <1>2, <1>6, <2>2, <3>1 DEF Calling
  <2>9. Frames(src', blocks', A, lab, out, stack', open)
    <3>1. g.fn # "basic_block"
      BY <1>6
    <3> HIDE DEF n
    <3> QED
      BY <1>5, <1>7, <2>5, <2>7, <2>8, <3>1, FramesPut
  <2> QED
    BY <2>2, <2>9
<1>14. PICK k : k = m - 1
  OBVIOUS
<1>15. Nested(src', k, open) /\ Len(stack') \in {2 * k + 2, 2 * k + 3}
  <2>1. n + 1 = 2 * k + 3
    BY <1>5, <1>14
  <2> QED
    BY <1>3, <1>12, <1>14, <2>1
<1> QED
  BY <1>11, <1>12, <1>13, <1>15, MeansAfter

-----------------------------------------------------------------------------
(* impl_branch starts its last loop.                                       *)

\* g connects the arms of f; x is the way out of the last condition and e the
\* place after the last arm.
Connecting(s, u, bs, cs, A, lab, l, out, o, f, g, e, x) ==
  /\ Grown(s, u)
  /\ Stand(bs, cs, lab, l, out, o, DOMAIN bs)
  /\ DOMAIN bs = 1 .. Len(bs)
  /\ IsBranch(f, Len(bs)) /\ Len(f.conds) = Len(f.ends)
  /\ g.starts = f.starts /\ g.ends = f.ends
  /\ \A j \in DOMAIN f.conds : g.conds[j] = f.conds[j]
  /\ g.conds[Len(f.conds) + 1] = x
  /\ \A c \in DOMAIN s : c + 1 = e => l[x] = Skips(u, A, c)
  /\ \A b \in DOMAIN bs : Leads(bs, lab, out, b, 1, lab[b])

\* The arms have their two ways and go on at place e.
Connected(u, cs, A, l, o, g, e) ==
  \A j \in 1 .. Len(g.ends) :
    /\ o[g.ends[j]] = A[e]
    /\ \E t, c \in DOMAIN u :
         ArmAt(u, cs, A, l, g, j, t, c) /\ l[g.conds[j + 1]] = Skips(u, A, c)

\* The closed arms, when it is known what follows the branch.
LEMMA ArmsConnect ==
  ASSUME NEW s \in Seq(Token), NEW u, NEW bs, NEW cs, NEW A, NEW lab, NEW l,
         NEW out, NEW o, NEW f, NEW g, NEW e, NEW x,
         Connecting(s, u, bs, cs, A, lab, l, out, o, f, g, e, x),
         Arms(s, bs, A, lab, out, f, e)
  PROVE  Connected(u, cs, A, l, o, g, e)
<1> DEFINE C == Len(f.conds)
<1> USE DEF Connecting, Stand
<1>1. /\ DOMAIN f.conds = 1 .. C /\ C \in Nat /\ C >= 1
      /\ DOMAIN f.ends = 1 .. C /\ DOMAIN f.starts = DOMAIN f.ends
      /\ \A j \in DOMAIN f.conds : f.conds[j] \in DOMAIN bs
      /\ \A j \in DOMAIN f.ends : f.starts[j] \in DOMAIN bs /\ f.ends[j] \in DOMAIN bs
      /\ Len(f.ends) = C
  BY BranchParts
<1>2. /\ Len(u) \in Nat /\ DOMAIN u = 1 .. Len(u) /\ DOMAIN s \subseteq DOMAIN u
      /\ \A p \in DOMAIN s : u[p] = s[p] /\ p \in Nat
      /\ Grown(s, u) /\ DOMAIN s = 1 .. Len(s)
  BY GrownFacts
<1> SUFFICES ASSUME NEW j \in 1 .. Len(g.ends)
             PROVE  /\ o[g.ends[j]] = A[e]
                    /\ \E t, c \in DOMAIN u :
                         ArmAt(u, cs, A, l, g, j, t, c) /\ l[g.conds[j + 1]] = Skips(u, A, c)
  BY DEF Connected
<1>3. j \in 1 .. C /\ j \in DOMAIN f.ends /\ j \in DOMAIN f.conds
  BY <1>1
<1>4. /\ out[f.ends[j]] = A[e]
      /\ \E t, c \in DOMAIN s : ArmAt(s, bs, A, lab, f, j, t, c) /\ FollowedBy(s, bs, f, j, c, e)
  BY <1>3 DEF Arms
<1>5. PICK t, c \in DOMAIN s : ArmAt(s, bs, A, lab, f, j, t, c) /\ FollowedBy(s, bs, f, j, c, e)
  BY <1>4
<1>6. f.conds[j] \in DOMAIN bs /\ f.starts[j] \in DOMAIN bs /\ f.ends[j] \in DOMAIN bs
      /\ g.conds[j] = f.conds[j]
  BY <1>1, <1>3
<1>7. ArmAt(u, cs, A, l, g, j, t, c)
  <2>1. ArmAt(u, cs, A, l, f, j, t, c)
    BY <1>2, <1>5, <1>6, ArmStays
  <2> QED
    BY <1>6, <2>1 DEF ArmAt
<1>8. l[g.conds[j + 1]] = Skips(u, A, c)
  <2>1. CASE j = C
    <3>1. c + 1 = e
      BY <1>5, <2>1 DEF FollowedBy
    <3>2. g.conds[j + 1] = x
      BY <2>1
    <3> QED
      BY <3>1, <3>2
  <2>2. CASE j # C
    <3>1. bs[f.conds[j + 1]] = <<Eval(c + 1)>> /\ c + 1 \in DOMAIN s /\ s[c + 1] = "elseif"
      BY <1>5, <2>2 DEF FollowedBy
    <3>2. j + 1 \in DOMAIN f.conds
      <4>1. j \in Nat /\ j <= C /\ j + 1 \in 1 .. C
        BY <1>1, <1>3, <2>2
      <4> QED
        BY <1>1, <4>1
    <3> DEFINE b == f.conds[j + 1]
               i == c + 1
    <3>3. b \in DOMAIN bs /\ g.conds[j + 1] = b /\ l[b] = lab[b]
      BY <1>1, <3>2
    <3>4. lab[b] = i
      <4>1. bs[b] = <<Eval(i)>> /\ Leads(bs, lab, out, b, 1, lab[b])
        BY <3>1, <3>3
      <4>2. PICK z : z = Eval(i)
        OBVIOUS
      <4>3. z.op = "eval" /\ z.token = i
        BY <4>2 DEF Eval
      <4>4. bs[b] = <<z>>
        BY <4>1, <4>2
      <4> HIDE DEF b, i
      <4>5. 1 <= Len(bs[b]) /\ bs[b][1] = z
        BY <4>4
      <4> QED
        BY <4>1, <4>3, <4>5 DEF Leads, MeetsIn
    <3>5. Skips(u, A, c) = c + 1
      <4>1. u[c + 1] = "elseif" /\ c + 1 \in DOMAIN u /\ c \in Nat
        BY <1>2, <3>1
      <4>2. c < Len(u)
        BY <1>2, <4>1
      <4> QED
        BY <4>1, <4>2 DEF Skips
    <3> QED
      BY <3>3, <3>4, <3>5
  <2> QED
    BY <2>1, <2>2
<1> QED
  BY <1>2, <1>4, <1>6, <1>7, <1>8

\* The arrays of impl_branch in its last loop.
LEMMA ConnectEntries ==
  ASSUME NEW f, NEW N, IsBranch(f, N), NEW x, NEW a, NEW g, g = ConnectFrame(f, x, a)
  PROVE  /\ g.fn = "connect" /\ g.starts = f.starts /\ g.ends = f.ends
         /\ g.after = a /\ g.i = 1
         /\ \A j \in DOMAIN f.conds : g.conds[j] = f.conds[j]
         /\ g.conds[Len(f.conds) + 1] = x /\ g.conds[1] = f.conds[1]
         /\ f.conds[1] \in 1 .. N
<1> DEFINE z == f.conds
           T == (1 .. N) \cup {x}
<1>1. /\ g.fn = "connect" /\ g.starts = f.starts /\ g.ends = f.ends
      /\ g.after = a /\ g.i = 1 /\ g.conds = Append(z, x)
  BY DEF ConnectFrame
<1>2. z \in Seq(T) /\ x \in T
  <2>1. z \in Seq(1 .. N) /\ 1 .. N \subseteq T
    BY DEF IsBranch
  <2> HIDE DEF T, z
  <2> QED
    BY <2>1, SeqGrows DEF T
<1>3. /\ DOMAIN z = 1 .. Len(z) /\ Len(z) \in Nat /\ Len(z) >= 1 /\ z[1] \in 1 .. N
  <2>1. /\ DOMAIN z = 1 .. Len(z) /\ Len(z) \in Nat /\ Len(z) >= 1
        /\ \A j \in DOMAIN z : z[j] \in 1 .. N
    BY BranchParts
  <2> HIDE DEF z
  <2>2. 1 \in DOMAIN z
    BY <2>1
  <2> QED
    BY <2>1, <2>2
<1> HIDE DEF T, z
<1>4. /\ \A j \in DOMAIN z : Append(z, x)[j] = z[j]
      /\ Append(z, x)[Len(z) + 1] = x
  BY <1>2
<1>5. 1 \in DOMAIN z
  BY <1>3
<1> QED
  BY <1>1, <1>3, <1>4, <1>5 DEF z

\* The frame of impl_branch becomes the one of its last loop: the frames are
\* those of the meaning again.
ConnectsAt(n, f, g, A, l, o, open) ==
  /\ g.fn = "connect" /\ g.i = 1
  /\ Connected(src', blocks', A, l, o, g, Len(src') + 1)
  /\ \A j \in 1 .. Len(g.ends) : g.ends[j] < g.after
  /\ l[g.after] = A[Len(src') + 1] /\ o[g.after] = A[Len(src') + 1]
  /\ blocks'[g.after] = <<>>
  /\ Calling(src, blocks, A, l, o, stack[n], f, open[n + 1])
  /\ blocks'[f.conds[1]] = blocks[f.conds[1]]
  /\ g.conds[1] = f.conds[1] /\ stack[n].start <= g.after

\* The frames when impl_branch starts its last loop.
LEMMA ConnectFrames ==
  ASSUME IInv, stack # <<>>, NEW n, n \in Nat, n < Len(stack), stack[n].fn = "basic_block",
         NEW f, stack[n + 1] = f, f.fn = "branch",
         NEW g, Puts(stack, stack', n, g),
         NEW A, NEW lab, NEW l, NEW out, NEW o, NEW open,
         Frames(src, blocks, A, lab, out, stack, open),
         StepStays(n, lab, l, out, o), ConnectsAt(n, f, g, A, l, o, open)
  PROVE  Frames(src', blocks', A, l, o, stack', open)
<1>1. Walking(src', blocks', A, l, o, g)
  BY DEF ConnectsAt, Connected, Walking
<1>2. Calling(src', blocks', A, l, o, stack[n], g, open[n + 1])
  <2>1. /\ blocks[f.conds[1]] # <<>> /\ blocks[f.conds[1]][1] = Eval(o[stack[n].last])
    BY DEF ConnectsAt, Calling
  <2> QED
    BY <2>1 DEF ConnectsAt, Calling
<1>3. Below(src', blocks', A, l, o, stack', open, n)
  <2>1. Kept(stack, stack', n)
    BY DEF Puts
  <2> QED
    BY <2>1, StepBelow
<1>4. g.fn # "basic_block" /\ n >= 1
  BY DEF ConnectsAt, StepStays
<1> QED
  BY <1>1, <1>2, <1>3, <1>4, FramesPut

LEMMA NoElseMeans ==
  ASSUME IInv, IInv', NEW m, NEW open, MeansWith(m, open), NoElse
  PROVE  Means'
<1> DEFINE N == Len(blocks)
           n == Len(stack) - 1
           L == Len(src)
           f == Frame
           J == Instruction(L, N)
<1>1. PICK g : g = ConnectFrame(f, N + 1, N + 1)
  OBVIOUS
<1>2. /\ Running("branch") /\ src' = src
      /\ blocks' = AppendBlock(blocks)
      /\ stack' = Append(SubSeq(stack, 1, n), g)
  BY <1>1 DEF NoElse, Pop
<1>3. /\ stack # <<>> /\ f.fn = "branch" /\ ArmsAreClosed(f) /\ IsBranch(f, N) /\ m \in Nat
      /\ n \in Nat /\ n >= 1 /\ n = 2 * m + 2 /\ n <= Len(stack) /\ n < Len(stack)
      /\ n \in 0 .. Len(stack) /\ n + 1 = Len(stack) /\ n \in 1 .. Len(stack) - 1
      /\ stack[n] = Caller /\ stack[n + 1] = f /\ Caller.fn = "basic_block"
      /\ Caller.last \in DOMAIN blocks /\ IsBody(Caller, N)
  BY <1>2, BetweenArms
<1>4. /\ src \in Seq(Token) /\ blocks \in Seq(Seq(J))
      /\ L \in Nat /\ N \in Nat /\ DOMAIN blocks = 1 .. N
      /\ Len(f.conds) = Len(f.ends)
  BY <1>3, StateFacts DEF ArmsAreClosed
<1>5. N + 1 \in Nat /\ \A x \in 1 .. N : x < N + 1 /\ x <= N + 1
  <2> HIDE DEF N
  <2> QED
    BY <1>4
<1>6. /\ g.fn = "connect" /\ g.starts = f.starts /\ g.ends = f.ends
      /\ g.after = N + 1 /\ g.i = 1
      /\ \A j \in DOMAIN f.conds : g.conds[j] = f.conds[j]
      /\ g.conds[Len(f.conds) + 1] = N + 1 /\ g.conds[1] = f.conds[1]
      /\ f.conds[1] \in DOMAIN blocks
  <2> DEFINE x == N + 1
  <2>1. g = ConnectFrame(f, x, x)
    BY <1>1
  <2> HIDE DEF f, x
  <2>2. /\ g.fn = "connect" /\ g.starts = f.starts /\ g.ends = f.ends
        /\ g.after = x /\ g.i = 1
        /\ \A j \in DOMAIN f.conds : g.conds[j] = f.conds[j]
        /\ g.conds[Len(f.conds) + 1] = x /\ g.conds[1] = f.conds[1]
        /\ f.conds[1] \in 1 .. N
    BY <1>3, <2>1, ConnectEntries
  <2> QED
    BY <1>4, <2>2 DEF x
<1>7. Puts(stack, stack', n, g)
  <2>1. PICK S : stack \in Seq(S)
    BY StateFacts
  <2> HIDE DEF n
  <2> QED
    BY <1>2, <1>3, <2>1, PutsFacts
<1>8. <<>> \in Seq(J) /\ Len(<<>>) <= 1
  OBVIOUS
<1>9. Added(blocks, blocks', <<>>)
  <2> HIDE DEF J
  <2> QED
    BY <1>2, <1>4, <1>8, AddedContent DEF AppendBlock
<1>10. /\ \A b \in DOMAIN blocks : blocks'[b] = blocks[b]
       /\ blocks'[N + 1] = <<>>
  BY <1>9 DEF Added
<1>11. Grown(src, src')
  BY <1>2 DEF Grown
<1>12. Placed(EvaluatedIn(src'), blocks')
  <2>1. Placed(EvaluatedIn(src), blocks)
    BY DEF MeansWith
  <2> HIDE DEF J
  <2> QED
    BY <1>2, <1>4, <1>8, <2>1, PlacedNew DEF AppendBlock
<1>13. Len(stack') = n + 1 /\ stack' # <<>> /\ Running("branch")' = FALSE
  <2>1. Len(stack') = n + 1 /\ stack'[n + 1] = g
    BY <1>7 DEF Puts
  <2>2. stack' # <<>>
    <3>1. Len(stack') # 0
      BY <1>3, <2>1
    <3> QED
      BY <3>1
  <2> QED
    BY <1>6, <2>1, <2>2 DEF Running
<1>14. ASSUME NEW A \in [Nat -> Nat], Respects(src', A), ~PlainElse(src')
       PROVE  \E lab, out : /\ Preserves(src', blocks', A, lab, out, FALSE)
                            /\ Frames(src', blocks', A, lab, out, stack', open)
  <2>1. PICK lab, out : /\ Preserves(src, blocks, A, lab, out, Running("branch"))
                        /\ Frames(src, blocks, A, lab, out, stack, open)
    BY <1>3, <1>11, <1>14, MeansBefore
  <2>2. Preserves(src, blocks, A, lab, out, FALSE)
    BY <2>1, PreservesBetween DEF Running
  <2>3. A[L + 1] \in Nat
    BY <1>4
  <2>4. PICK l, o : Promised(src, blocks, A, lab, out, FALSE, A[L + 1], l, o)
    BY <1>4, <2>2, <2>3, PreservesEmpty
  <2>5. /\ Preserves(src', blocks', A, l, o, FALSE)
        /\ \A b \in DOMAIN blocks : l[b] = lab[b] /\ o[b] = out[b]
        /\ l[N + 1] = A[L + 1] /\ o[N + 1] = A[L + 1]
    BY <1>2, <2>4 DEF Promised
  <2>6. /\ Arms(src, blocks, A, lab, out, f, L + 1)
        /\ Calling(src, blocks, A, lab, out, stack[n], stack[n + 1], open[n + 1])
    BY <1>3, <2>1 DEF Frames, Walking, Below
  <2>7. Connected(src', blocks', A, l, o, g, Len(src') + 1)
    <3>1. PICK x : x = N + 1
      OBVIOUS
    <3>2. PICK e : e = L + 1
      OBVIOUS
    <3>3. \A c \in DOMAIN src : c + 1 = e => l[x] = Skips(src', A, c)
      <4> SUFFICES ASSUME NEW c \in DOMAIN src, c + 1 = e
                   PROVE  l[x] = Skips(src', A, c)
        OBVIOUS
      <4>1. src \in Seq(Token) /\ src' = src /\ L = Len(src) /\ L \in Nat
        BY <1>2, <1>4
      <4>2. e = L + 1
        BY <3>2
      <4> HIDE DEF L, J, N
      <4>3. c \in Nat
        BY <4>1
      <4>4. c = Len(src') /\ c = L
        BY <4>1, <4>2, <4>3
      <4>5. ~(c < Len(src'))
        BY <4>1, <4>4
      <4>6. Skips(src', A, c) = A[L + 1]
        BY <4>4, <4>5 DEF Skips
      <4> QED
        BY <2>5, <3>1, <4>6
    <3>4. Stand(blocks, blocks', lab, l, out, o, DOMAIN blocks)
      BY <1>10, <2>5 DEF Stand
    <3>5. \A b \in DOMAIN blocks : Leads(blocks, lab, out, b, 1, lab[b])
      BY <2>2 DEF Preserves
    <3>6. Connecting(src, src', blocks, blocks', A, lab, l, out, o, f, g, e, x)
      BY <1>3, <1>4, <1>6, <1>11, <3>1, <3>3, <3>4, <3>5 DEF Connecting
    <3>7. Arms(src, blocks, A, lab, out, f, e)
      BY <2>6, <3>2
    <3> HIDE DEF f, J, n
    <3>8. Connected(src', blocks', A, l, o, g, e)
      BY <1>4, <3>6, <3>7, ArmsConnect
    <3> QED
      BY <1>2, <3>2, <3>8
  <2>8. \A j \in 1 .. Len(g.ends) : g.ends[j] < g.after
    <3>1. DOMAIN f.ends = 1 .. Len(f.ends) /\ \A j \in DOMAIN f.ends : f.ends[j] \in 1 .. N
      BY <1>3, BranchParts
    <3> HIDE DEF f, N
    <3> QED
      BY <1>5, <1>6, <3>1
  <2>9. stack[n].start <= g.after
    <3>1. Caller.start \in 1 .. N
      BY <1>3 DEF IsBody
    <3> HIDE DEF n, N
    <3> QED
      BY <1>3, <1>5, <1>6, <3>1
  <2>10. Calling(src, blocks, A, l, o, stack[n], f, open[n + 1])
    <3>1. Calling(src, blocks, A, lab, out, stack[n], f, open[n + 1])
      BY <1>3, <2>6
    <3>2. o[stack[n].last] = out[stack[n].last] /\ stack[n].fn = "basic_block"
      BY <1>3, <2>5
    <3> HIDE DEF n, f
    <3> QED
      BY <3>1, <3>2 DEF Calling
  <2>11. StepStays(n, lab, l, out, o)
    <3>1. \A b \in DOMAIN blocks \ Above(stack, n) : blocks'[b] = blocks[b] /\ o[b] = out[b]
      BY <1>10, <2>5
    <3> HIDE DEF n
    <3> QED
      BY <1>3, <1>11, <2>5, <3>1 DEF StepStays
  <2>12. ConnectsAt(n, f, g, A, l, o, open)
    <3>1. Len(src') + 1 = L + 1 /\ blocks'[f.conds[1]] = blocks[f.conds[1]]
      BY <1>2, <1>6, <1>10
    <3> HIDE DEF n, f, N
    <3> QED
      BY <1>6, <1>10, <2>5, <2>7, <2>8, <2>9, <2>10, <3>1 DEF ConnectsAt
  <2> HIDE DEF n, f
  <2>13. Frames(src', blocks', A, l, o, stack', open)
    <3>1. stack[n].fn = "basic_block"
      BY <1>3
    <3> QED
      BY <1>3, <1>7, <2>1, <2>11, <2>12, <3>1, ConnectFrames
  <2> QED
    BY <2>5, <2>13
<1>15. Nested(src', m, open) /\ Len(stack') \in {2 * m + 2, 2 * m + 3}
  <2>1. Nested(src', m, open)
    BY <1>2 DEF MeansWith
  <2>2. n + 1 = 2 * m + 3
    BY <1>3
  <2> QED
    BY <1>13, <2>1, <2>2
<1> QED
  BY <1>12, <1>13, <1>14, <1>15, MeansAfter

LEMMA EndElseMeans ==
  ASSUME IInv, IInv', NEW m, NEW open, MeansWith(m, open), EndElse
  PROVE  Means'
<1> DEFINE N == Len(blocks)
           n == Len(stack) - 2
           L == Len(src)
           f == Caller
           i == open[Len(stack)]
           a == Frame.last
<1>1. PICK g : g = ConnectFrame(f, f.orElse, a)
  OBVIOUS
<1>2. /\ Running("basic_block") /\ f.fn = "branch" /\ f.orElse # 0
      /\ src' = Append(src, "end") /\ blocks' = blocks
      /\ stack' = Append(SubSeq(stack, 1, n), g) /\ BodyHasStatement
  BY <1>1 DEF EndElse, Called, Pop
<1>3. /\ m \in Nat /\ m >= 1 /\ Len(stack) = 2 * m + 2
      /\ Nested(src', m - 1, open)
      /\ Closes(src', L + 1, i) /\ i \in DOMAIN src /\ i \in DOMAIN src'
      /\ src'[i] = src[i] /\ src[i] \in Opening
      /\ \A A \in [Nat -> Nat] : Respects(src', A) /\ ~PlainElse(src') =>
           \E lab, out : EndsBody(A, lab, out, open, i)
  BY <1>2, EndOfBody
<1>4. /\ stack # <<>> /\ IsBranch(f, N) /\ ArmIsOpen(f) /\ IsBody(Frame, N)
  BY <1>2, BodyFacts, RunningFacts, FrameKinds DEF Calls
<1>5. /\ n \in Nat /\ n >= 1 /\ n < Len(stack) /\ n \in 0 .. Len(stack) /\ n + 1 = Len(stack) - 1
      /\ stack[n + 1] = f /\ n = 2 * (m - 1) + 2 /\ n <= Len(stack) /\ m - 1 \in Nat
  <2>1. Len(stack) \in Nat
    BY StateFacts
  <2>2. m \in Nat /\ m >= 1 /\ Len(stack) = 2 * m + 2
    BY <1>3
  <2>3. /\ n \in Nat /\ n >= 1 /\ n < Len(stack) /\ n \in 0 .. Len(stack) /\ n + 1 = Len(stack) - 1
        /\ n = 2 * (m - 1) + 2 /\ n <= Len(stack) /\ m - 1 \in Nat
    BY <2>1, <2>2
  <2> QED
    BY <2>3 DEF Caller
<1>6. /\ g.fn = "connect" /\ g.starts = f.starts /\ g.ends = f.ends
      /\ g.after = a /\ g.i = 1
      /\ \A j \in DOMAIN f.conds : g.conds[j] = f.conds[j]
      /\ g.conds[Len(f.conds) + 1] = f.orElse /\ g.conds[1] = f.conds[1]
      /\ Len(f.conds) = Len(f.ends)
  <2> HIDE DEF f, N, a
  <2>1. /\ g.fn = "connect" /\ g.starts = f.starts /\ g.ends = f.ends
        /\ g.after = a /\ g.i = 1
        /\ \A j \in DOMAIN f.conds : g.conds[j] = f.conds[j]
        /\ g.conds[Len(f.conds) + 1] = f.orElse /\ g.conds[1] = f.conds[1]
    BY <1>1, <1>4, ConnectEntries
  <2>2. Len(f.conds) = Len(f.ends)
    BY <1>2, <1>4 DEF ArmIsOpen
  <2> QED
    BY <2>1, <2>2
<1>7. Puts(stack, stack', n, g)
  <2>1. PICK S : stack \in Seq(S)
    BY StateFacts
  <2> HIDE DEF n
  <2> QED
    BY <1>2, <1>5, <2>1, PutsFacts
<1>8. /\ src \in Seq(Token) /\ "end" \in Token /\ DOMAIN blocks = 1 .. N
  BY StateFacts DEF Token
<1>9. Grown(src, src')
  BY <1>2, <1>8 DEF Grown
<1>10. Len(src') = L + 1 /\ L \in Nat /\ L + 2 = (L + 1) + 1
       /\ src'[L + 1] = "end" /\ L + 1 \in DOMAIN src' /\ \A p \in 1 .. L : src'[p] = src[p]
       /\ DOMAIN src = 1 .. L
  BY <1>2, <1>8, SourceFacts
<1>11. Placed(EvaluatedIn(src'), blocks')
  BY <1>2, <1>8, EvaluatedNext DEF MeansWith
<1>12. Len(stack') = n + 1 /\ stack' # <<>> /\ Running("branch")' = FALSE
  <2>1. Len(stack') = n + 1 /\ stack'[n + 1] = g
    BY <1>7 DEF Puts
  <2>2. stack' # <<>>
    <3>1. Len(stack') # 0
      BY <1>5, <2>1
    <3> QED
      BY <3>1
  <2> QED
    BY <1>6, <2>1, <2>2 DEF Running
<1>13. ASSUME NEW A \in [Nat -> Nat], Respects(src', A), ~PlainElse(src')
       PROVE  \E lab, out : /\ Preserves(src', blocks', A, lab, out, FALSE)
                            /\ Frames(src', blocks', A, lab, out, stack', open)
  <2>1. PICK lab, out : EndsBody(A, lab, out, open, i)
    BY <1>3, <1>13
  <2>2. /\ Preserves(src', blocks', A, lab, out, FALSE)
        /\ Frames(src, blocks, A, lab, out, stack, open)
        /\ lab[Frame.start] = A[i + 1] /\ Frame.start <= a
        /\ out[a] = A[L + 1]
        /\ Calling(src, blocks, A, lab, out, f, Frame, i)
        /\ Calling(src, blocks, A, lab, out, stack[n], f, open[n + 1])
        /\ A[L + 1] = IF src[i] = "while" THEN i ELSE A[L + 2]
        /\ src[i] \in {"elseif", "else"} => A[i] = A[L + 2]
    BY <1>2, <1>5, <2>1 DEF EndsBody
  <2>3. /\ Arms(src, blocks, A, lab, out, f, i)
        /\ src[i] = "else" /\ Frame.start = f.orElse
        /\ \A j \in DOMAIN f.ends : f.ends[j] < f.orElse
    <3> HIDE DEF f, i
    <3> QED
      BY <1>2, <2>2 DEF Calling
  <2>4. A[i] = A[L + 2] /\ A[L + 1] = A[L + 2]
    BY <2>2, <2>3
  <2>5. blocks[a] = <<>>
    <3>1. L \in 1 .. L /\ src[L] \in Token /\ src[L] \notin Opening
      <4>1. src # <<>> /\ src[L] \notin Opening
        BY <1>2 DEF BodyHasStatement
      <4>2. L \in 1 .. L
        BY <1>8, <4>1
      <4> QED
        BY <1>8, <4>1, <4>2
    <3>2. src[L] # "stmt"
      <4>1. (L + 1) - 1 = L
        BY <1>10
      <4>2. src'[(L + 1) - 1] = src[L]
        BY <1>10, <3>1, <4>1
      <4> HIDE DEF i
      <4>3. src'[(L + 1) - 1] # "stmt"
        BY <1>3, <1>10, <1>13, <2>3 DEF PlainElse
      <4> QED
        BY <4>2, <4>3
    <3>3. src[L] \in {"return", "end"}
      BY <3>1, <3>2 DEF Token
    <3>4. Walking(src, blocks, A, lab, out, Frame)
      BY <1>4, <2>2 DEF Frames, Frame
    <3>5. Frame.fn = "basic_block"
      BY <1>2, BodyFacts
    <3>6. src # <<>>
      BY <1>2 DEF BodyHasStatement
    <3> QED
      BY <3>3, <3>4, <3>5, <3>6 DEF Walking
  <2>6. a \in DOMAIN blocks /\ Frame.start \in DOMAIN blocks
    BY <1>4, <1>8 DEF IsBody
  <2>7. lab[a] = A[L + 2]
    <3>1. Leads(blocks, lab, out, a, 1, lab[a])
      BY <1>2, <2>2, <2>6 DEF Preserves
    <3>2. Len(blocks[a]) = 0
      BY <2>5
    <3> HIDE DEF a
    <3> QED
      BY <2>2, <2>4, <3>1, <3>2 DEF Leads
  <2>8. Connected(src', blocks', A, lab, out, g, Len(src') + 1)
    <3>1. PICK e : e = i
      OBVIOUS
    <3>2. \A c \in DOMAIN src : c + 1 = e => lab[f.orElse] = Skips(src', A, c)
      <4> SUFFICES ASSUME NEW c \in DOMAIN src, c + 1 = e
                   PROVE  lab[f.orElse] = Skips(src', A, c)
        OBVIOUS
      <4>1. src'[c + 1] = "else"
        BY <1>3, <2>3, <3>1
      <4>2. c \in Nat /\ c < L + 1 /\ c + 2 = (c + 1) + 1
        <5>1. L \in Nat /\ c \in 1 .. L
          <6>1. L \in Nat
            BY <1>8
          <6>2. DOMAIN src = 1 .. L /\ c \in DOMAIN src
            BY <1>10
          <6> HIDE DEF L
          <6> QED
            BY <6>1, <6>2
        <5> HIDE DEF L
        <5> QED
          BY <5>1
      <4>3. Skips(src', A, c) = A[c + 2]
        BY <1>10, <4>1, <4>2 DEF Skips
      <4>4. A[c + 2] = A[i + 1]
        BY <3>1, <4>2
      <4> QED
        BY <2>2, <2>3, <4>3, <4>4
    <3>3. Stand(blocks, blocks', lab, lab, out, out, DOMAIN blocks)
      BY <1>2 DEF Stand
    <3>4. \A b \in DOMAIN blocks : Leads(blocks, lab, out, b, 1, lab[b])
      BY <1>2, <2>2 DEF Preserves
    <3>5. PICK x : x = f.orElse
      OBVIOUS
    <3>6. Connecting(src, src', blocks, blocks', A, lab, lab, out, out, f, g, e, x)
      BY <1>4, <1>6, <1>8, <1>9, <3>2, <3>3, <3>4, <3>5 DEF Connecting
    <3>7. Arms(src, blocks, A, lab, out, f, e)
      BY <2>3, <3>1
    <3> HIDE DEF f, i, n, N, L, a
    <3>8. Connected(src', blocks', A, lab, out, g, e)
      BY <1>8, <3>6, <3>7, ArmsConnect
    <3>9. A[e] = A[Len(src') + 1]
      BY <1>10, <2>4, <3>1
    <3> QED
      BY <3>8, <3>9 DEF Connected
  <2>9. \A j \in 1 .. Len(g.ends) : g.ends[j] < g.after
    <3>1. DOMAIN f.ends = 1 .. Len(f.ends) /\ \A j \in DOMAIN f.ends : f.ends[j] \in 1 .. N
      BY <1>4, BranchParts
    <3>2. a \in 1 .. N /\ Frame.start \in 1 .. N
      BY <1>4 DEF IsBody
    <3>3. \A x, y, z \in 1 .. N : x < y /\ y <= z => x < z
      OBVIOUS
    <3> HIDE DEF f, N, a
    <3> QED
      BY <1>6, <2>2, <2>3, <3>1, <3>2, <3>3
  <2>10. stack[n].start <= g.after /\ stack[n].fn = "basic_block"
         /\ f.conds[1] \in DOMAIN blocks
    <3>1. stack[n].fn = "basic_block" /\ IsBody(stack[n], N)
      BY <1>2, EnclosingFacts
    <3>2. stack[n].start < f.orElse
      BY <1>2, <2>2, <3>1 DEF Calling
    <3>3. stack[n].start \in 1 .. N
      BY <3>1 DEF IsBody
    <3>4. a \in 1 .. N /\ Frame.start \in 1 .. N
      BY <1>4 DEF IsBody
    <3>5. \A x, y, z \in 1 .. N : x < y /\ y <= z => x <= z
      OBVIOUS
    <3>6. f.conds[1] \in DOMAIN blocks
      <4>1. f.conds[1] \in 1 .. N
        BY <1>1, <1>4, ConnectEntries
      <4> QED
        BY <1>8, <4>1
    <3> HIDE DEF n, N, a, f
    <3> QED
      BY <1>6, <2>2, <2>3, <3>1, <3>2, <3>3, <3>4, <3>5, <3>6
  <2>11. StepStays(n, lab, lab, out, out)
    BY <1>2, <1>5, <1>9 DEF StepStays
  <2>12. ConnectsAt(n, f, g, A, lab, out, open)
    <3>1. A[L + 2] = A[Len(src') + 1]
      BY <1>10
    <3> HIDE DEF n, f, N, a, L
    <3> QED
      BY <1>2, <1>6, <2>2, <2>4, <2>5, <2>7, <2>8, <2>9, <2>10, <3>1 DEF ConnectsAt
  <2> HIDE DEF n, f
  <2>13. Frames(src', blocks', A, lab, out, stack', open)
    BY <1>2, <1>4, <1>5, <1>7, <2>2, <2>10, <2>11, <2>12, ConnectFrames
  <2> QED
    BY <2>2, <2>13
<1>14. PICK k : k = m - 1
  OBVIOUS
<1>15. Nested(src', k, open) /\ Len(stack') \in {2 * k + 2, 2 * k + 3}
  <2>1. n + 1 = 2 * k + 3
    BY <1>5, <1>14
  <2> QED
    BY <1>3, <1>12, <1>14, <2>1
<1> QED
  BY <1>11, <1>12, <1>13, <1>15, MeansAfter

-----------------------------------------------------------------------------
(* A turn of the last loop of impl_branch.                                 *)

\* A block that begins keeps its beginning.
LEMMA EmitBegins ==
  ASSUME NEW S, NEW bs \in Seq(Seq(S)), NEW b \in DOMAIN bs, NEW ins \in S,
         NEW a \in DOMAIN bs, bs[a] # <<>>
  PROVE  LET cs == Emit(bs, b, ins) IN
         a \in DOMAIN cs /\ cs[a] # <<>> /\ cs[a][1] = bs[a][1]
<1> DEFINE cs == Emit(bs, b, ins)
<1>1. cs \in Seq(Seq(S)) /\ Emitted(bs, cs, b, ins)
  BY EmitContent
<1> HIDE DEF cs
<1>2. bs[a] \in Seq(S) /\ cs[a] \in Seq(S) /\ a \in DOMAIN cs
  BY <1>1 DEF Emitted
<1>3. Len(bs[a]) \in Nat /\ Len(bs[a]) >= 1 /\ 1 \in 1 .. Len(bs[a])
  BY <1>2
<1>4. cs[a] # <<>> /\ cs[a][1] = bs[a][1]
  <2>1. CASE a # b
    BY <1>1, <2>1 DEF Emitted
  <2>2. CASE a = b
    <3>1. Len(cs[a]) = Len(bs[a]) + 1 /\ cs[a][1] = bs[a][1]
      BY <1>1, <1>3, <2>2 DEF Emitted
    <3>2. Len(cs[a]) # 0
      BY <1>3, <3>1
    <3> QED
      BY <3>1, <3>2
  <2> QED
    BY <2>1, <2>2
<1> QED
  BY <1>2, <1>4 DEF cs

\* Condition t, whose body ends at p, gets its two ways at this turn.
Turns(s, bs, A, lab, out, f, t, p) ==
  /\ IsConnect(f, Len(bs)) /\ f.i < Len(f.conds)
  /\ ArmAt(s, bs, A, lab, f, f.i, t, p) /\ lab[f.conds[f.i + 1]] = Skips(s, A, p)
  /\ out[f.ends[f.i]] = lab[f.after] /\ f.ends[f.i] < f.after
  /\ ~HasTerminator(bs[f.ends[f.i]])
Turned(bs, f) ==
  Emit(Emit(bs, f.conds[f.i], CondBr(f.starts[f.i], f.conds[f.i + 1])),
       f.ends[f.i], Br(f.after))

CanTurn(s, bs, A, lab, out, f) ==
  /\ s \in Seq(Token) /\ bs \in Seq(Seq(Instruction(Len(s), Len(bs)))) /\ Clean(bs)
  /\ A \in [Nat -> Nat] /\ Preserves(s, bs, A, lab, out, FALSE)
  /\ \E t, p \in DOMAIN s : Turns(s, bs, A, lab, out, f, t, p)
HasTurned(s, bs, A, lab, out, f) ==
  \E o : /\ Preserves(s, Turned(bs, f), A, lab, o, FALSE)
         /\ \A a \in DOMAIN bs \ {f.ends[f.i]} : o[a] = out[a]

\* The blocks after a turn.
LEMMA PreservesTurn ==
  ASSUME NEW s, NEW bs, NEW A, NEW lab, NEW out, NEW f, CanTurn(s, bs, A, lab, out, f)
  PROVE  HasTurned(s, bs, A, lab, out, f)
<1> DEFINE n == Len(s)
<1>1. /\ s \in Seq(Token) /\ bs \in Seq(Seq(Instruction(n, Len(bs)))) /\ Clean(bs)
      /\ A \in [Nat -> Nat] /\ Preserves(s, bs, A, lab, out, FALSE) /\ n \in Nat
  <2>1. s \in Seq(Token)
    BY DEF CanTurn
  <2>2. n \in Nat
    BY <2>1
  <2> QED
    BY <2>2 DEF CanTurn
<1>2. PICK t \in DOMAIN s, p \in DOMAIN s : Turns(s, bs, A, lab, out, f, t, p)
  BY DEF CanTurn
<1> DEFINE N == Len(bs)
           c == f.conds[f.i]
           e == f.ends[f.i]
           yes == f.starts[f.i]
           no == f.conds[f.i + 1]
           I == Instruction(n, N)
           ds == Emit(bs, c, CondBr(yes, no))
           after == f.after
           o == [out EXCEPT ![e] = out[e]]
<1>3. /\ IsConnect(f, N) /\ f.i < Len(f.conds)
      /\ bs[c] = <<Eval(t)>> /\ s[t] \in {"if", "elseif"} /\ Closes(s, p, t)
      /\ lab[yes] = A[t + 1] /\ lab[no] = Skips(s, A, p)
      /\ out[e] = lab[after] /\ e < after /\ ~HasTerminator(bs[e])
  BY <1>2 DEF Turns, ArmAt
<1>4. N \in Nat /\ DOMAIN bs = 1 .. N
  BY <1>1
<1>5. c # e /\ yes \in 1 .. N /\ no \in 1 .. N
  <2> HIDE DEF N
  <2> QED
    BY <1>3, <1>4, OneTurn
<1>6. c \in 1 .. N /\ e \in 1 .. N /\ after \in 1 .. N
  <2> HIDE DEF N
  <2>1. /\ after \in 1 .. N /\ Len(f.ends) \in Nat
        /\ Len(f.conds) = Len(f.ends) + 1 /\ f.i \in 1 .. Len(f.ends) + 1
        /\ \A j \in 1 .. Len(f.ends) + 1 : f.conds[j] \in 1 .. N
        /\ \A j \in 1 .. Len(f.ends) : f.ends[j] \in 1 .. N
    <3>1. /\ f \in [fn : {"connect"}, conds : Seq(1 .. N), starts : Seq(1 .. N),
                    ends : Seq(1 .. N), after : 1 .. N, i : Nat]
          /\ Len(f.ends) \in Nat
          /\ Len(f.conds) = Len(f.ends) + 1 /\ f.i \in 1 .. Len(f.ends) + 1
          /\ \A j \in 1 .. Len(f.ends) + 1 : f.conds[j] \in 1 .. N
          /\ \A j \in 1 .. Len(f.ends) : f.ends[j] \in 1 .. N
      BY <1>3, <1>4, ConnectRecord
    <3> QED
      BY <3>1
  <2>2. f.i \in 1 .. Len(f.ends)
    <3>1. PICK C, i : C = Len(f.ends) /\ i = f.i
      OBVIOUS
    <3>2. C \in Nat /\ i \in 1 .. C + 1 /\ i < C + 1
      BY <1>3, <2>1, <3>1
    <3>3. i \in 1 .. C
      BY <3>2
    <3> QED
      BY <3>1, <3>3
  <2> QED
    BY <2>1, <2>2
<1>7. s[t] # "stmt" /\ lab[no] = NotTaken(s, A, t, p)
  BY <1>3 DEF NotTaken
<1> HIDE DEF c, e, yes, no, after, n
<1>8. /\ CondBr(yes, no) \in I /\ IsTerminator(CondBr(yes, no)) /\ Br(after) \in I
      /\ Br(after).op = "br" /\ Br(after).to = after
  BY <1>5, <1>6 DEF Instruction, CondBr, Br, IsTerminator
<1>9. Preserves(s, ds, A, lab, out, FALSE)
  <2>1. c \in DOMAIN bs /\ yes \in DOMAIN bs /\ no \in DOMAIN bs
    BY <1>4, <1>5, <1>6
  <2> HIDE DEF N
  <2> QED
    BY <1>1, <1>3, <1>7, <2>1, PreservesConnect
<1>10. ~HasTerminator(bs[c])
  <2>1. Len(bs[c]) = 1 /\ bs[c][1] = Eval(t) /\ ~IsTerminator(Eval(t))
    BY <1>3 DEF IsTerminator, Eval
  <2> QED
    BY <2>1 DEF HasTerminator
<1>11. bs \in Seq(Seq(I)) /\ c \in DOMAIN bs /\ e \in DOMAIN bs
  BY <1>1, <1>4, <1>6
<1> HIDE DEF I, N
<1>12. /\ ds \in Seq(Seq(I)) /\ Len(ds) = N /\ DOMAIN ds = DOMAIN bs
       /\ \A a \in DOMAIN bs \ {c} : ds[a] = bs[a]
       /\ Clean(ds)
  <2> DEFINE x == CondBr(yes, no)
  <2>1. x \in I
    BY <1>8
  <2> HIDE DEF x
  <2>2. /\ Emit(bs, c, x) \in Seq(Seq(I)) /\ Len(Emit(bs, c, x)) = Len(bs)
        /\ DOMAIN Emit(bs, c, x) = DOMAIN bs
        /\ \A a \in DOMAIN bs \ {c} : Emit(bs, c, x)[a] = bs[a]
        /\ HasTerminator(Emit(bs, c, x)[c]) <=> IsTerminator(x)
        /\ Clean(bs) /\ ~HasTerminator(bs[c]) => Clean(Emit(bs, c, x))
    <3>1. bs \in Seq(Seq(I)) /\ c \in DOMAIN bs
      BY <1>11
    <3> HIDE DEF ds, o
    <3>2. Emit(bs, c, x) \in Seq(Seq(I))
      BY <2>1, <3>1, EmitFacts
    <3>3. Len(Emit(bs, c, x)) = Len(bs)
      BY <2>1, <3>1, EmitFacts
    <3>4. DOMAIN Emit(bs, c, x) = DOMAIN bs
      BY <2>1, <3>1, EmitFacts
    <3>5. \A a \in DOMAIN bs \ {c} : Emit(bs, c, x)[a] = bs[a]
      BY <2>1, <3>1, EmitFacts
    <3>6. HasTerminator(Emit(bs, c, x)[c]) <=> IsTerminator(x)
      BY <2>1, <3>1, EmitFacts
    <3>7. Clean(bs) /\ ~HasTerminator(bs[c]) => Clean(Emit(bs, c, x))
      BY <2>1, <3>1, EmitFacts
    <3> QED
      BY <3>2, <3>3, <3>4, <3>5, <3>6, <3>7
  <2> QED
    BY <1>1, <1>10, <2>2 DEF x, N
<1> HIDE DEF ds
<1>13. e \in DOMAIN ds /\ ~HasTerminator(ds[e]) /\ ds[e] = bs[e]
  BY <1>3, <1>5, <1>11, <1>12
<1>14. out \in [DOMAIN bs -> Int] /\ out[e] \in Int
  <2>1. out \in [DOMAIN bs -> Int]
    BY <1>1 DEF Preserves
  <2> QED
    BY <1>11, <2>1
<1>15. Preserves(s, Emit(ds, e, Br(after)), A, lab, o, FALSE)
  <2>1. after > e
    BY <1>3, <1>4, <1>6
  <2>2. PICK ins : ins = Br(after)
    OBVIOUS
  <2>3. /\ ds \in Seq(Seq(Instruction(n, Len(ds)))) /\ ins \in Instruction(n, Len(ds))
    BY <1>8, <1>12, <2>2 DEF I
  <2>4. /\ ins.op # "condbr" /\ ins.op # "eval" /\ MeetsIn(lab, ins) = out[e]
        /\ ins.to > e
    BY <1>3, <1>8, <2>1, <2>2 DEF MeetsIn
  <2>5. PICK v : v = out[e]
    OBVIOUS
  <2>6. Preserves(s, Emit(ds, e, ins), A, lab, [out EXCEPT ![e] = v], FALSE)
    BY <1>1, <1>9, <1>12, <1>13, <1>14, <2>3, <2>4, <2>5, PreservesEmit
  <2> QED
    BY <2>2, <2>5, <2>6
<1>16. \A a \in DOMAIN bs \ {e} : o[a] = out[a]
  BY <1>14
<1>17. Turned(bs, f) = Emit(ds, e, Br(after))
  BY DEF Turned, ds, c, e, yes, no, after
<1> QED
  BY <1>15, <1>16, <1>17 DEF e, HasTurned

\* The arms that are not connected yet stand as they did.
LEMMA WalkingTurn ==
  ASSUME NEW s, NEW bs, NEW cs, NEW A, NEW lab, NEW out, NEW o,
         NEW f, NEW N \in Nat, IsConnect(f, N), f.i < Len(f.conds),
         DOMAIN bs = 1 .. N,
         \A a \in DOMAIN bs \ {f.conds[f.i], f.ends[f.i]} : cs[a] = bs[a],
         \A a \in DOMAIN bs \ {f.ends[f.i]} : o[a] = out[a],
         Walking(s, bs, A, lab, out, f)
  PROVE  Walking(s, cs, A, lab, o, [f EXCEPT !.i = @ + 1])
<1> DEFINE g == [f EXCEPT !.i = @ + 1]
           C == Len(f.ends)
           c == f.conds[f.i]
           e == f.ends[f.i]
<1>1. /\ f \in [fn : {"connect"}, conds : Seq(1 .. N), starts : Seq(1 .. N),
                ends : Seq(1 .. N), after : 1 .. N, i : Nat]
      /\ C \in Nat /\ DOMAIN f.ends = 1 .. C
      /\ Len(f.conds) = C + 1
      /\ f.i \in 1 .. C + 1
      /\ \A j \in 1 .. C + 1 : f.conds[j] \in 1 .. N
      /\ \A j \in 1 .. C : f.ends[j] \in 1 .. N /\ f.starts[j] \in 1 .. N
      /\ \A j \in 1 .. C : f.conds[j] # f.after /\ f.ends[j] # f.after
      /\ \A j, m \in 1 .. C :
           /\ f.conds[j] # f.ends[m]
           /\ j # m => f.conds[j] # f.conds[m] /\ f.ends[j] # f.ends[m]
  BY ConnectRecord
<1>2. /\ g.fn = "connect" /\ g.conds = f.conds /\ g.starts = f.starts /\ g.ends = f.ends
      /\ g.after = f.after /\ g.i = f.i + 1 /\ f.fn = "connect" /\ f.after \in 1 .. N
  BY <1>1
<1>3. f.i \in 1 .. C
  <2> HIDE DEF C
  <2> QED
    BY <1>1
<1> HIDE DEF g
<1>4. /\ \A j \in f.i .. C :
           /\ out[f.ends[j]] = A[Len(s) + 1] /\ f.ends[j] < f.after
           /\ \E t, p \in DOMAIN s :
                ArmAt(s, bs, A, lab, f, j, t, p) /\ lab[f.conds[j + 1]] = Skips(s, A, p)
      /\ lab[f.after] = A[Len(s) + 1] /\ out[f.after] = A[Len(s) + 1]
      /\ bs[f.after] = <<>>
  BY <1>2 DEF Walking
<1>5. cs[f.after] = <<>> /\ o[f.after] = out[f.after]
  <2>1. f.after # c /\ f.after # e /\ f.after \in DOMAIN bs
    BY <1>1, <1>2, <1>3
  <2> QED
    BY <1>4, <2>1
<1>6. ASSUME NEW j \in f.i + 1 .. C
      PROVE  /\ o[f.ends[j]] = A[Len(s) + 1] /\ f.ends[j] < f.after
             /\ \E t, p \in DOMAIN s :
                  ArmAt(s, cs, A, lab, g, j, t, p) /\ lab[f.conds[j + 1]] = Skips(s, A, p)
  <2>1. j \in f.i .. C /\ j \in 1 .. C /\ j # f.i /\ j \in 1 .. C + 1
    <3> HIDE DEF C
    <3>1. C \in Nat /\ f.i \in 1 .. C
      BY <1>1, <1>3
    <3>2. PICK i : i = f.i
      OBVIOUS
    <3> QED
      BY <3>1, <3>2
  <2>2. /\ f.conds[j] # c /\ f.conds[j] # e /\ f.ends[j] # e
        /\ f.conds[j] \in DOMAIN bs /\ f.ends[j] \in DOMAIN bs
    BY <1>1, <1>3, <2>1
  <2>3. cs[f.conds[j]] = bs[f.conds[j]] /\ o[f.ends[j]] = out[f.ends[j]]
    BY <2>2
  <2>4. PICK t, p \in DOMAIN s :
          ArmAt(s, bs, A, lab, f, j, t, p) /\ lab[f.conds[j + 1]] = Skips(s, A, p)
    BY <1>4, <2>1
  <2>5. ArmAt(s, cs, A, lab, g, j, t, p)
    BY <1>2, <2>3, <2>4 DEF ArmAt
  <2> QED
    BY <1>4, <2>1, <2>3, <2>4, <2>5
<1>7. Walking(s, cs, A, lab, o, g)
  BY <1>2, <1>4, <1>5, <1>6 DEF Walking
<1> QED
  BY <1>7 DEF g

\* A turn evaluates nothing, and the blocks begin as they did.
LEMMA PlacedTurn ==
  ASSUME NEW n \in Nat, NEW bs, bs \in Seq(Seq(Instruction(n, Len(bs)))), NEW E, Placed(E, bs),
         NEW f, IsConnect(f, Len(bs)), f.i < Len(f.conds)
  PROVE  /\ Placed(E, Turned(bs, f))
         /\ \A a \in DOMAIN bs : bs[a] # <<>> =>
              Turned(bs, f)[a] # <<>> /\ Turned(bs, f)[a][1] = bs[a][1]
         /\ \A a \in DOMAIN bs \ {f.conds[f.i], f.ends[f.i]} : Turned(bs, f)[a] = bs[a]
<1> DEFINE N == Len(bs)
           I == Instruction(n, N)
           c == f.conds[f.i]
           e == f.ends[f.i]
           x == CondBr(f.starts[f.i], f.conds[f.i + 1])
           y == Br(f.after)
           ds == Emit(bs, c, x)
           cs == Emit(ds, e, y)
<1>1. N \in Nat /\ DOMAIN bs = 1 .. N /\ bs \in Seq(Seq(I))
  OBVIOUS
<1>2. /\ f.after \in 1 .. N /\ Len(f.ends) \in Nat
      /\ Len(f.conds) = Len(f.ends) + 1 /\ f.i \in 1 .. Len(f.ends) + 1
      /\ \A j \in 1 .. Len(f.ends) + 1 : f.conds[j] \in 1 .. N
      /\ \A j \in 1 .. Len(f.ends) : f.ends[j] \in 1 .. N
      /\ f.starts[f.i] \in 1 .. N /\ f.conds[f.i + 1] \in 1 .. N
  <2> HIDE DEF N
  <2>1. /\ f \in [fn : {"connect"}, conds : Seq(1 .. N), starts : Seq(1 .. N),
                  ends : Seq(1 .. N), after : 1 .. N, i : Nat]
        /\ Len(f.ends) \in Nat
        /\ Len(f.conds) = Len(f.ends) + 1 /\ f.i \in 1 .. Len(f.ends) + 1
        /\ \A j \in 1 .. Len(f.ends) + 1 : f.conds[j] \in 1 .. N
        /\ \A j \in 1 .. Len(f.ends) : f.ends[j] \in 1 .. N
    BY <1>1, ConnectRecord DEF N
  <2>2. f.starts[f.i] \in 1 .. N /\ f.conds[f.i + 1] \in 1 .. N
    BY <1>1, OneTurn DEF N
  <2> QED
    BY <2>1, <2>2
<1>3. f.i \in 1 .. Len(f.ends)
  <2>1. PICK C, i : C = Len(f.ends) /\ i = f.i
    OBVIOUS
  <2>2. C \in Nat /\ i \in 1 .. C + 1 /\ i < C + 1
    BY <1>2, <2>1
  <2>3. i \in 1 .. C
    BY <2>2
  <2> QED
    BY <2>1, <2>3
<1>4. c \in DOMAIN bs /\ e \in DOMAIN bs
  BY <1>1, <1>2, <1>3
<1>5. x \in I /\ x.op = "condbr" /\ y \in I /\ y.op = "br"
  BY <1>2 DEF Instruction, CondBr, Br
<1> HIDE DEF c, e, x, y, I, N
<1>6. ds \in Seq(Seq(I)) /\ Emitted(bs, ds, c, x)
  BY <1>1, <1>4, <1>5, EmitContent
<1>7. Placed(E, ds)
  <2>1. Evaluating(E, E, x)
    BY <1>5 DEF Evaluating
  <2> QED
    BY <1>1, <1>4, <1>5, <2>1, PlacedEmit
<1>8. \A a \in DOMAIN bs : bs[a] # <<>> => ds[a] # <<>> /\ ds[a][1] = bs[a][1]
  <2> SUFFICES ASSUME NEW a \in DOMAIN bs, bs[a] # <<>>
               PROVE  Emit(bs, c, x)[a] # <<>> /\ Emit(bs, c, x)[a][1] = bs[a][1]
    OBVIOUS
  <2>1. bs \in Seq(Seq(I)) /\ c \in DOMAIN bs /\ x \in I
    BY <1>1, <1>4, <1>5
  <2> QED
    BY <2>1, EmitBegins
<1> HIDE DEF ds
<1>9. DOMAIN ds = DOMAIN bs
  BY <1>6 DEF Emitted
<1>10. e \in DOMAIN ds
  BY <1>4, <1>9
<1>11. cs \in Seq(Seq(I)) /\ Emitted(ds, cs, e, y)
  BY <1>5, <1>6, <1>10, EmitContent
<1>12. Placed(E, cs)
  <2>1. Evaluating(E, E, y)
    BY <1>5 DEF Evaluating
  <2> QED
    BY <1>5, <1>6, <1>7, <1>10, <2>1, PlacedEmit
<1>13. \A a \in DOMAIN ds : ds[a] # <<>> => cs[a] # <<>> /\ cs[a][1] = ds[a][1]
  BY <1>5, <1>6, <1>10, EmitBegins
<1>14. Turned(bs, f) = cs
  BY DEF Turned, cs, ds, c, e, x, y
<1> HIDE DEF cs
<1>15. \A a \in DOMAIN bs \ {c, e} : cs[a] = bs[a]
  BY <1>6, <1>9, <1>11 DEF Emitted
<1>16. \A a \in DOMAIN bs : bs[a] # <<>> => cs[a] # <<>> /\ cs[a][1] = bs[a][1]
  BY <1>8, <1>9, <1>13
<1> QED
  BY <1>12, <1>14, <1>15, <1>16 DEF c, e

LEMMA ConnectArmMeans ==
  ASSUME IInv, IInv', NEW m, NEW open, MeansWith(m, open), ConnectArm
  PROVE  Means'
<1> DEFINE N == Len(blocks)
           n == Len(stack) - 1
           L == Len(src)
           f == Frame
           J == Instruction(L, N)
           c == f.conds[f.i]
           e == f.ends[f.i]
<1>1. PICK g : g = [f EXCEPT !.i = @ + 1]
  OBVIOUS
<1>2. /\ Running("connect") /\ f.i < Len(f.conds) /\ src' = src
      /\ blocks' = Turned(blocks, f)
      /\ stack' = Append(SubSeq(stack, 1, n), g)
  BY <1>1 DEF ConnectArm, Pop, Turned
<1>3. stack # <<>> /\ f.fn = "connect" /\ IsConnect(f, N)
  BY <1>2, ConnectFacts
<1>4. /\ n \in Nat /\ n >= 1 /\ n < Len(stack) /\ n \in 0 .. Len(stack)
      /\ n + 1 = Len(stack) /\ stack[n] = Caller /\ stack[n + 1] = f
      /\ Caller.fn = "basic_block" /\ Caller.last \in DOMAIN blocks
      /\ Caller.last \notin Owed(f)
      /\ Above(stack, n) = Owed(f)
      /\ N \in Nat /\ L \in Nat /\ Len(stack) \in Nat
      /\ DOMAIN blocks = 1 .. N /\ src \in Seq(Token)
      /\ blocks \in Seq(Seq(J))
  <2>1. Owed(Caller) \cap Owed(f) = {} /\ Owed(Caller) \subseteq DOMAIN blocks
    BY <1>3, RunningFacts
  <2>2. Owed(Caller) = {Caller.last}
    BY <1>3, CallerIsBody
  <2> QED
    BY <1>3, <2>1, <2>2, CallerIsBody, StateFacts
<1>5. m \in Nat /\ n = 2 * m + 2 /\ n <= Len(stack) /\ n \in 1 .. Len(stack) - 1
      /\ n + 1 = 2 * m + 3
  <2>1. m \in Nat /\ Len(stack) = 2 * m + 3
    BY <1>3, PlaceOnStack
  <2> QED
    BY <1>4, <2>1
<1>6. /\ {c, e} \subseteq Owed(f) /\ f.conds[1] \in DOMAIN blocks
      /\ ~HasTerminator(blocks[e])
      /\ g.fn = "connect" /\ g.conds = f.conds /\ g.after = f.after
  <2>1. {c, e} \subseteq Owed(f)
    BY <1>2, <1>3, <1>4, OneTurn
  <2>2. \A b \in Owed(f) : ~HasTerminator(blocks[b])
    BY <1>3, RunningFacts
  <2>3. f \in [fn : {"connect"}, conds : Seq(1 .. N), starts : Seq(1 .. N),
               ends : Seq(1 .. N), after : 1 .. N, i : Nat]
    BY <1>3, <1>4, ConnectRecord
  <2>4. f.conds[1] \in 1 .. N
    <3>1. /\ Len(f.ends) \in Nat /\ \A j \in 1 .. Len(f.ends) + 1 : f.conds[j] \in 1 .. N
      BY <1>3, <1>4, ConnectRecord
    <3>2. 1 \in 1 .. Len(f.ends) + 1
      BY <3>1
    <3> QED
      BY <3>1, <3>2
  <2> QED
    BY <1>1, <1>4, <2>1, <2>2, <2>3, <2>4
<1>7. f.i \in f.i .. Len(f.ends)
  <2>1. PICK C, i : C = Len(f.ends) /\ i = f.i
    OBVIOUS
  <2>2. C \in Nat /\ i \in 1 .. C + 1 /\ i < C + 1
    BY <1>2, <1>3, <1>4, <2>1, ConnectRecord
  <2>3. i \in i .. C
    BY <2>2
  <2> QED
    BY <2>1, <2>3
<1>8. Puts(stack, stack', n, g)
  <2>1. PICK S : stack \in Seq(S)
    BY StateFacts
  <2> HIDE DEF n
  <2> QED
    BY <1>2, <1>4, <2>1, PutsFacts
<1>9. Grown(src, src')
  BY <1>2 DEF Grown
<1> HIDE DEF f
<1>10. /\ Placed(EvaluatedIn(src), blocks')
       /\ \A a \in DOMAIN blocks : blocks[a] # <<>> =>
            blocks'[a] # <<>> /\ blocks'[a][1] = blocks[a][1]
       /\ \A a \in DOMAIN blocks \ {c, e} : blocks'[a] = blocks[a]
  <2>1. Placed(EvaluatedIn(src), blocks)
    BY DEF MeansWith
  <2>2. blocks \in Seq(Seq(Instruction(L, Len(blocks)))) /\ L \in Nat
    BY <1>4
  <2>3. IsConnect(f, Len(blocks)) /\ f.i < Len(f.conds)
    BY <1>2, <1>3
  <2> HIDE DEF L, N, J, c, e
  <2>4. /\ Placed(EvaluatedIn(src), Turned(blocks, f))
        /\ \A a \in DOMAIN blocks : blocks[a] # <<>> =>
             Turned(blocks, f)[a] # <<>> /\ Turned(blocks, f)[a][1] = blocks[a][1]
        /\ \A a \in DOMAIN blocks \ {f.conds[f.i], f.ends[f.i]} : Turned(blocks, f)[a] = blocks[a]
    BY <2>1, <2>2, <2>3, PlacedTurn
  <2> QED
    BY <1>2, <2>4 DEF c, e
<1>11. Len(stack') = n + 1 /\ stack' # <<>> /\ Running("branch")' = FALSE
  <2>1. Len(stack') = n + 1 /\ stack'[n + 1] = g
    BY <1>8 DEF Puts
  <2>2. stack' # <<>>
    <3>1. Len(stack') # 0
      BY <1>4, <2>1
    <3> QED
      BY <3>1
  <2> QED
    BY <1>6, <2>1, <2>2 DEF Running
<1>12. Clean(blocks)
  BY DEF IInv
<1> HIDE DEF c, e, J
<1>13. ASSUME NEW A \in [Nat -> Nat], Respects(src', A), ~PlainElse(src')
       PROVE  \E lab, out : /\ Preserves(src', blocks', A, lab, out, FALSE)
                            /\ Frames(src', blocks', A, lab, out, stack', open)
  <2>1. PICK lab, out : /\ Preserves(src, blocks, A, lab, out, Running("branch"))
                        /\ Frames(src, blocks, A, lab, out, stack, open)
    BY <1>3, <1>9, <1>13, MeansBefore
  <2>2. Preserves(src, blocks, A, lab, out, FALSE)
    BY <2>1, PreservesBetween DEF Running
  <2>3. /\ Walking(src, blocks, A, lab, out, f)
        /\ Calling(src, blocks, A, lab, out, stack[n], f, open[n + 1])
    <3>1. Calling(src, blocks, A, lab, out, stack[n], stack[n + 1], open[n + 1])
      BY <1>3, <1>5, <2>1 DEF Frames, Below
    <3>2. Walking(src, blocks, A, lab, out, stack[Len(stack)])
      BY <1>3, <2>1 DEF Frames
    <3>3. stack[Len(stack)] = f
      BY DEF Frame, f
    <3> QED
      BY <1>4, <3>1, <3>2, <3>3
  <2>4. PICK t \in DOMAIN src, p \in DOMAIN src : Turns(src, blocks, A, lab, out, f, t, p)
    <3>1. /\ out[f.ends[f.i]] = A[L + 1] /\ f.ends[f.i] < f.after
          /\ \E t, p \in DOMAIN src :
               ArmAt(src, blocks, A, lab, f, f.i, t, p) /\ lab[f.conds[f.i + 1]] = Skips(src, A, p)
      BY <1>3, <1>7, <2>3 DEF Walking
    <3>2. lab[f.after] = A[L + 1]
      BY <1>3, <2>3 DEF Walking
    <3> HIDE DEF L
    <3> QED
      BY <1>2, <1>3, <1>6, <3>1, <3>2 DEF Turns, e
  <2>5. PICK o : /\ Preserves(src, blocks', A, lab, o, FALSE)
                 /\ \A a \in DOMAIN blocks \ {e} : o[a] = out[a]
    <3>1. \E o : /\ Preserves(src, Turned(blocks, f), A, lab, o, FALSE)
                 /\ \A a \in DOMAIN blocks \ {f.ends[f.i]} : o[a] = out[a]
      <4>1. src \in Seq(Token) /\ blocks \in Seq(Seq(Instruction(L, Len(blocks))))
        BY <1>4 DEF J
      <4>2. CanTurn(src, blocks, A, lab, out, f)
        BY <1>12, <1>13, <2>2, <2>4, <4>1 DEF CanTurn
      <4>3. HasTurned(src, blocks, A, lab, out, f)
        BY <4>2, PreservesTurn
      <4> QED
        BY <4>3 DEF HasTurned
    <3> QED
      BY <1>2, <3>1 DEF e
  <2>6. Walking(src', blocks', A, lab, o, g)
    <3>1. Walking(src, blocks', A, lab, o, [f EXCEPT !.i = @ + 1])
      <4>1. \A a \in DOMAIN blocks \ {f.conds[f.i], f.ends[f.i]} : blocks'[a] = blocks[a]
        BY <1>10 DEF c, e
      <4>2. \A a \in DOMAIN blocks \ {f.ends[f.i]} : o[a] = out[a]
        BY <2>5 DEF e
      <4>3. N \in Nat /\ DOMAIN blocks = 1 .. N /\ IsConnect(f, N) /\ f.i < Len(f.conds)
        BY <1>2, <1>3, <1>4
      <4> HIDE DEF N
      <4> QED
        BY <2>3, <4>1, <4>2, <4>3, WalkingTurn, Zenon
    <3> QED
      BY <1>1, <1>2, <3>1
  <2>7. Calling(src', blocks', A, lab, o, stack[n], g, open[n + 1])
    <3>1. stack[n].fn = "basic_block" /\ o[stack[n].last] = out[stack[n].last]
      <4>1. Caller.last # e
        BY <1>4, <1>6
      <4> QED
        BY <1>4, <2>5, <4>1
    <3>2. /\ blocks[f.conds[1]] # <<>> /\ blocks[f.conds[1]][1] = Eval(out[stack[n].last])
          /\ stack[n].start <= f.after
      BY <1>3, <2>3, <3>1 DEF Calling
    <3>3. blocks'[f.conds[1]] # <<>> /\ blocks'[f.conds[1]][1] = Eval(o[stack[n].last])
      BY <1>6, <1>10, <3>1, <3>2
    <3> HIDE DEF n
    <3> QED
      BY <1>6, <3>1, <3>2, <3>3 DEF Calling
  <2>8. StepStays(n, lab, lab, out, o)
    <3>1. \A b \in DOMAIN blocks \ Above(stack, n) : blocks'[b] = blocks[b] /\ o[b] = out[b]
      BY <1>4, <1>6, <1>10, <2>5
    <3> HIDE DEF n
    <3> QED
      BY <1>4, <1>5, <1>9, <3>1 DEF StepStays
  <2> HIDE DEF n
  <2>9. Below(src', blocks', A, lab, o, stack', open, n)
    <3>1. Kept(stack, stack', n)
      BY <1>8 DEF Puts
    <3> QED
      BY <1>3, <2>1, <2>8, <3>1, StepBelow
  <2>10. Frames(src', blocks', A, lab, o, stack', open)
    <3>1. g.fn # "basic_block"
      BY <1>6
    <3> QED
      BY <1>4, <1>8, <2>6, <2>7, <2>9, <3>1, FramesPut
  <2> QED
    BY <1>2, <2>5, <2>10
<1>14. Nested(src', m, open) /\ Len(stack') \in {2 * m + 2, 2 * m + 3}
  <2>1. Nested(src', m, open)
    BY <1>2 DEF MeansWith
  <2> QED
    BY <1>5, <1>11, <2>1
<1>15. Placed(EvaluatedIn(src'), blocks')
  BY <1>2, <1>10
<1> QED
  BY <1>3, <1>11, <1>13, <1>14, <1>15, MeansAfter

-----------------------------------------------------------------------------
(* A statement that made blocks ends: its enclosing body goes on after it. *)

\* bs are the blocks before the body that frame n + 1 walks jumps to start and
\* goes on at end.
Joining(n, bs, A, lab, l, out, o, start, end, open) ==
  LET f == stack[n + 1] IN
  /\ n \in Nat /\ n >= 1 /\ n < Len(stack)
  /\ f.fn = "basic_block" /\ IsBody(f, Len(blocks))
  /\ blocks' = Emit(bs, f.last, Br(start))
  /\ stack' = Append(SubSeq(stack, 1, n), [f EXCEPT !.last = end])
  /\ Grown(src, src') /\ src' \in Seq(Token)
  /\ bs \in Seq(Seq(Instruction(Len(src'), Len(bs)))) /\ Clean(bs)
  /\ A \in [Nat -> Nat] /\ Frames(src, blocks, A, lab, out, stack, open)
  /\ Preserves(src', bs, A, l, o, FALSE)
  /\ \A b \in DOMAIN blocks : l[b] = lab[b]
  /\ \A b \in DOMAIN blocks \ Above(stack, n) : bs[b] = blocks[b] /\ o[b] = out[b]
  /\ DOMAIN blocks \subseteq DOMAIN bs
  /\ f.last \in DOMAIN bs /\ ~HasTerminator(bs[f.last])
  /\ start \in DOMAIN bs /\ Begins(bs, start) /\ l[start] = o[f.last]
  /\ end \in DOMAIN bs /\ bs[end] = <<>> /\ end # f.last /\ f.start <= end
  /\ o[end] = A[Len(src') + 1]
Joined(A, open) ==
  \E l, o : Preserves(src', blocks', A, l, o, FALSE) /\ Frames(src', blocks', A, l, o, stack', open)

\* impl_basic_block jumps to the first block of the statement that ends and goes
\* on in its last one.
LEMMA JoinMeans ==
  ASSUME IInv, stack # <<>>, NEW n, NEW bs, NEW A, NEW lab, NEW l, NEW out, NEW o,
         NEW start, NEW end, NEW open,
         Joining(n, bs, A, lab, l, out, o, start, end, open)
  PROVE  Joined(A, open)
<1> DEFINE f == stack[n + 1]
           L == Len(src')
           N == Len(bs)
           J == Instruction(L, N)
           last == f.last
<1>1. PICK g : g = [f EXCEPT !.last = end]
  OBVIOUS
<1>2. PICK x : x = [o EXCEPT ![last] = o[last]]
  OBVIOUS
<1>3. PICK ins : ins = Br(start)
  OBVIOUS
<1>4. /\ n \in Nat /\ n >= 1 /\ n < Len(stack)
      /\ f.fn = "basic_block" /\ IsBody(f, Len(blocks))
      /\ blocks' = Emit(bs, last, ins) /\ stack' = Append(SubSeq(stack, 1, n), g)
      /\ Grown(src, src') /\ src' \in Seq(Token)
      /\ bs \in Seq(Seq(J)) /\ Clean(bs)
      /\ A \in [Nat -> Nat] /\ Frames(src, blocks, A, lab, out, stack, open)
      /\ Preserves(src', bs, A, l, o, FALSE)
  BY <1>1, <1>3 DEF Joining
<1>5. /\ \A b \in DOMAIN blocks : l[b] = lab[b]
      /\ \A b \in DOMAIN blocks \ Above(stack, n) : bs[b] = blocks[b] /\ o[b] = out[b]
      /\ DOMAIN blocks \subseteq DOMAIN bs
      /\ last \in DOMAIN bs /\ ~HasTerminator(bs[last])
      /\ start \in DOMAIN bs /\ Begins(bs, start) /\ l[start] = o[last]
      /\ end \in DOMAIN bs /\ bs[end] = <<>> /\ end # last /\ f.start <= end
      /\ o[end] = A[L + 1]
  BY DEF Joining
<1>6. Len(stack) \in Nat /\ n \in 0 .. Len(stack) /\ n + 1 \in n + 1 .. Len(stack) /\ n <= Len(stack)
  <2>1. Len(stack) \in Nat
    BY StateFacts
  <2>2. PICK M : M = Len(stack)
    OBVIOUS
  <2>3. M \in Nat /\ n \in Nat /\ n >= 1 /\ n < M
    BY <1>4, <2>1, <2>2
  <2>4. n \in 0 .. M /\ n + 1 \in n + 1 .. M /\ n <= M
    BY <2>3
  <2> QED
    BY <2>2, <2>3, <2>4
<1>7. last \in Above(stack, n)
  <2>1. Owed(f) = {last}
    BY <1>4, OwedFacts
  <2> QED
    BY <1>6, <2>1 DEF Above
<1>8. g.fn = "basic_block" /\ g.start = f.start /\ g.last = end
  <2>1. f \in [fn : {"basic_block"}, start : 1 .. Len(blocks), last : 1 .. Len(blocks)]
    BY <1>4 DEF IsBody
  <2> QED
    BY <1>1, <2>1
<1>9. Puts(stack, stack', n, g)
  <2>1. PICK S : stack \in Seq(S)
    BY StateFacts
  <2> QED
    BY <1>4, <1>6, <2>1, PutsFacts
<1> HIDE DEF last, f
<1>10. L \in Nat /\ N \in Nat /\ DOMAIN bs = 1 .. N
  <2>1. L \in Nat
    BY <1>4
  <2>2. N \in Nat /\ DOMAIN bs = 1 .. N
    <3> HIDE DEF J
    <3> QED
      BY <1>4
  <2> QED
    BY <2>1, <2>2
<1>11. ins \in J /\ ins.op = "br" /\ ins.to = start /\ MeetsIn(l, ins) = o[last]
  <2>1. start \in 1 .. N
    BY <1>5, <1>10
  <2>2. ins.op = "br" /\ ins.to = start
    BY <1>3 DEF Br
  <2>3. ins \in J
    BY <1>3, <2>1 DEF Br, Instruction
  <2> QED
    BY <1>5, <2>2, <2>3 DEF MeetsIn
<1>12. o \in [DOMAIN bs -> Int] /\ o[last] \in Int
  <2>1. o \in [DOMAIN bs -> Int]
    BY <1>4 DEF Preserves
  <2> QED
    BY <1>5, <2>1
<1>13. Preserves(src', blocks', A, l, x, FALSE)
  <2>1. PICK v : v = o[last]
    OBVIOUS
  <2>2. bs \in Seq(Seq(Instruction(L, Len(bs)))) /\ ins \in Instruction(L, Len(bs))
    BY <1>4, <1>11
  <2>3. ins.op # "condbr" /\ ins.op # "eval" /\ v \in Int
        /\ (bs[last] = <<>> /\ ins.op = "br" => ins.to > last \/ Begins(bs, ins.to))
    BY <1>5, <1>11, <1>12, <2>1
  <2> HIDE DEF L, N, J
  <2>4. Preserves(src', Emit(bs, last, ins), A, l, [o EXCEPT ![last] = v], FALSE)
    BY <1>4, <1>5, <1>10, <1>11, <2>2, <2>3, PreservesEmit
  <2> QED
    BY <1>2, <1>4, <2>1, <2>4
<1>14. \A b \in DOMAIN bs : x[b] = o[b]
  BY <1>2, <1>5, <1>12
<1>15. /\ DOMAIN blocks' = DOMAIN bs
       /\ \A a \in DOMAIN bs \ {last} : blocks'[a] = bs[a]
  <2>1. bs \in Seq(Seq(J)) /\ last \in DOMAIN bs /\ ins \in J
    BY <1>4, <1>5, <1>11
  <2> HIDE DEF J
  <2>2. Emitted(bs, Emit(bs, last, ins), last, ins)
    BY <2>1, EmitContent
  <2> QED
    BY <1>4, <2>2 DEF Emitted
<1>16. StepStays(n, lab, l, out, x)
  <2>1. \A b \in DOMAIN blocks \ Above(stack, n) : blocks'[b] = blocks[b] /\ x[b] = out[b]
    BY <1>5, <1>7, <1>14, <1>15
  <2> QED
    BY <1>4, <1>5, <1>6, <2>1 DEF StepStays
<1>17. Walking(src', blocks', A, l, x, g)
  <2>1. blocks'[end] = <<>> /\ x[end] = A[L + 1]
    BY <1>5, <1>14, <1>15
  <2> QED
    BY <1>8, <2>1 DEF Walking
<1>18. Frames(src', blocks', A, l, x, stack', open)
  <2>1. stack[n + 1].fn = "basic_block" /\ g.start = stack[n + 1].start /\ g.start <= g.last
    BY <1>4, <1>5, <1>8 DEF f
  <2> QED
    BY <1>4, <1>8, <1>9, <1>16, <1>17, <2>1, BodyFrames
<1> QED
  BY <1>13, <1>18 DEF Joined

\* A block that begins with a condition is entered at it.
LEMMA EntersCondition ==
  ASSUME NEW S, NEW bs \in Seq(Seq(S)), NEW b \in DOMAIN bs, NEW lab, NEW out, NEW t,
         bs[b] # <<>>, bs[b][1] = Eval(t), Leads(bs, lab, out, b, 1, lab[b])
  PROVE  lab[b] = t /\ Begins(bs, b)
<1>1. bs[b] \in Seq(S)
  OBVIOUS
<1>2. 1 <= Len(bs[b])
  BY <1>1
<1>3. Eval(t).op = "eval" /\ Eval(t).token = t
  BY DEF Eval
<1> QED
  BY <1>2, <1>3 DEF Leads, MeetsIn, Begins

LEMMA EndBranchMeans ==
  ASSUME IInv, IInv', NEW m, NEW open, MeansWith(m, open), EndBranch
  PROVE  Means'
<1> DEFINE N == Len(blocks)
           n == Len(stack) - 2
           L == Len(src)
           f == stack[n + 1]
           J == Instruction(L, N)
           start == Frame.conds[1]
           end == Frame.after
           last == f.last
<1>1. /\ Running("connect") /\ Frame.i = Len(Frame.conds) /\ src' = src
      /\ AfterBlocks(blocks, Caller, SubSeq(stack, 1, n), start, end)
  BY DEF EndBranch, Pop
<1>2. stack # <<>> /\ Frame.fn = "connect" /\ IsConnect(Frame, N)
  BY <1>1, ConnectFacts
<1>3. /\ Len(stack) \in Nat /\ Len(stack) - 1 >= 2 /\ N \in Nat /\ DOMAIN blocks = 1 .. N
      /\ src \in Seq(Token) /\ L \in Nat /\ blocks \in Seq(Seq(J))
      /\ m \in Nat /\ Len(stack) = 2 * m + 3
  BY <1>2, CallerIsBody, PlaceOnStack, StateFacts
<1>4. /\ n \in Nat /\ n >= 1 /\ n < Len(stack) /\ n \in 0 .. Len(stack)
      /\ n + 1 = 2 * m + 2 /\ n + 1 = Len(stack) - 1 /\ n + 1 \in 1 .. Len(stack) - 1
      /\ (n + 1) + 1 = Len(stack)
  BY <1>3
<1>5. f = Caller /\ stack[(n + 1) + 1] = Frame
  BY <1>4 DEF Caller, Frame
<1>6. /\ f.fn = "basic_block" /\ IsBody(f, N) /\ Owed(f) = {last}
  BY <1>2, <1>5, CallerIsBody
<1>7. Owed(Frame) = {end} /\ start \in 1 .. N /\ end \in 1 .. N
  BY <1>1, <1>2, <1>3, NoTurnLeft
<1>8. /\ last # end /\ last \in DOMAIN blocks
      /\ ~HasTerminator(blocks[last]) /\ ~HasTerminator(blocks[end])
      /\ start \in DOMAIN blocks /\ end \in DOMAIN blocks
  BY <1>2, <1>3, <1>5, <1>6, <1>7, RunningFacts
<1> HIDE DEF start, end, last, J
<1>9. /\ blocks' = Emit(blocks, last, Br(start))
      /\ stack' = Append(SubSeq(stack, 1, n), [f EXCEPT !.last = end])
  BY <1>1, <1>5, <1>8 DEF AfterBlocks, last
<1>10. Clean(blocks)
  BY DEF IInv
<1>11. Grown(src, src')
  BY <1>1 DEF Grown
<1>12. Placed(EvaluatedIn(src'), blocks')
  <2>1. Placed(EvaluatedIn(src), blocks)
    BY DEF MeansWith
  <2>2. PICK ins : ins = Br(start)
    OBVIOUS
  <2>3. ins \in J /\ ins.op = "br"
    BY <1>7, <2>2 DEF Br, J, Instruction
  <2>4. Evaluating(EvaluatedIn(src), EvaluatedIn(src), ins)
    BY <2>3 DEF Evaluating
  <2>5. Placed(EvaluatedIn(src), Emit(blocks, last, ins))
    BY <1>3, <1>8, <2>1, <2>3, <2>4, PlacedEmit
  <2> QED
    BY <1>1, <1>9, <2>2, <2>5
<1>13. Len(stack') = n + 1 /\ stack' # <<>> /\ Running("branch")' = FALSE
  <2>1. PICK g : g = [f EXCEPT !.last = end]
    OBVIOUS
  <2>2. g.fn = "basic_block"
    BY <1>6, <2>1 DEF IsBody
  <2>3. PICK S : stack \in Seq(S)
    BY StateFacts
  <2>4. Puts(stack, stack', n, g)
    <3> HIDE DEF n, f
    <3> QED
      BY <1>4, <1>9, <2>1, <2>3, PutsFacts
  <2>5. Len(stack') = n + 1 /\ stack'[n + 1] = g
    BY <2>4 DEF Puts
  <2>6. stack' # <<>>
    <3>1. Len(stack') # 0
      BY <1>4, <2>5
    <3> QED
      BY <3>1
  <2> QED
    BY <2>2, <2>5, <2>6 DEF Running
<1>14. ASSUME NEW A \in [Nat -> Nat], Respects(src', A), ~PlainElse(src')
       PROVE  \E lab, out : /\ Preserves(src', blocks', A, lab, out, FALSE)
                            /\ Frames(src', blocks', A, lab, out, stack', open)
  <2>1. PICK lab, out : /\ Preserves(src, blocks, A, lab, out, Running("branch"))
                        /\ Frames(src, blocks, A, lab, out, stack, open)
    BY <1>2, <1>11, <1>14, MeansBefore
  <2>2. Preserves(src, blocks, A, lab, out, FALSE)
    BY <2>1, PreservesBetween DEF Running
  <2>3. /\ Walking(src, blocks, A, lab, out, Frame)
        /\ Calling(src, blocks, A, lab, out, f, Frame, open[(n + 1) + 1])
    <3>1. Walking(src, blocks, A, lab, out, stack[Len(stack)])
      BY <1>2, <2>1 DEF Frames
    <3>2. Calling(src, blocks, A, lab, out, stack[n + 1], stack[(n + 1) + 1], open[(n + 1) + 1])
      BY <1>2, <1>4, <2>1 DEF Frames, Below
    <3> QED
      BY <1>5, <3>1, <3>2 DEF Frame
  <2>4. out[end] = A[L + 1] /\ blocks[end] = <<>>
    BY <1>2, <2>3 DEF Walking, end
  <2>5. blocks[start] # <<>> /\ blocks[start][1] = Eval(out[last]) /\ f.start <= end
    <3> HIDE DEF n, f
    <3> QED
      BY <1>2, <1>6, <2>3 DEF Calling, start, end, last
  <2>6. lab[start] = out[last] /\ Begins(blocks, start)
    <3>1. Leads(blocks, lab, out, start, 1, lab[start])
      BY <1>8, <2>2 DEF Preserves
    <3> QED
      BY <1>3, <1>8, <2>5, <3>1, EntersCondition
  <2>7. Joining(n, blocks, A, lab, lab, out, out, start, end, open)
    <3>1. blocks \in Seq(Seq(Instruction(Len(src'), Len(blocks)))) /\ src' \in Seq(Token)
      BY <1>1, <1>3 DEF J
    <3>2. out[end] = A[Len(src') + 1] /\ Preserves(src', blocks, A, lab, out, FALSE)
      BY <1>1, <2>2, <2>4
    <3> HIDE DEF n, L, N
    <3> QED
      BY <1>4, <1>6, <1>8, <1>9, <1>10, <1>11, <1>14, <2>1, <2>4, <2>5, <2>6, <3>1, <3>2
      DEF Joining, last, N
  <2> HIDE DEF n
  <2>8. Joined(A, open)
    BY <1>2, <2>7, JoinMeans
  <2> QED
    BY <2>8 DEF Joined
<1>15. Nested(src', m, open) /\ Len(stack') \in {2 * m + 2, 2 * m + 3}
  <2>1. Nested(src', m, open)
    BY <1>1 DEF MeansWith
  <2> QED
    BY <1>4, <1>13, <2>1
<1> QED
  BY <1>12, <1>13, <1>14, <1>15, MeansAfter

-----------------------------------------------------------------------------
(* A loop ends.                                                            *)

\* The body from start to last of the loop whose condition is in block cond.
Loop(s, bs, cond, start, last) ==
  /\ s \in Seq(Token) /\ bs \in Seq(Seq(Instruction(Len(s), Len(bs)))) /\ Clean(bs)
  /\ {cond, start, last} \subseteq DOMAIN bs /\ cond # last
  /\ ~HasTerminator(bs[cond]) /\ ~HasTerminator(bs[last])
Looped(bs, cond, start, last) ==
  Emit(AppendBlock(Emit(bs, last, Br(cond))), cond, CondBr(start, Len(bs) + 1))

\* The blocks after a loop.
LEMMA LoopedFacts ==
  ASSUME NEW s, NEW bs, NEW cond, NEW start, NEW last, Loop(s, bs, cond, start, last)
  PROVE  LET cs == Looped(bs, cond, start, last) IN
         /\ cs \in Seq(Seq(Instruction(Len(s), Len(cs)))) /\ Clean(cs)
         /\ Len(cs) = Len(bs) + 1 /\ DOMAIN cs = DOMAIN bs \cup {Len(bs) + 1}
         /\ cs[Len(bs) + 1] = <<>> /\ (Begins(bs, cond) => Begins(cs, cond))
         /\ \A b \in DOMAIN bs \ {cond, last} : cs[b] = bs[b]
         /\ \A E : Placed(E, bs) => Placed(E, cs)
<1> DEFINE N == Len(bs)
           L == Len(s)
           I == Instruction(L, N + 1)
           y == Br(cond)
           x == CondBr(start, N + 1)
           ds == Emit(bs, last, y)
           e == <<>>
           mid == Append(ds, e)
           cs == Emit(mid, cond, x)
<1>1. /\ s \in Seq(Token) /\ bs \in Seq(Seq(Instruction(L, N))) /\ Clean(bs)
      /\ cond \in DOMAIN bs /\ start \in DOMAIN bs /\ last \in DOMAIN bs /\ cond # last
      /\ ~HasTerminator(bs[cond]) /\ ~HasTerminator(bs[last])
  BY DEF Loop
<1>2. L \in Nat /\ N \in Nat /\ DOMAIN bs = 1 .. N
  <2>1. L \in Nat
    BY <1>1
  <2>2. PICK J : J = Instruction(L, N)
    OBVIOUS
  <2> QED
    BY <1>1, <2>1, <2>2
<1>3. bs \in Seq(Seq(I))
  <2>1. N + 1 \in Nat /\ N <= N + 1 /\ L <= L
    <3> HIDE DEF N, L
    <3> QED
      BY <1>2
  <2> HIDE DEF L, N
  <2> QED
    BY <1>1, <1>2, <2>1, BlocksGrow
<1>4. x \in I /\ x.op = "condbr" /\ y \in I /\ y.op = "br" /\ IsTerminator(x) /\ IsTerminator(y)
      /\ e \in Seq(I) /\ Len(e) <= 1 /\ ~HasTerminator(e)
  <2>1. cond \in 1 .. N + 1 /\ start \in 1 .. N + 1 /\ N + 1 \in 1 .. N + 1
    <3>1. N \in Nat /\ cond \in 1 .. N /\ start \in 1 .. N
      BY <1>1, <1>2
    <3> HIDE DEF N
    <3> QED
      BY <3>1
  <2>2. x \in I /\ x.op = "condbr" /\ y \in I /\ y.op = "br" /\ IsTerminator(x) /\ IsTerminator(y)
    BY <2>1 DEF Instruction, CondBr, Br, IsTerminator
  <2>3. e \in Seq(I) /\ Len(e) <= 1 /\ ~HasTerminator(e)
    BY DEF HasTerminator
  <2> QED
    BY <2>2, <2>3
<1> HIDE DEF I, x, y, N, L
<1>5. ds \in Seq(Seq(I)) /\ Emitted(bs, ds, last, y)
  BY <1>1, <1>3, <1>4, EmitContent
<1>6. Clean(ds)
  BY <1>1, <1>3, <1>4, EmitFacts
<1>7. \A E : Placed(E, bs) => Placed(E, ds)
  <2> SUFFICES ASSUME NEW E, Placed(E, bs) PROVE Placed(E, Emit(bs, last, y))
    OBVIOUS
  <2>1. Evaluating(E, E, y)
    BY <1>4 DEF Evaluating
  <2> QED
    BY <1>1, <1>3, <1>4, <2>1, PlacedEmit
<1> HIDE DEF ds
<1>8. /\ Len(ds) = N /\ DOMAIN ds = DOMAIN bs
      /\ \A a \in DOMAIN bs \ {last} : ds[a] = bs[a]
  BY <1>5 DEF Emitted, N
<1> HIDE DEF e
<1>9. mid \in Seq(Seq(I)) /\ Added(ds, mid, e)
  BY <1>4, <1>5, AddedContent
<1>10. Clean(mid)
  BY <1>4, <1>5, <1>6, NewBlockFacts
<1>11. \A E : Placed(E, ds) => Placed(E, mid)
  <2> SUFFICES ASSUME NEW E, Placed(E, ds) PROVE Placed(E, Append(ds, e))
    OBVIOUS
  <2>1. e = <<>>
    BY DEF e
  <2> QED
    BY <1>4, <1>5, <2>1, PlacedNew
<1> HIDE DEF mid
<1>12. /\ Len(mid) = N + 1 /\ DOMAIN mid = DOMAIN bs \cup {N + 1} /\ N + 1 \notin DOMAIN bs
       /\ \A a \in DOMAIN bs : mid[a] = ds[a]
       /\ mid[N + 1] = <<>>
  BY <1>8, <1>9 DEF Added, e
<1>13. cond \in DOMAIN mid /\ mid[cond] = bs[cond] /\ cond # N + 1
  BY <1>1, <1>8, <1>12
<1>14. ~HasTerminator(mid[cond])
  BY <1>1, <1>13
<1>15. cs \in Seq(Seq(I)) /\ Emitted(mid, cs, cond, x)
  BY <1>4, <1>9, <1>13, EmitContent
<1>16. Clean(cs)
  <2>1. mid \in Seq(Seq(I)) /\ cond \in DOMAIN mid /\ x \in I
    BY <1>4, <1>9, <1>13
  <2>2. Clean(mid) /\ ~HasTerminator(mid[cond]) => Clean(Emit(mid, cond, x))
    BY <2>1, EmitFacts
  <2> QED
    BY <1>10, <1>14, <2>2
<1>17. \A E : Placed(E, mid) => Placed(E, cs)
  <2> SUFFICES ASSUME NEW E, Placed(E, mid) PROVE Placed(E, Emit(mid, cond, x))
    OBVIOUS
  <2>1. Evaluating(E, E, x)
    BY <1>4 DEF Evaluating
  <2> QED
    BY <1>4, <1>9, <1>13, <2>1, PlacedEmit
<1>18. Begins(bs, cond) => Begins(cs, cond)
  <2> SUFFICES ASSUME Begins(bs, cond) PROVE Begins(Emit(mid, cond, x), cond)
    OBVIOUS
  <2>1. mid[cond] # <<>> /\ mid[cond][1].op = "eval"
    BY <1>13 DEF Begins
  <2>2. mid \in Seq(Seq(I)) /\ cond \in DOMAIN mid /\ x \in I
    BY <1>4, <1>9, <1>13
  <2>3. \A a \in DOMAIN mid : mid[a] # <<>> =>
          Emit(mid, cond, x)[a] # <<>> /\ Emit(mid, cond, x)[a][1] = mid[a][1]
    BY <2>2, EmitBegins
  <2> QED
    BY <2>1, <2>2, <2>3 DEF Begins
<1>19. Looped(bs, cond, start, last) = cs
  BY DEF Looped, AppendBlock, cs, mid, ds, x, y, e, N
<1> HIDE DEF cs
<1>20. /\ Len(cs) = N + 1 /\ DOMAIN cs = DOMAIN bs \cup {N + 1} /\ cs[N + 1] = <<>>
       /\ \A b \in DOMAIN bs \ {cond, last} : cs[b] = bs[b]
  <2>1. Len(cs) = Len(mid) /\ DOMAIN cs = DOMAIN mid /\ \A a \in DOMAIN mid \ {cond} : cs[a] = mid[a]
    BY <1>15 DEF Emitted
  <2> QED
    BY <1>8, <1>12, <1>13, <2>1
<1>21. cs \in Seq(Seq(Instruction(Len(s), Len(cs))))
  BY <1>15, <1>20 DEF I, L
<1>22. \A E : Placed(E, bs) => Placed(E, cs)
  BY <1>7, <1>11, <1>17
<1> QED
  BY <1>16, <1>18, <1>19, <1>20, <1>21, <1>22 DEF N

\* The body leads back to the condition, which leads to the place after s.
LoopEnds(s, bs, A, lab, out, cond, start, last, i) ==
  /\ Loop(s, bs, cond, start, last) /\ bs[cond] = <<Eval(i)>>
  /\ A \in [Nat -> Nat] /\ Preserves(s, bs, A, lab, out, FALSE)
  /\ i \in DOMAIN s /\ s[i] = "while" /\ Closes(s, Len(s), i) /\ Len(s) \in DOMAIN s
  /\ lab[start] = A[i + 1] /\ out[last] = i
HasLooped(s, bs, A, lab, out, cond, start, last) ==
  \E l, o : /\ Preserves(s, Looped(bs, cond, start, last), A, l, o, FALSE)
            /\ \A b \in DOMAIN bs : l[b] = lab[b] /\ o[b] = out[b]
            /\ o[Len(bs) + 1] = A[Len(s) + 1]

\* They do what the source says.
LEMMA PreservesLoop ==
  ASSUME NEW s, NEW bs, NEW A, NEW lab, NEW out, NEW cond, NEW start, NEW last, NEW i,
         LoopEnds(s, bs, A, lab, out, cond, start, last, i)
  PROVE  /\ lab[cond] = i /\ Begins(bs, cond)
         /\ HasLooped(s, bs, A, lab, out, cond, start, last)
<1> DEFINE N == Len(bs)
           L == Len(s)
           I == Instruction(L, N)
           y == Br(cond)
           ds == Emit(bs, last, y)
           mid == AppendBlock(ds)
           p == [out EXCEPT ![last] = out[last]]
<1>1. /\ s \in Seq(Token) /\ bs \in Seq(Seq(I)) /\ Clean(bs)
      /\ cond \in DOMAIN bs /\ start \in DOMAIN bs /\ last \in DOMAIN bs /\ cond # last
      /\ bs[cond] = <<Eval(i)>> /\ ~HasTerminator(bs[last])
  BY DEF LoopEnds, Loop
<1>2. /\ A \in [Nat -> Nat] /\ Preserves(s, bs, A, lab, out, FALSE)
      /\ i \in DOMAIN s /\ s[i] = "while" /\ Closes(s, L, i) /\ L \in DOMAIN s
      /\ lab[start] = A[i + 1] /\ out[last] = i
  BY DEF LoopEnds
<1>3. L \in Nat /\ N \in Nat /\ DOMAIN bs = 1 .. N
  <2>1. L \in Nat
    BY <1>1
  <2> HIDE DEF I
  <2> QED
    BY <1>1, <2>1
<1>4. y \in I /\ y.op = "br" /\ y.to = cond
  <2>1. cond \in 1 .. N
    BY <1>1, <1>3
  <2> QED
    BY <2>1 DEF Br, Instruction
<1> HIDE DEF y, I, N, L
<1>5. lab[cond] = i /\ Begins(bs, cond)
  <2>1. Leads(bs, lab, out, cond, 1, lab[cond])
    BY <1>1, <1>2 DEF Preserves
  <2>2. bs[cond] # <<>> /\ bs[cond][1] = Eval(i)
    BY <1>1
  <2> QED
    BY <1>1, <2>1, <2>2, EntersCondition
<1>6. out \in [DOMAIN bs -> Int] /\ lab \in [DOMAIN bs -> Nat] /\ out[last] \in Int
  <2>1. out \in [DOMAIN bs -> Int] /\ lab \in [DOMAIN bs -> Nat]
    BY <1>2 DEF Preserves
  <2> QED
    BY <1>1, <2>1
<1>7. Preserves(s, ds, A, lab, p, FALSE)
  <2>1. MeetsIn(lab, y) = out[last]
    BY <1>2, <1>4, <1>5 DEF MeetsIn
  <2>2. PICK v : v = out[last]
    OBVIOUS
  <2>3. bs \in Seq(Seq(Instruction(L, Len(bs)))) /\ y \in Instruction(L, Len(bs))
    BY <1>1, <1>4 DEF I, N
  <2>4. y.op # "condbr" /\ y.op # "eval" /\ v \in Int
        /\ (bs[last] = <<>> /\ y.op = "br" => y.to > last \/ Begins(bs, y.to))
    BY <1>4, <1>5, <1>6, <2>2
  <2>5. Preserves(s, Emit(bs, last, y), A, lab, [out EXCEPT ![last] = v], FALSE)
    BY <1>1, <1>2, <1>3, <2>1, <2>3, <2>4, PreservesEmit
  <2> QED
    BY <2>2, <2>5
<1>8. \A b \in DOMAIN bs : p[b] = out[b]
  BY <1>1, <1>6
<1> HIDE DEF p
<1>9. /\ ds \in Seq(Seq(I)) /\ Len(ds) = N /\ DOMAIN ds = DOMAIN bs
      /\ \A a \in DOMAIN bs \ {last} : ds[a] = bs[a]
  <2>1. ds \in Seq(Seq(I)) /\ Emitted(bs, ds, last, y)
    BY <1>1, <1>4, EmitContent
  <2> QED
    BY <2>1 DEF Emitted, N
<1> HIDE DEF ds
<1>10. PICK x : x = A[L + 1]
  OBVIOUS
<1>11. PICK l, o : Promised(s, ds, A, lab, p, FALSE, x, l, o)
  <2>1. x \in Nat
    <3>1. L + 1 \in Nat
      BY <1>3
    <3>2. A \in [Nat -> Nat]
      BY <1>2
    <3>3. A[L + 1] \in Nat
      BY <3>1, <3>2
    <3> QED
      BY <1>10, <3>3
  <2>2. ds \in Seq(Seq(Instruction(L, Len(ds))))
    BY <1>9 DEF I
  <2> QED
    BY <1>1, <1>3, <1>7, <2>1, <2>2, PreservesEmpty
<1>12. /\ Preserves(s, mid, A, l, o, FALSE)
       /\ \A a \in DOMAIN bs : l[a] = lab[a] /\ o[a] = out[a]
       /\ l[N + 1] = x /\ o[N + 1] = x
  BY <1>8, <1>9, <1>11 DEF Promised
<1>13. /\ mid \in Seq(Seq(I)) /\ Len(mid) = N + 1 /\ DOMAIN mid = DOMAIN bs \cup {N + 1}
       /\ \A a \in DOMAIN bs : mid[a] = ds[a]
  <2>1. <<>> \in Seq(I)
    OBVIOUS
  <2>2. mid \in Seq(Seq(I)) /\ Added(ds, mid, <<>>)
    BY <1>9, <2>1, AddedContent DEF AppendBlock
  <2> QED
    BY <1>9, <2>2 DEF Added
<1> HIDE DEF mid
<1>14. mid \in Seq(Seq(Instruction(L, Len(mid))))
  <2>1. N + 1 \in Nat /\ N <= N + 1 /\ L <= L
    BY <1>3
  <2> QED
    BY <1>3, <1>13, <2>1, BlocksGrow DEF I
<1>15. Preserves(s, Emit(mid, cond, CondBr(start, N + 1)), A, l, o, FALSE)
  <2>1. PICK no : no = N + 1
    OBVIOUS
  <2>2. cond \in DOMAIN mid /\ start \in DOMAIN mid /\ no \in DOMAIN mid
    BY <1>1, <1>13, <2>1
  <2>3. mid[cond] = <<Eval(i)>>
    BY <1>1, <1>9, <1>13
  <2>4. s[i] # "stmt" /\ l[start] = A[i + 1]
    BY <1>1, <1>2, <1>12
  <2>5. l[no] = NotTaken(s, A, i, L)
    BY <1>2, <1>10, <1>12, <2>1 DEF NotTaken
  <2>6. Preserves(s, Emit(mid, cond, CondBr(start, no)), A, l, o, FALSE)
    <3>1. s \in Seq(Token) /\ L \in Nat /\ L \in DOMAIN s /\ Closes(s, L, i)
          /\ Preserves(s, mid, A, l, o, FALSE)
      BY <1>1, <1>2, <1>3, <1>12
    <3> QED
      BY <1>14, <2>2, <2>3, <2>4, <2>5, <3>1, PreservesConnect
  <2> QED
    BY <2>1, <2>6
<1>16. Looped(bs, cond, start, last) = Emit(mid, cond, CondBr(start, N + 1))
  BY DEF Looped, mid, ds, y, N
<1> QED
  BY <1>5, <1>10, <1>12, <1>15, <1>16 DEF HasLooped, N, L

LEMMA EndWhileMeans ==
  ASSUME IInv, IInv', NEW m, NEW open, MeansWith(m, open), EndWhile
  PROVE  Means'
<1> DEFINE N == Len(blocks)
           n == Len(stack) - 3
           L == Len(src)
           f == stack[n + 1]
           i == open[Len(stack)]
           cond == Caller.cond
           start == Frame.start
           last == Frame.last
           after == N + 1
           outer == f.last
           bs == Looped(blocks, cond, start, last)
<1>1. /\ Running("basic_block") /\ Caller.fn = "while" /\ src' = Append(src, "end")
      /\ AfterBlocks(bs, stack[Len(stack) - 2], SubSeq(stack, 1, n), cond, after)
  BY DEF EndWhile, Called, Pop, Looped
<1>2. /\ m \in Nat /\ m >= 1 /\ Len(stack) = 2 * m + 2
      /\ Nested(src', m - 1, open)
      /\ Closes(src', L + 1, i) /\ i \in DOMAIN src /\ i \in DOMAIN src'
      /\ src'[i] = src[i] /\ src[i] \in Opening
      /\ \A A \in [Nat -> Nat] : Respects(src', A) /\ ~PlainElse(src') =>
           \E lab, out : EndsBody(A, lab, out, open, i)
  BY <1>1, EndOfBody
<1>3. /\ stack # <<>> /\ IsBody(Frame, N) /\ Owed(Frame) = {last}
      /\ Owed(Caller) = {cond}
      /\ N \in Nat /\ L \in Nat /\ Len(stack) \in Nat
      /\ DOMAIN blocks = 1 .. N /\ src \in Seq(Token)
      /\ blocks \in Seq(Seq(Instruction(L, N)))
  BY <1>1, BodyFacts, RunningFacts, FrameKinds, OwedFacts, StateFacts
<1>4. /\ n \in Nat /\ n >= 1 /\ n < Len(stack) /\ n \in 0 .. Len(stack)
      /\ n + 1 = Len(stack) - 2 /\ n + 1 = 2 * (m - 1) + 2 /\ m - 1 \in Nat
  <2>1. Len(stack) >= 4
    BY <1>1, EnclosingFacts
  <2>2. Len(stack) \in Nat /\ m \in Nat /\ m >= 1 /\ Len(stack) = 2 * m + 2
    BY <1>2, <1>3
  <2> QED
    BY <2>1, <2>2
<1>5. f = stack[Len(stack) - 2]
  BY <1>4
<1>6. /\ f.fn = "basic_block" /\ IsBody(f, N) /\ Owed(f) = {outer}
      /\ outer # cond /\ outer # last /\ outer \in DOMAIN blocks
      /\ ~HasTerminator(blocks[outer])
      /\ Above(stack, n) = {outer, cond, last}
  <2>1. LET h == stack[Len(stack) - 2] IN
        /\ Len(stack) >= 4
        /\ IsBody(h, Len(blocks)) /\ Owed(h) = {h.last} /\ h.fn = "basic_block"
        /\ Owed(h) \cap Owed(Caller) = {} /\ Owed(h) \cap Owed(Frame) = {}
        /\ h.last \in DOMAIN blocks /\ ~HasTerminator(blocks[h.last])
        /\ Above(stack, Len(stack) - 3) = {h.last} \cup Owed(Caller) \cup Owed(Frame)
    BY <1>1, EnclosingFacts
  <2> QED
    BY <1>3, <1>5, <2>1
<1>7. /\ cond # last /\ cond \in DOMAIN blocks /\ last \in DOMAIN blocks
      /\ ~HasTerminator(blocks[last]) /\ ~HasTerminator(blocks[cond]) /\ start \in DOMAIN blocks
  BY <1>3, RunningFacts DEF IsBody
<1>8. Clean(blocks)
  BY DEF IInv
<1>9. Len(src') = L + 1 /\ src' \in Seq(Token) /\ L + 1 \in DOMAIN src' /\ "end" \in Token
      /\ (L + 1) + 1 = L + 2
  <2>1. "end" \in Token
    BY DEF Token
  <2>2. Len(src') = L + 1 /\ src' \in Seq(Token) /\ L + 1 \in DOMAIN src'
    BY <1>1, <1>3, <2>1, SourceFacts
  <2> QED
    BY <1>3, <2>1, <2>2
<1>10. Grown(src, src')
  BY <1>1, <1>9 DEF Grown
<1>11. blocks \in Seq(Seq(Instruction(Len(src'), N)))
  <2>1. L + 1 \in Nat /\ L <= L + 1 /\ N <= N
    <3> HIDE DEF L, N
    <3> QED
      BY <1>3
  <2> HIDE DEF L, N
  <2> QED
    BY <1>3, <1>9, <2>1, BlocksGrow
<1> HIDE DEF f, i, cond, start, last, outer
<1>12. Loop(src', blocks, cond, start, last)
  BY <1>7, <1>8, <1>9, <1>11 DEF Loop
<1>13. /\ bs \in Seq(Seq(Instruction(Len(src'), Len(bs)))) /\ Clean(bs)
       /\ Len(bs) = N + 1 /\ DOMAIN bs = DOMAIN blocks \cup {N + 1}
       /\ bs[N + 1] = <<>> /\ (Begins(blocks, cond) => Begins(bs, cond))
       /\ \A b \in DOMAIN blocks \ {cond, last} : bs[b] = blocks[b]
       /\ \A E : Placed(E, blocks) => Placed(E, bs)
  BY <1>12, LoopedFacts
<1> HIDE DEF bs
<1>14. after \notin DOMAIN blocks /\ after \in DOMAIN bs /\ DOMAIN bs = 1 .. N + 1
       /\ \A x \in 1 .. N : x <= after
  <2>1. N \in Nat /\ DOMAIN blocks = 1 .. N
    BY <1>3
  <2> HIDE DEF N
  <2> QED
    BY <1>13, <2>1
<1> HIDE DEF after
<1>15. /\ bs[outer] = blocks[outer] /\ ~HasTerminator(bs[outer]) /\ outer \in DOMAIN bs
       /\ outer # after /\ cond \in DOMAIN bs
  BY <1>6, <1>7, <1>13, <1>14
<1>16. /\ blocks' = Emit(bs, outer, Br(cond))
       /\ stack' = Append(SubSeq(stack, 1, n), [f EXCEPT !.last = after])
  <2>1. AfterBlocks(bs, f, SubSeq(stack, 1, n), cond, after)
    BY <1>1, <1>5
  <2> QED
    BY <1>15, <2>1 DEF AfterBlocks, outer
<1>17. Placed(EvaluatedIn(src'), blocks')
  <2>1. Placed(EvaluatedIn(src), blocks)
    BY DEF MeansWith
  <2>2. EvaluatedIn(src') = EvaluatedIn(src)
    <3>1. src \in Seq(Token) /\ "end" \in Token
      BY <1>3, <1>9
    <3> QED
      BY <1>1, <3>1, EvaluatedNext
  <2>3. PICK J : J = Instruction(Len(src'), Len(bs))
    OBVIOUS
  <2>4. PICK ins : ins = Br(cond)
    OBVIOUS
  <2>5. ins \in J /\ ins.op = "br"
    <3>1. cond \in 1 .. Len(bs)
      BY <1>13, <1>14, <1>15
    <3> QED
      BY <2>3, <2>4, <3>1 DEF Br, Instruction
  <2>6. PICK E : E = EvaluatedIn(src)
    OBVIOUS
  <2>7. Evaluating(E, E, ins)
    BY <2>5 DEF Evaluating
  <2>8. Placed(E, bs) /\ bs \in Seq(Seq(J))
    BY <1>13, <2>1, <2>3, <2>6
  <2>9. Placed(E, Emit(bs, outer, ins))
    BY <1>15, <2>5, <2>7, <2>8, PlacedEmit
  <2> QED
    BY <1>16, <2>2, <2>4, <2>6, <2>9
<1>18. Len(stack') = n + 1 /\ stack' # <<>> /\ Running("branch")' = FALSE
  <2>1. PICK g : g = [f EXCEPT !.last = after]
    OBVIOUS
  <2>2. g.fn = "basic_block"
    BY <1>6, <2>1 DEF IsBody
  <2>3. PICK S : stack \in Seq(S)
    BY StateFacts
  <2>4. Puts(stack, stack', n, g)
    <3> HIDE DEF n
    <3> QED
      BY <1>4, <1>16, <2>1, <2>3, PutsFacts
  <2>5. Len(stack') = n + 1 /\ stack'[n + 1] = g
    BY <2>4 DEF Puts
  <2>6. stack' # <<>>
    <3>1. Len(stack') # 0
      BY <1>4, <2>5
    <3> QED
      BY <3>1
  <2> QED
    BY <2>2, <2>5, <2>6 DEF Running
<1>19. ASSUME NEW A \in [Nat -> Nat], Respects(src', A), ~PlainElse(src')
       PROVE  \E lab, out : /\ Preserves(src', blocks', A, lab, out, FALSE)
                            /\ Frames(src', blocks', A, lab, out, stack', open)
  <2>1. PICK t : t = i
    OBVIOUS
  <2>2. PICK lab, out : EndsBody(A, lab, out, open, t)
    BY <1>2, <1>19, <2>1 DEF i
  <2>3. /\ Preserves(src', blocks, A, lab, out, FALSE)
        /\ Frames(src, blocks, A, lab, out, stack, open)
        /\ lab[start] = A[t + 1] /\ out[last] = A[L + 1]
        /\ Calling(src, blocks, A, lab, out, Caller, Frame, t)
        /\ Calling(src, blocks, A, lab, out, stack[Len(stack) - 2], Caller, open[Len(stack) - 1])
        /\ A[L + 1] = IF src[t] = "while" THEN t ELSE A[L + 2]
    BY <2>2 DEF EndsBody, start, last
  <2>4. src[t] = "while" /\ blocks[cond] = <<Eval(t)>>
    BY <1>1, <2>3 DEF Calling, cond
  <2>5. blocks[cond][1] = Eval(out[outer])
    <3>1. stack[Len(stack) - 2] = f
      BY <1>5
    <3>2. Calling(src, blocks, A, lab, out, f, Caller, open[Len(stack) - 1])
      BY <2>3, <3>1
    <3> QED
      BY <1>1, <1>6, <3>2 DEF Calling, cond, outer
  <2>6. out[outer] = t
    <3>1. blocks[cond][1] = Eval(t)
      BY <2>4
    <3>2. Eval(out[outer]).token = out[outer] /\ Eval(t).token = t
      BY DEF Eval
    <3> QED
      BY <2>5, <3>1, <3>2
  <2>7. Closes(src', Len(src'), t) /\ Len(src') \in DOMAIN src'
    BY <1>2, <1>9, <2>1 DEF i
  <2>8. t \in DOMAIN src' /\ src'[t] = "while" /\ out[last] = t
    BY <1>2, <2>1, <2>3, <2>4 DEF i
  <2>9. LoopEnds(src', blocks, A, lab, out, cond, start, last, t)
    BY <1>12, <1>19, <2>3, <2>4, <2>7, <2>8 DEF LoopEnds
  <2>10. /\ lab[cond] = t /\ Begins(blocks, cond)
         /\ HasLooped(src', blocks, A, lab, out, cond, start, last)
    BY <2>9, PreservesLoop
  <2>11. PICK l, o : /\ Preserves(src', bs, A, l, o, FALSE)
                     /\ \A b \in DOMAIN blocks : l[b] = lab[b] /\ o[b] = out[b]
                     /\ o[after] = A[Len(src') + 1]
    BY <2>10 DEF HasLooped, bs, after
  <2>12. Joining(n, bs, A, lab, l, out, o, cond, after, open)
    <3>1. /\ Begins(bs, cond) /\ l[cond] = o[outer]
      BY <1>6, <1>7, <1>13, <2>6, <2>10, <2>11
    <3>2. f.start <= after
      <4>1. f.start \in 1 .. N
        BY <1>6 DEF IsBody
      <4> QED
        BY <1>14, <4>1
    <3>3. \A b \in DOMAIN blocks \ Above(stack, n) : bs[b] = blocks[b] /\ o[b] = out[b]
      BY <1>6, <1>13, <2>11
    <3>4. /\ DOMAIN blocks \subseteq DOMAIN bs /\ bs[after] = <<>>
          /\ \A b \in DOMAIN blocks : l[b] = lab[b]
      BY <1>13, <2>11 DEF after
    <3> HIDE DEF n, N
    <3> QED
      BY <1>4, <1>6, <1>9, <1>10, <1>13, <1>14, <1>15, <1>16, <1>19, <2>3, <2>11,
         <3>1, <3>2, <3>3, <3>4
      DEF Joining, f, outer, N
  <2> HIDE DEF n
  <2>13. Joined(A, open)
    BY <1>3, <2>12, JoinMeans
  <2> QED
    BY <2>13 DEF Joined
<1>20. PICK k : k = m - 1
  OBVIOUS
<1>21. Nested(src', k, open) /\ Len(stack') \in {2 * k + 2, 2 * k + 3}
  BY <1>2, <1>4, <1>18, <1>20
<1> QED
  BY <1>17, <1>18, <1>19, <1>21, MeansAfter

-----------------------------------------------------------------------------
(* The function ends.                                                      *)

LEMMA RowIs ==
  ASSUME NEW T, NEW z \in Seq(T)
  PROVE  z \in [1 .. Len(z) -> T]
OBVIOUS

LEMMA LongerRow ==
  ASSUME NEW T, NEW z \in Seq(T), NEW c \in T
  PROVE  /\ Append(z, c) \in Seq(T) /\ Len(Append(z, c)) = Len(z) + 1
         /\ \A a \in 1 .. Len(z) : Append(z, c)[a] = z[a]
         /\ Append(z, c)[Len(z) + 1] = c
OBVIOUS

\* Emit and Append at different blocks can be done in either order.
LEMMA EmitAppend ==
  ASSUME NEW S, NEW bs \in Seq(Seq(S)), NEW c \in Seq(S), NEW b \in DOMAIN bs, NEW ins \in S
  PROVE  Emit(Append(bs, c), b, ins) = Append(Emit(bs, b, ins), c)
<1> DEFINE x == Emit(Append(bs, c), b, ins)
           y == Append(Emit(bs, b, ins), c)
           N == Len(bs)
<1>1. N \in Nat /\ DOMAIN bs = 1 .. N
  OBVIOUS
<1>2. /\ Append(bs, c) \in Seq(Seq(S)) /\ Len(Append(bs, c)) = N + 1
      /\ DOMAIN Append(bs, c) = 1 .. N + 1
      /\ \A a \in 1 .. N : Append(bs, c)[a] = bs[a]
      /\ Append(bs, c)[N + 1] = c
  BY <1>1
<1>3. b \in 1 .. N /\ b \in 1 .. N + 1 /\ b # N + 1
  BY <1>1
<1>4. x \in [1 .. N + 1 -> Seq(S)] /\ x[b] = Append(bs[b], ins)
      /\ \A a \in 1 .. N + 1 : a # b => x[a] = Append(bs, c)[a]
  <2> DEFINE as == Append(bs, c)
             z == Append(as[b], ins)
  <2>1. z \in Seq(S) /\ z = Append(bs[b], ins)
    BY <1>1, <1>2, <1>3
  <2>2. as \in [1 .. N + 1 -> Seq(S)]
    <3>1. PICK T : T = Seq(S)
      OBVIOUS
    <3>2. as \in Seq(T) /\ Len(as) = N + 1
      BY <1>2, <3>1
    <3> HIDE DEF as, N
    <3>3. as \in [1 .. N + 1 -> T]
      BY <3>2, RowIs
    <3> QED
      BY <3>1, <3>3
  <2>3. x = [as EXCEPT ![b] = z]
    BY DEF Emit
  <2> HIDE DEF as, z, x, N
  <2>4. x \in [1 .. N + 1 -> Seq(S)] /\ x[b] = z /\ \A a \in 1 .. N + 1 : a # b => x[a] = as[a]
    BY <1>3, <2>1, <2>2, <2>3
  <2> QED
    BY <2>1, <2>4 DEF as
<1>5. LET e == Emit(bs, b, ins) IN
      e \in Seq(Seq(S)) /\ Len(e) = N /\ e[b] = Append(bs[b], ins)
      /\ \A a \in 1 .. N : a # b => e[a] = bs[a]
  <2> DEFINE z == Append(bs[b], ins)
             e == Emit(bs, b, ins)
  <2>1. z \in Seq(S)
    OBVIOUS
  <2>2. e = [bs EXCEPT ![b] = z]
    BY DEF Emit
  <2> HIDE DEF z, e
  <2>3. e \in Seq(Seq(S)) /\ Len(e) = Len(bs) /\ e[b] = z
        /\ \A a \in 1 .. Len(bs) : a # b => e[a] = bs[a]
    BY <1>1, <2>1, <2>2
  <2> QED
    BY <2>3 DEF e, z
<1>6. y \in [1 .. N + 1 -> Seq(S)] /\ y[b] = Append(bs[b], ins) /\ y[N + 1] = c
      /\ \A a \in 1 .. N : a # b => y[a] = bs[a]
  <2>1. PICK e : e = Emit(bs, b, ins)
    OBVIOUS
  <2>2. e \in Seq(Seq(S)) /\ Len(e) = N
    BY <1>5, <2>1
  <2>3. y \in [1 .. N + 1 -> Seq(S)] /\ (\A a \in 1 .. N : y[a] = e[a]) /\ y[N + 1] = c
    <3>1. PICK T : T = Seq(S)
      OBVIOUS
    <3>2. e \in Seq(T) /\ c \in T /\ Len(e) = N /\ y = Append(e, c)
      BY <2>1, <2>2, <3>1
    <3> HIDE DEF y, N
    <3>3. y \in Seq(T) /\ Len(y) = N + 1 /\ (\A a \in 1 .. N : y[a] = e[a]) /\ y[N + 1] = c
      BY <3>2, LongerRow
    <3>4. y \in [1 .. N + 1 -> T]
      BY <3>3, RowIs
    <3> QED
      BY <3>1, <3>3, <3>4
  <2> HIDE DEF y
  <2> QED
    BY <1>3, <1>5, <2>1, <2>3
<1> HIDE DEF x, y, N
<1>7. \A a \in 1 .. N + 1 : x[a] = y[a]
  <2>1. \A a \in 1 .. N + 1 : a = b \/ a = N + 1 \/ (a \in 1 .. N /\ a # b)
    BY <1>1
  <2> QED
    BY <1>2, <1>3, <1>4, <1>6, <2>1
<1>8. x = y
  <2>1. x = [a \in 1 .. N + 1 |-> x[a]] /\ y = [a \in 1 .. N + 1 |-> y[a]]
    BY <1>4, <1>6
  <2> QED
    BY <1>7, <2>1
<1> QED
  BY <1>8 DEF x, y

\* The body of the function goes from start to last.
Finishing(s, bs, entry, start, last) ==
  /\ s \in Seq(Token) /\ bs \in Seq(Seq(Instruction(Len(s), Len(bs)))) /\ Clean(bs)
  /\ {entry, start, last} \subseteq DOMAIN bs /\ entry # last /\ ~HasTerminator(bs[last])
Finished(bs, entry, start, last) ==
  Append(Emit(Emit(bs, entry, Br(start)), last, Br(Len(bs) + 1)), <<Ret(0)>>)

\* The body leads out of the function.
FunctionEnds(s, bs, A, lab, out, start, last) ==
  /\ Finishing(s, bs, 1, start, last) /\ A \in [Nat -> Nat]
  /\ Preserves(s, bs, A, lab, out, FALSE)
  /\ 1 < start /\ bs[1] = <<>>
  /\ out[1] = lab[start] /\ out[last] = Exit
HasFinished(s, bs, A, start, last) ==
  \E l, o : Preserves(s, Finished(bs, 1, start, last), A, l, o, FALSE)

\* The end of a function evaluates nothing.
LEMMA PlacedFinished ==
  ASSUME NEW s, NEW bs, NEW entry, NEW start, NEW last,
         Finishing(s, bs, entry, start, last),
         NEW E, Placed(E, bs)
  PROVE  Placed(E, Finished(bs, entry, start, last))
<1> DEFINE N == Len(bs)
           L == Len(s)
           I == Instruction(L, N + 1)
           x == Br(start)
           y == Br(N + 1)
           r == <<Ret(0)>>
           ds == Emit(bs, entry, x)
           es == Emit(ds, last, y)
<1>1. /\ s \in Seq(Token) /\ bs \in Seq(Seq(Instruction(L, N)))
      /\ entry \in DOMAIN bs /\ start \in DOMAIN bs /\ last \in DOMAIN bs
  BY DEF Finishing
<1>2. L \in Nat /\ N \in Nat /\ DOMAIN bs = 1 .. N
  <2>1. L \in Nat
    BY <1>1
  <2>2. PICK J : J = Instruction(L, N)
    OBVIOUS
  <2> QED
    BY <1>1, <2>1, <2>2
<1>3. bs \in Seq(Seq(I))
  <2>1. N + 1 \in Nat /\ N <= N + 1 /\ L <= L
    <3> HIDE DEF N, L
    <3> QED
      BY <1>2
  <2> HIDE DEF L, N
  <2> QED
    BY <1>1, <1>2, <2>1, BlocksGrow
<1>4. /\ x \in I /\ x.op = "br" /\ y \in I /\ y.op = "br"
      /\ r \in Seq(I) /\ Len(r) <= 1 /\ r[1].op = "ret" /\ r # <<>>
  <2>1. start \in 1 .. N + 1 /\ N + 1 \in 1 .. N + 1 /\ 0 \in 0 .. L
    <3>1. N \in Nat /\ L \in Nat /\ start \in 1 .. N
      BY <1>1, <1>2
    <3> HIDE DEF N, L
    <3> QED
      BY <3>1
  <2>2. x \in I /\ x.op = "br" /\ y \in I /\ y.op = "br" /\ Ret(0) \in I /\ Ret(0).op = "ret"
    BY <2>1 DEF Instruction, Br, Ret
  <2> HIDE DEF I
  <2> QED
    BY <2>2
<1> HIDE DEF I, x, y, N, L, r
<1>5. Evaluating(E, E, x) /\ Evaluating(E, E, y) /\ Evaluating(E, E, r[1])
  BY <1>4 DEF Evaluating
<1>6. ds \in Seq(Seq(I)) /\ Emitted(bs, ds, entry, x) /\ Placed(E, ds)
  BY <1>1, <1>3, <1>4, <1>5, EmitContent, PlacedEmit
<1>7. last \in DOMAIN ds
  BY <1>1, <1>6 DEF Emitted
<1> HIDE DEF ds
<1>8. es \in Seq(Seq(I)) /\ Placed(E, es)
  BY <1>4, <1>5, <1>6, <1>7, EmitContent, PlacedEmit
<1> HIDE DEF es
<1>9. Placed(E, Append(es, r))
  BY <1>4, <1>5, <1>8, PlacedNew
<1> QED
  BY <1>9 DEF Finished, es, ds, r, x, y, N

\* The blocks do what the source says when the function ends.
LEMMA PreservesFinish ==
  ASSUME NEW s, NEW bs, NEW A, NEW lab, NEW out, NEW start, NEW last,
         FunctionEnds(s, bs, A, lab, out, start, last)
  PROVE  HasFinished(s, bs, A, start, last)
<1> DEFINE N == Len(bs)
           L == Len(s)
           I == Instruction(L, N)
           J == Instruction(L, N + 1)
           x == Br(start)
           y == Br(N + 1)
           r == <<Ret(0)>>
           ds == Emit(bs, 1, x)
           mid == Append(ds, r)
           p == [out EXCEPT ![1] = 0]
           l == Ext(lab, ds, 0)
           o == Ext(p, ds, 0)
<1>1. /\ s \in Seq(Token) /\ bs \in Seq(Seq(I)) /\ Clean(bs)
      /\ 1 \in DOMAIN bs /\ start \in DOMAIN bs /\ last \in DOMAIN bs /\ 1 # last /\ 1 < start
      /\ bs[1] = <<>> /\ ~HasTerminator(bs[last])
      /\ A \in [Nat -> Nat] /\ Preserves(s, bs, A, lab, out, FALSE)
      /\ out[1] = lab[start] /\ out[last] = Exit
  BY DEF FunctionEnds, Finishing
<1>2. L \in Nat /\ N \in Nat /\ DOMAIN bs = 1 .. N
  <2>1. L \in Nat
    BY <1>1
  <2> HIDE DEF I
  <2> QED
    BY <1>1, <2>1
<1>3. x \in I /\ x.op = "br" /\ x.to = start /\ IsTerminator(x)
  <2>1. start \in 1 .. N
    BY <1>1, <1>2
  <2> QED
    BY <2>1 DEF Br, Instruction, IsTerminator
<1>4. y \in J /\ y.op = "br" /\ y.to = N + 1
  <2>1. N + 1 \in 1 .. N + 1
    <3> HIDE DEF N
    <3> QED
      BY <1>2
  <2> QED
    BY <2>1 DEF Br, Instruction
<1>5. /\ r \in Seq(I) /\ Len(r) <= 1 /\ r[1].op = "ret" /\ r[1].token = 0 /\ r # <<>>
      /\ ~HasTerminator(<<>>)
  <2>1. 0 \in 0 .. L
    <3> HIDE DEF L
    <3> QED
      BY <1>2
  <2>2. Ret(0) \in I /\ Ret(0).op = "ret" /\ Ret(0).token = 0
    BY <2>1 DEF Ret, Instruction
  <2> HIDE DEF I
  <2> QED
    BY <2>2 DEF HasTerminator
<1>6. lab \in [DOMAIN bs -> Nat] /\ out \in [DOMAIN bs -> Int]
  BY <1>1 DEF Preserves
<1> HIDE DEF I, J, x, y, r, N, L
<1>7. Preserves(s, ds, A, lab, p, FALSE)
  <2>1. MeetsIn(lab, x) = out[1]
    BY <1>1, <1>3 DEF MeetsIn
  <2>2. PICK v : v = 0
    OBVIOUS
  <2>3. bs \in Seq(Seq(Instruction(L, Len(bs)))) /\ x \in Instruction(L, Len(bs))
    BY <1>1, <1>3 DEF I, N
  <2>4. x.op # "condbr" /\ x.op # "eval" /\ v \in Int /\ ~HasTerminator(bs[1])
        /\ (bs[1] = <<>> /\ x.op = "br" => x.to > 1 \/ Begins(bs, x.to))
    <3>1. start > 1
      BY <1>1, <1>2
    <3> QED
      BY <1>1, <1>3, <1>5, <2>2, <3>1
  <2>5. Preserves(s, Emit(bs, 1, x), A, lab, [out EXCEPT ![1] = v], FALSE)
    BY <1>1, <1>2, <2>1, <2>3, <2>4, PreservesEmit
  <2> QED
    BY <2>2, <2>5
<1>8. p[last] = Exit
  BY <1>1, <1>6
<1> HIDE DEF p
<1>9. /\ ds \in Seq(Seq(I)) /\ Len(ds) = N /\ DOMAIN ds = DOMAIN bs /\ ds[last] = bs[last]
  <2>1. ds \in Seq(Seq(I)) /\ Emitted(bs, ds, 1, x)
    BY <1>1, <1>3, EmitContent
  <2> QED
    BY <1>1, <2>1 DEF Emitted, N
<1>10. Clean(ds)
  <2>1. ~HasTerminator(bs[1])
    BY <1>1, <1>5
  <2> QED
    BY <1>1, <1>3, <2>1, EmitFacts
<1> HIDE DEF ds
<1>11. Preserves(s, mid, A, l, o, FALSE)
  <2>1. ds \in Seq(Seq(Instruction(L, Len(ds)))) /\ r \in Seq(Instruction(L, Len(ds)))
    BY <1>5, <1>9 DEF I
  <2>2. PICK z : z = 0
    OBVIOUS
  <2>3. /\ z \in Nat /\ z \in Int
        /\ r = <<>> => z = z
        /\ r # <<>> => /\ r[1].op \in {"eval", "ret"}
                       /\ z = r[1].token
                       /\ r[1].op = "eval" => s[r[1].token] # "stmt" /\ z = -1
    BY <1>5, <2>2
  <2>4. Preserves(s, Append(ds, r), A, Ext(lab, ds, z), Ext(p, ds, z), FALSE)
    BY <1>1, <1>2, <1>5, <1>7, <2>1, <2>3, PreservesNew
  <2> QED
    BY <2>2, <2>4
<1>12. o[last] = Exit /\ l[N + 1] = Exit
  <2>1. /\ last \in DOMAIN ds /\ last \in 1 .. Len(ds) + 1
        /\ N + 1 \in 1 .. Len(ds) + 1 /\ N + 1 \notin DOMAIN ds
    BY <1>1, <1>2, <1>9
  <2> QED
    BY <1>8, <2>1 DEF Ext, Exit
<1> HIDE DEF l, o
<1>13. /\ mid \in Seq(Seq(I)) /\ Len(mid) = N + 1 /\ DOMAIN mid = DOMAIN bs \cup {N + 1}
       /\ mid[last] = bs[last] /\ Clean(mid)
  <2>1. mid \in Seq(Seq(I)) /\ Added(ds, mid, r)
    BY <1>5, <1>9, AddedContent
  <2>2. Clean(mid)
    BY <1>5, <1>9, <1>10, NewBlockFacts
  <2> QED
    BY <1>1, <1>9, <2>1, <2>2 DEF Added
<1>14. mid \in Seq(Seq(Instruction(L, Len(mid)))) /\ y \in Instruction(L, Len(mid))
  <2>1. N + 1 \in Nat /\ N <= N + 1 /\ L <= L
    BY <1>2
  <2> HIDE DEF mid
  <2>2. mid \in Seq(Seq(J))
    BY <1>2, <1>13, <2>1, BlocksGrow DEF I, J
  <2> QED
    BY <1>4, <1>13, <2>2 DEF J
<1> HIDE DEF mid
<1>15. \E q : Preserves(s, Emit(mid, last, y), A, l, q, FALSE)
  <2>1. PICK v : v = 0
    OBVIOUS
  <2>2. MeetsIn(l, y) = o[last]
    BY <1>4, <1>12 DEF MeetsIn
  <2>3. y.op # "condbr" /\ y.op # "eval" /\ v \in Int /\ ~HasTerminator(mid[last])
        /\ (mid[last] = <<>> /\ y.op = "br" => y.to > last \/ Begins(mid, y.to))
    <3>1. N + 1 > last
      BY <1>1, <1>2
    <3> QED
      BY <1>1, <1>4, <1>13, <2>1, <3>1
  <2>4. last \in DOMAIN mid
    BY <1>1, <1>13
  <2>5. Preserves(s, Emit(mid, last, y), A, l, [o EXCEPT ![last] = v], FALSE)
    BY <1>1, <1>2, <1>11, <1>13, <1>14, <2>2, <2>3, <2>4, PreservesEmit
  <2> QED
    BY <2>5
<1>16. Emit(mid, last, y) = Finished(bs, 1, start, last)
  <2>1. ds \in Seq(Seq(J)) /\ r \in Seq(J)
    <3>1. N + 1 \in Nat /\ N <= N + 1 /\ L <= L
      BY <1>2
    <3>2. ds \in Seq(Seq(J))
      BY <1>2, <1>9, <3>1, BlocksGrow DEF I, J
    <3>3. I \subseteq J
      BY <1>2, <3>1, InstructionGrows DEF I, J
    <3>4. Seq(I) \subseteq Seq(J)
      BY <3>3, SeqGrows, Zenon
    <3> QED
      BY <1>5, <3>2, <3>4
  <2>2. last \in DOMAIN ds
    BY <1>1, <1>9
  <2>3. Emit(Append(ds, r), last, y) = Append(Emit(ds, last, y), r)
    BY <1>4, <2>1, <2>2, EmitAppend
  <2> QED
    BY <2>3 DEF Finished, mid, ds, x, y, r, N
<1> QED
  BY <1>15, <1>16 DEF HasFinished

LEMMA EndFunctionMeans ==
  ASSUME IInv, IInv', NEW m, NEW open, MeansWith(m, open), EndFunction
  PROVE  Means'
<1> DEFINE N == Len(blocks)
           L == Len(src)
           start == Frame.start
           last == Frame.last
<1>1. /\ Running("basic_block") /\ Caller.fn = "func" /\ src' = src /\ stack' = <<>>
      /\ IF HasTerminator(Emit(blocks, Caller.entry, Br(start))[last])
           THEN blocks' = Emit(blocks, Caller.entry, Br(start))
           ELSE blocks' = Append(Emit(Emit(blocks, Caller.entry, Br(start)), last, Br(N + 1)),
                                 <<Ret(0)>>)
  BY DEF EndFunction, Called
<1>2. /\ stack # <<>> /\ IsBody(Frame, N) /\ Frame.fn = "basic_block"
      /\ IsFunc(Caller, N) /\ Owed(Frame) = {last} /\ Owed(Caller) = {Caller.entry}
      /\ N \in Nat /\ L \in Nat /\ Len(stack) \in Nat
      /\ Len(stack) >= 2 /\ DOMAIN stack = 1 .. Len(stack)
      /\ DOMAIN blocks = 1 .. N /\ src \in Seq(Token)
      /\ blocks \in Seq(Seq(Instruction(L, N)))
  BY <1>1, BodyFacts, RunningFacts, FrameKinds, OwedFacts, StateFacts
<1>3. /\ Caller.entry # last /\ Caller.entry \in DOMAIN blocks /\ last \in DOMAIN blocks
      /\ ~HasTerminator(blocks[last]) /\ start \in DOMAIN blocks
  BY <1>2, RunningFacts DEF IsBody
<1>4. Len(stack) = 2
  <2>1. ASSUME Len(stack) > 2 PROVE FALSE
    <3>1. Len(stack) - 2 \in 1 .. Len(stack) - 1
      BY <1>2, <2>1
    <3>2. Calls(stack[Len(stack) - 2], stack[(Len(stack) - 2) + 1])
      BY <1>2, <3>1 DEF IInv, Stacked
    <3>3. stack[(Len(stack) - 2) + 1] = Caller
      BY <1>2 DEF Caller
    <3> QED
      BY <1>1, <3>2, <3>3 DEF Calls
  <2> QED
    BY <1>2, <2>1
<1>5. stack[1] = Caller /\ stack[2] = Frame
  BY <1>4 DEF Caller, Frame
<1>6. m = 0 /\ open[2] = 0 /\ Nested(src, m, open)
  <2>1. m \in Nat /\ Len(stack) = 2 * m + 2
    BY <1>2, PlaceOnStack
  <2>2. Nested(src, m, open)
    BY DEF MeansWith
  <2>3. m = 0
    BY <1>4, <2>1, SMTT(30)
  <2> QED
    BY <2>2, <2>3 DEF Nested
<1>7. Running("branch") = FALSE
  BY <1>2 DEF Running, Frame
<1>8. ASSUME NEW A \in [Nat -> Nat], Respects(src, A), ~PlainElse(src)
      PROVE  \E lab, out :
               /\ Preserves(src, blocks, A, lab, out, FALSE)
               /\ Caller.entry = 1 /\ 1 < start /\ blocks[1] = <<>>
               /\ out[1] = lab[start] /\ out[last] = A[L + 1]
  <2>1. PICK lab, out : /\ Preserves(src, blocks, A, lab, out, FALSE)
                        /\ Frames(src, blocks, A, lab, out, stack, open)
    BY <1>2, <1>7, <1>8 DEF MeansWith
  <2>2. /\ Below(src, blocks, A, lab, out, stack, open, 2)
        /\ Walking(src, blocks, A, lab, out, Frame)
    BY <1>2, <1>4, <1>5, <2>1 DEF Frames
  <2>3. BodyOf(A, lab, Frame, open[2]) /\ Calling(src, blocks, A, lab, out, Caller, Frame, open[2])
    <3>1. 2 \in 1 .. 2 /\ 1 \in 1 .. 2 - 1 /\ 1 + 1 = 2
      OBVIOUS
    <3> QED
      BY <1>2, <1>5, <2>2, <3>1 DEF Below
  <2>4. lab[start] = A[1]
    BY <1>6, <2>3 DEF BodyOf
  <2>5. Caller.entry = 1 /\ 1 < start /\ blocks[1] = <<>> /\ out[1] = A[1]
    BY <1>1, <2>3 DEF Calling
  <2>6. out[last] = A[L + 1]
    BY <1>2, <2>2 DEF Walking
  <2> QED
    BY <2>1, <2>4, <2>5, <2>6
<1>9. blocks' = Finished(blocks, Caller.entry, start, last)
  <2>1. PICK e : e = Caller.entry
    OBVIOUS
  <2>2. PICK J : J = Instruction(L, N)
    OBVIOUS
  <2>3. PICK x : x = Br(start)
    OBVIOUS
  <2>4. x \in J
    <3>1. start \in 1 .. N
      BY <1>2, <1>3
    <3> HIDE DEF start, N, L
    <3> QED
      BY <2>2, <2>3, <3>1 DEF Br, Instruction
  <2>5. Emit(blocks, e, x)[last] = blocks[last]
    <3>1. blocks \in Seq(Seq(J)) /\ e \in DOMAIN blocks /\ last \in DOMAIN blocks \ {e}
      BY <1>2, <1>3, <2>1, <2>2
    <3> HIDE DEF last
    <3> QED
      BY <2>4, <3>1, EmitFacts
  <2>6. ~HasTerminator(Emit(blocks, Caller.entry, Br(start))[last])
    BY <1>3, <2>1, <2>3, <2>5
  <2> QED
    BY <1>1, <2>6 DEF Finished
<1> HIDE DEF start, last
<1>10. Finishing(src, blocks, Caller.entry, start, last)
  <2>1. Clean(blocks)
    BY DEF IInv
  <2> QED
    BY <1>2, <1>3, <2>1 DEF Finishing
<1>11. Placed(EvaluatedIn(src'), blocks')
  <2>1. Placed(EvaluatedIn(src), blocks)
    BY DEF MeansWith
  <2> QED
    BY <1>1, <1>9, <1>10, <2>1, PlacedFinished
<1>12. stack' = <<>> /\ Running("branch")' = FALSE
  BY <1>1 DEF Running
<1>13. ASSUME NEW A \in [Nat -> Nat], Respects(src', A), ~PlainElse(src'),
              A[Len(src') + 1] = Exit
       PROVE  \E lab, out : /\ Preserves(src', blocks', A, lab, out, FALSE)
                            /\ Frames(src', blocks', A, lab, out, stack', open)
  <2>1. src' = src /\ A[L + 1] = Exit
    BY <1>1, <1>13
  <2>2. PICK lab, out : /\ Preserves(src, blocks, A, lab, out, FALSE)
                        /\ Caller.entry = 1 /\ 1 < start /\ blocks[1] = <<>>
                        /\ out[1] = lab[start] /\ out[last] = A[L + 1]
    BY <1>8, <1>13, <2>1
  <2>3. FunctionEnds(src, blocks, A, lab, out, start, last)
    BY <1>10, <2>1, <2>2 DEF FunctionEnds
  <2>4. PICK l, o : Preserves(src, blocks', A, l, o, FALSE)
    BY <1>9, <2>2, <2>3, PreservesFinish DEF HasFinished
  <2>5. Frames(src', blocks', A, l, o, stack', open)
    BY <1>12 DEF Frames
  <2> QED
    BY <2>1, <2>4, <2>5
<1>14. MeansWith(m, open)'
  BY <1>1, <1>6, <1>11, <1>12, <1>13 DEF MeansWith
<1> QED
  BY <1>14 DEF Means

\* Every action keeps Means.
LEMMA NextMeans == IInv /\ Means /\ [Next]_vars /\ IInv' => Means'
<1> SUFFICES ASSUME IInv, IInv', Means, [Next]_vars PROVE Means'
  OBVIOUS
<1>1. PICK m, open : MeansWith(m, open)
  BY DEF Means
<1>2. CASE Next
  <2>1. CASE SimpleStatement
    <3>1. MeansWith(m, open)'
      BY <1>1, <2>1, SimpleStatementMeans
    <3> QED
      BY <3>1 DEF Means
  <2>2. CASE ReturnStatement
    <3>1. MeansWith(m, open)'
      BY <1>1, <2>2, ReturnStatementMeans
    <3> QED
      BY <3>1 DEF Means
  <2>3. CASE BeginWhile
    BY <1>1, <2>3, BeginWhileMeans
  <2>4. CASE EndWhile
    BY <1>1, <2>4, EndWhileMeans
  <2>5. CASE BeginBranch
    BY <1>1, <2>5, BeginBranchMeans
  <2>6. CASE EndArm
    BY <1>1, <2>6, EndArmMeans
  <2>7. CASE ElseIf
    BY <1>1, <2>7, ElseIfMeans
  <2>8. CASE BeginElse
    BY <1>1, <2>8, BeginElseMeans
  <2>9. CASE NoElse
    BY <1>1, <2>9, NoElseMeans
  <2>10. CASE EndElse
    BY <1>1, <2>10, EndElseMeans
  <2>11. CASE ConnectArm
    BY <1>1, <2>11, ConnectArmMeans
  <2>12. CASE EndBranch
    BY <1>1, <2>12, EndBranchMeans
  <2>13. CASE EndFunction
    BY <1>1, <2>13, EndFunctionMeans
  <2> QED
    BY <1>2, <2>1, <2>2, <2>3, <2>4, <2>5, <2>6, <2>7, <2>8, <2>9, <2>10,
       <2>11, <2>12, <2>13 DEF Next
<1>3. CASE UNCHANGED vars
  <2>1. src' = src /\ blocks' = blocks /\ stack' = stack
    BY <1>3 DEF vars
  <2>2. Running("branch")' = Running("branch")
    BY <2>1 DEF Running
  <2>3. MeansWith(m, open)'
    BY <1>1, <2>1, <2>2 DEF MeansWith
  <2> QED
    BY <2>3 DEF Means
<1> QED
  BY <1>2, <1>3

\* Both invariants hold in every reachable state.
LEMMA MeaningInvariance == Spec => [](IInv /\ Means)
<1>1. Init => IInv /\ Means
  BY InitIInv, InitMeans
<1>2. (IInv /\ Means) /\ [Next]_vars => (IInv /\ Means)'
  BY NextIInv, NextMeans
<1> QED
  BY <1>1, <1>2, PTL DEF Spec

-----------------------------------------------------------------------------
(* The recursive functions of the meaning.                                 *)

\* A function whose value at p is given, or the one at a later place.
LEMMA LaterPlaces ==
  ASSUME NEW M \in Nat, NEW T \in [1 .. M -> Nat], NEW V \in [1 .. M -> Nat],
         \A p \in 1 .. M : T[p] = 0 \/ T[p] \in p + 1 .. M
  PROVE  \E h \in [1 .. M -> Nat] : \A p \in 1 .. M : h[p] = IF T[p] = 0 THEN V[p] ELSE h[T[p]]
<1> DEFINE S == {n \in 0 .. M : \E h \in [1 .. M -> Nat] : \A p \in n + 1 .. M :
                                   h[p] = IF T[p] = 0 THEN V[p] ELSE h[T[p]]}
<1>1. M \in S
  <2>1. M \in 0 .. M /\ M + 1 .. M = {} /\ V \in [1 .. M -> Nat]
    OBVIOUS
  <2> QED
    BY <2>1
<1>2. ASSUME NEW n \in 0 .. M - 1, n + 1 \in S PROVE n \in S
  <2>1. PICK h \in [1 .. M -> Nat] : \A p \in (n + 1) + 1 .. M :
                                       h[p] = IF T[p] = 0 THEN V[p] ELSE h[T[p]]
    BY <1>2
  <2>2. PICK x : x = IF T[n + 1] = 0 THEN V[n + 1] ELSE h[T[n + 1]]
    OBVIOUS
  <2>3. n \in 0 .. M /\ n + 1 \in 1 .. M /\ n + 1 \in Nat
    OBVIOUS
  <2>4. T[n + 1] = 0 \/ (T[n + 1] \in 1 .. M /\ T[n + 1] # n + 1)
    <3>1. T[n + 1] = 0 \/ T[n + 1] \in (n + 1) + 1 .. M
      BY <2>3
    <3> QED
      BY <2>3, <3>1
  <2>5. x \in Nat
    BY <2>2, <2>3, <2>4
  <2> DEFINE g == [h EXCEPT ![n + 1] = x]
  <2>6. g \in [1 .. M -> Nat] /\ g[n + 1] = x /\ \A p \in 1 .. M : p # n + 1 => g[p] = h[p]
    BY <2>3, <2>5
  <2> HIDE DEF g
  <2>7. ASSUME NEW p \in n + 1 .. M
        PROVE  g[p] = IF T[p] = 0 THEN V[p] ELSE g[T[p]]
    <3>1. CASE p = n + 1
      BY <2>2, <2>4, <2>6, <3>1
    <3>2. CASE p # n + 1
      <4>1. p \in (n + 1) + 1 .. M /\ p \in 1 .. M /\ p > n + 1
        BY <3>2
      <4>2. T[p] = 0 \/ (T[p] \in 1 .. M /\ T[p] # n + 1)
        <5>1. T[p] = 0 \/ T[p] \in p + 1 .. M
          BY <4>1
        <5> QED
          BY <4>1, <5>1, SMTT(30)
      <4>3. h[p] = IF T[p] = 0 THEN V[p] ELSE h[T[p]]
        BY <2>1, <4>1
      <4> QED
        BY <2>6, <3>2, <4>1, <4>2, <4>3
    <3> QED
      BY <3>1, <3>2
  <2> QED
    BY <2>3, <2>6, <2>7
<1> HIDE DEF S
<1>3. \A n \in 0 .. M : n \in S
  BY <1>1, <1>2, Backwards
<1>4. 0 \in 0 .. M /\ 0 + 1 .. M = 1 .. M
  OBVIOUS
<1> QED
  BY <1>3, <1>4 DEF S

\* A function whose values are made from the last one back.
Backed(M, X, F, x) ==
  \E h \in [0 .. M -> X] : h[M] = x /\ \A n \in 0 .. M - 1 : h[n] = F[h[n + 1]]

LEMMA StepsBack ==
  ASSUME NEW M \in Nat, NEW X, NEW F \in [X -> X], NEW x \in X
  PROVE  Backed(M, X, F, x)
<1> DEFINE S == {n \in 0 .. M : \E h \in [0 .. M -> X] :
                                  h[M] = x /\ \A k \in n .. M - 1 : h[k] = F[h[k + 1]]}
<1>1. M \in S
  <2>1. M \in 0 .. M /\ M .. M - 1 = {}
    OBVIOUS
  <2>2. [n \in 0 .. M |-> x] \in [0 .. M -> X] /\ [n \in 0 .. M |-> x][M] = x
    BY <2>1
  <2> QED
    BY <2>1, <2>2
<1>2. ASSUME NEW n \in 0 .. M - 1, n + 1 \in S PROVE n \in S
  <2>1. PICK h \in [0 .. M -> X] : h[M] = x /\ \A k \in n + 1 .. M - 1 : h[k] = F[h[k + 1]]
    BY <1>2
  <2>2. n \in 0 .. M /\ n + 1 \in 0 .. M /\ n # M /\ n + 1 # n /\ M \in 0 .. M
    OBVIOUS
  <2>3. PICK y : y = F[h[n + 1]]
    OBVIOUS
  <2>4. y \in X
    BY <2>2, <2>3
  <2> DEFINE g == [h EXCEPT ![n] = y]
  <2>5. g \in [0 .. M -> X] /\ g[n] = y /\ \A k \in 0 .. M : k # n => g[k] = h[k]
    BY <2>2, <2>4
  <2> HIDE DEF g
  <2>6. ASSUME NEW k \in n .. M - 1 PROVE g[k] = F[g[k + 1]]
    <3>1. CASE k = n
      BY <2>2, <2>3, <2>5, <3>1
    <3>2. CASE k # n
      <4>1. k \in n + 1 .. M - 1 /\ k \in 0 .. M /\ k + 1 \in 0 .. M /\ k + 1 # n
        BY <3>2
      <4> QED
        BY <2>1, <2>5, <3>2, <4>1
    <3> QED
      BY <3>1, <3>2
  <2>7. g[M] = x
    BY <2>1, <2>2, <2>5
  <2> QED
    BY <2>2, <2>5, <2>6, <2>7
<1> HIDE DEF S
<1>3. \A n \in 0 .. M : n \in S
  BY <1>1, <1>2, Backwards
<1>4. 0 \in 0 .. M
  OBVIOUS
<1> QED
  BY <1>3, <1>4 DEF S, Backed

-----------------------------------------------------------------------------
(* A program without an open body.                                         *)

\* Closer finds the end of a body.
LEMMA CloserIs ==
  ASSUME src \in Seq(Token), NEW c, NEW i, Closes(src, c, i)
  PROVE  Closer(i) = c
<1> DEFINE C == {p \in i + 1 .. Len(src) : src[p] = "end" /\ Depth(p) = Depth(i) - 1}
<1>1. Len(src) \in Nat /\ DOMAIN src = 1 .. Len(src)
  OBVIOUS
<1>2. \A p : Depth(p) = DepthIn(src, p)
  BY DEF Depth, DepthIn
<1>3. i \in 1 .. Len(src) /\ c \in i + 1 .. Len(src)
  BY <1>1 DEF Closes
<1>4. c \in C
  BY <1>2, <1>3 DEF Closes
<1>5. \A q \in C : c <= q
  <2> SUFFICES ASSUME NEW q \in C, q < c PROVE FALSE
    BY <1>1, <1>3
  <2>1. q \in i + 1 .. c - 1
    BY <1>1, <1>3
  <2> QED
    BY <1>2, <2>1 DEF Closes
<1>6. C \in SUBSET Nat
  BY <1>1, <1>3
<1>7. Closer(i) = SetMin(C)
  BY DEF Closer
<1> HIDE DEF C
<1>8. SetMin(C) \in C /\ \A y \in C : SetMin(C) <= y
  BY <1>4, <1>6, SetMinIs
<1>9. SetMin(C) <= c /\ c <= SetMin(C) /\ SetMin(C) \in Nat /\ c \in Nat
  BY <1>4, <1>5, <1>6, <1>8
<1> QED
  BY <1>7, <1>9

\* Every body has an end of its own, and every end a body.
Closed(s) ==
  /\ \A i \in DOMAIN s : s[i] \in Opening => \E c \in DOMAIN s : Closes(s, c, i)
  /\ \A c, i, j \in DOMAIN s : Closes(s, c, i) /\ Closes(s, c, j) => i = j
  /\ \A c \in DOMAIN s : s[c] = "end" => \E i \in DOMAIN s : Closes(s, c, i)

\* Without an open body, every body is closed.
LEMMA NoneIsOpen ==
  ASSUME NEW s, NEW open, Nested(s, 0, open)
  PROVE  Closed(s)
<1>1. 1 .. 0 = {}
  OBVIOUS
<1> QED
  BY <1>1 DEF Nested, Closed

\* Opener finds the opener of an end.
LEMMA OpenerIs ==
  ASSUME src \in Seq(Token), Closed(src), NEW c, NEW i, Closes(src, c, i)
  PROVE  Opener(c) = i
<1>1. c \in DOMAIN src /\ i \in DOMAIN src /\ DOMAIN src = 1 .. Len(src) /\ Len(src) \in Nat
      /\ i < c /\ c <= Len(src)
  BY ClosesRange
<1>2. i \in 1 .. c - 1 /\ \A j \in 1 .. c - 1 : j \in DOMAIN src
  BY <1>1
<1>3. src[i] \in Opening /\ Closer(i) = c
  BY CloserIs DEF Closes
<1>4. ASSUME NEW j \in 1 .. c - 1, src[j] \in Opening, Closer(j) = c
      PROVE  j = i
  <2>1. j \in DOMAIN src
    BY <1>2
  <2>2. PICK d \in DOMAIN src : Closes(src, d, j)
    BY <1>4, <2>1 DEF Closed
  <2>3. d = c
    BY <1>4, <2>2, CloserIs
  <2> QED
    BY <1>1, <2>1, <2>2, <2>3 DEF Closed
<1> QED
  BY <1>2, <1>3, <1>4 DEF Opener

\* Every such function has numbers for values.
LEMMA LaterNumbers ==
  ASSUME NEW M \in Nat, NEW T \in [1 .. M -> Nat], NEW V \in [1 .. M -> Nat],
         \A p \in 1 .. M : T[p] = 0 \/ T[p] \in p + 1 .. M,
         NEW h, \A p \in 1 .. M : h[p] = IF T[p] = 0 THEN V[p] ELSE h[T[p]]
  PROVE  \A p \in 1 .. M : h[p] \in Nat
<1> DEFINE S == {n \in 0 .. M : \A p \in n + 1 .. M : h[p] \in Nat}
<1>1. M \in S
  <2>1. M \in 0 .. M /\ M + 1 .. M = {}
    OBVIOUS
  <2> QED
    BY <2>1
<1>2. ASSUME NEW n \in 0 .. M - 1, n + 1 \in S PROVE n \in S
  <2>1. n \in 0 .. M /\ n + 1 \in 1 .. M
    OBVIOUS
  <2>2. \A p \in (n + 1) + 1 .. M : h[p] \in Nat
    BY <1>2
  <2>3. h[n + 1] \in Nat
    <3>1. T[n + 1] = 0 \/ T[n + 1] \in (n + 1) + 1 .. M
      BY <2>1
    <3>2. V[n + 1] \in Nat /\ h[n + 1] = IF T[n + 1] = 0 THEN V[n + 1] ELSE h[T[n + 1]]
      BY <2>1
    <3> QED
      BY <2>2, <3>1, <3>2
  <2>4. \A p \in n + 1 .. M : p = n + 1 \/ p \in (n + 1) + 1 .. M
    BY <2>1
  <2>5. \A p \in n + 1 .. M : h[p] \in Nat
    BY <2>2, <2>3, <2>4
  <2> QED
    BY <2>1, <2>5
<1> HIDE DEF S
<1>3. \A n \in 0 .. M : n \in S
  BY <1>1, <1>2, Backwards
<1>4. 0 \in 0 .. M /\ 0 + 1 .. M = 1 .. M
  OBVIOUS
<1> QED
  BY <1>3, <1>4 DEF S

\* The places where control goes on, as Arrive says it.
Goes(h, p) ==
  IF p > Len(src) THEN Exit
  ELSE IF src[p] \in {"elseif", "else"} THEN h[Closer(p) + 1]
  ELSE IF src[p] # "end" THEN p
  ELSE IF src[Opener(p)] = "while" THEN Opener(p)
  ELSE h[p + 1]

\* Arrive is defined: there is such a function, and it has numbers for values.
LEMMA ArriveIs ==
  ASSUME src \in Seq(Token), Closed(src)
  PROVE  /\ Arrive \in [1 .. Len(src) + 1 -> Nat]
         /\ \A p \in 1 .. Len(src) + 1 : Arrive[p] = Goes(Arrive, p)
<1> DEFINE L == Len(src)
           M == L + 1
           T == [p \in 1 .. M |->
                   IF p > L THEN 0
                   ELSE IF src[p] \in {"elseif", "else"} THEN Closer(p) + 1
                   ELSE IF src[p] # "end" THEN 0
                   ELSE IF src[Opener(p)] = "while" THEN 0
                   ELSE p + 1]
           V == [p \in 1 .. M |->
                   IF p > L THEN Exit
                   ELSE IF src[p] # "end" THEN p
                   ELSE IF src[Opener(p)] = "while" THEN Opener(p)
                   ELSE 0]
<1>1. L \in Nat /\ DOMAIN src = 1 .. L /\ M \in Nat
  <2>1. L \in Nat
    OBVIOUS
  <2> QED
    BY <2>1
<1>2. ASSUME NEW p \in 1 .. M, p <= L, src[p] \in {"elseif", "else"}
      PROVE  Closer(p) + 1 \in p + 1 .. M
  <2>1. p \in DOMAIN src /\ src[p] \in Opening
    BY <1>1, <1>2 DEF Opening
  <2>2. PICK c \in DOMAIN src : Closes(src, c, p)
    BY <2>1 DEF Closed
  <2>3. Closer(p) = c
    BY <2>2, CloserIs
  <2>4. p < c /\ c <= L /\ c \in Nat
    BY <2>2, ClosesRange
  <2> HIDE DEF L
  <2> QED
    BY <1>1, <2>3, <2>4
<1>3. ASSUME NEW p \in 1 .. M, p <= L, src[p] = "end"
      PROVE  Opener(p) \in Nat
  <2>1. p \in DOMAIN src
    BY <1>1, <1>3
  <2>2. PICK i \in DOMAIN src : Closes(src, p, i)
    BY <1>3, <2>1 DEF Closed
  <2>3. Opener(p) = i
    BY <2>2, OpenerIs
  <2> QED
    BY <1>1, <2>3
<1> HIDE DEF L
<1>4. ASSUME NEW p \in 1 .. M
      PROVE  /\ T[p] = 0 \/ T[p] \in p + 1 .. M
             /\ T[p] \in Nat /\ V[p] \in Nat
             /\ \A h : Goes(h, p) = IF T[p] = 0 THEN V[p] ELSE h[T[p]]
  <2>1. p \in Nat /\ p >= 1 /\ p <= M /\ p + 1 \in Nat /\ p + 1 # 0
    BY <1>1
  <2>2. CASE p > L
    <3>1. T[p] = 0 /\ V[p] = Exit
      BY <2>2
    <3> HIDE DEF T, V
    <3> QED
      BY <2>2, <3>1 DEF Goes, Exit, L
  <2>3. CASE p <= L /\ src[p] \in {"elseif", "else"}
    <3>1. ~(p > L) /\ src[p] # "end"
      BY <1>1, <2>1, <2>3
    <3>2. T[p] = Closer(p) + 1 /\ V[p] = p
      BY <2>3, <3>1
    <3> HIDE DEF T, V
    <3>3. Closer(p) + 1 \in p + 1 .. M
      BY <1>2, <2>3
    <3>4. T[p] # 0 /\ T[p] \in Nat /\ T[p] \in p + 1 .. M
      BY <1>1, <2>1, <3>2, <3>3
    <3>5. \A h : Goes(h, p) = h[Closer(p) + 1]
      BY <2>3, <3>1 DEF Goes, L
    <3> QED
      BY <2>1, <3>2, <3>4, <3>5
  <2>4. CASE p <= L /\ src[p] \notin {"elseif", "else"} /\ src[p] # "end"
    <3>1. ~(p > L)
      BY <1>1, <2>1, <2>4
    <3>2. T[p] = 0 /\ V[p] = p
      BY <2>4, <3>1
    <3> HIDE DEF T, V
    <3>3. \A h : Goes(h, p) = p
      BY <2>4, <3>1 DEF Goes, L
    <3> QED
      BY <2>1, <3>2, <3>3
  <2>5. CASE p <= L /\ src[p] = "end" /\ src[Opener(p)] = "while"
    <3>1. ~(p > L)
      BY <1>1, <2>1, <2>5
    <3>2. T[p] = 0 /\ V[p] = Opener(p)
      BY <2>5, <3>1
    <3> HIDE DEF T, V
    <3>3. \A h : Goes(h, p) = Opener(p)
      BY <2>5, <3>1 DEF Goes, L
    <3> QED
      BY <1>3, <2>5, <3>2, <3>3
  <2>6. CASE p <= L /\ src[p] = "end" /\ src[Opener(p)] # "while"
    <3>1. ~(p > L)
      BY <1>1, <2>1, <2>6
    <3>2. T[p] = p + 1 /\ V[p] = 0
      BY <2>6, <3>1
    <3> HIDE DEF T, V
    <3>3. p + 1 \in p + 1 .. M
      BY <1>1, <2>1, <2>6
    <3>4. \A h : Goes(h, p) = h[p + 1]
      BY <2>6, <3>1 DEF Goes, L
    <3> QED
      BY <2>1, <3>2, <3>3, <3>4
  <2>7. p > L \/ p <= L
    BY <1>1, <2>1
  <2> QED
    BY <2>2, <2>3, <2>4, <2>5, <2>6, <2>7
<1>5. T \in [1 .. M -> Nat] /\ V \in [1 .. M -> Nat]
  <2>1. T = [p \in 1 .. M |-> T[p]] /\ V = [p \in 1 .. M |-> V[p]]
    OBVIOUS
  <2> HIDE DEF T, V
  <2> QED
    BY <1>4, <2>1
<1> HIDE DEF T, V
<1>6. PICK h \in [1 .. M -> Nat] : \A p \in 1 .. M : h[p] = IF T[p] = 0 THEN V[p] ELSE h[T[p]]
  BY <1>1, <1>4, <1>5, LaterPlaces
<1>7. h = [p \in 1 .. M |-> Goes(h, p)]
  <2>1. h = [p \in 1 .. M |-> h[p]]
    OBVIOUS
  <2>2. \A p \in 1 .. M : h[p] = Goes(h, p)
    <3> HIDE DEF M
    <3> QED
      BY <1>4, <1>6
  <2> HIDE DEF M
  <2> QED
    BY <2>1, <2>2, Zenon
<1>8. Arrive = [p \in 1 .. M |-> Goes(Arrive, p)]
  <2>1. Arrive = CHOOSE g : g = [p \in 1 .. M |-> Goes(g, p)]
    BY DEF Arrive, Goes, L
  <2> HIDE DEF M
  <2> QED
    BY <1>7, <2>1
<1>9. \A p \in 1 .. M : Arrive[p] = Goes(Arrive, p)
  BY <1>8
<1>10. \A p \in 1 .. M : Arrive[p] \in Nat
  <2>1. PICK g : g = Arrive
    OBVIOUS
  <2>2. \A p \in 1 .. M : g[p] = IF T[p] = 0 THEN V[p] ELSE g[T[p]]
    <3> HIDE DEF M
    <3> QED
      BY <1>4, <1>9, <2>1
  <2> HIDE DEF M
  <2>3. \A p \in 1 .. M : g[p] \in Nat
    BY <1>1, <1>4, <1>5, <2>2, LaterNumbers
  <2> QED
    BY <2>1, <2>3
<1>11. Arrive \in [1 .. M -> Nat]
  <2>1. Arrive = [p \in 1 .. M |-> Arrive[p]]
    BY <1>8, <1>9
  <2> HIDE DEF M
  <2> QED
    BY <1>10, <2>1
<1> QED
  BY <1>9, <1>11 DEF L

\* The meaning of the source, for every number.
Meaning == [p \in Nat |-> IF p \in 1 .. Len(src) + 1 THEN Arrive[p] ELSE 0]

\* What the source means is one of the functions that Means speaks of.
LEMMA MeaningRespects ==
  ASSUME src \in Seq(Token), Closed(src)
  PROVE  /\ Meaning \in [Nat -> Nat] /\ Respects(src, Meaning)
         /\ Meaning[Len(src) + 1] = Exit
         /\ \A p \in 1 .. Len(src) + 1 : Meaning[p] = Arrive[p]
<1> DEFINE L == Len(src)
           A == Meaning
<1>1. L \in Nat /\ DOMAIN src = 1 .. L
  OBVIOUS
<1>2. /\ Arrive \in [1 .. L + 1 -> Nat]
      /\ \A p \in 1 .. L + 1 : Arrive[p] = Goes(Arrive, p)
  BY ArriveIs
<1> HIDE DEF L
<1>3. /\ A \in [Nat -> Nat] /\ \A p \in 1 .. L + 1 : p \in Nat /\ A[p] = Arrive[p]
  <2>1. \A p \in 1 .. L + 1 : p \in Nat /\ Arrive[p] \in Nat
    BY <1>1, <1>2
  <2> QED
    BY <2>1 DEF Meaning, L
<1> HIDE DEF A
<1>4. A[L + 1] = Exit
  <2>1. L + 1 \in 1 .. L + 1 /\ L + 1 > L
    BY <1>1
  <2>2. Goes(Arrive, L + 1) = Exit
    BY <2>1 DEF Goes, L
  <2> QED
    BY <1>2, <1>3, <2>1, <2>2
<1>5. ASSUME NEW p \in DOMAIN src
      PROVE  p \in 1 .. L + 1 /\ ~(p > L) /\ p + 1 \in 1 .. L + 1
  BY <1>1
<1>6. ASSUME NEW p \in DOMAIN src, src[p] \in {"stmt", "return", "while", "if"}
      PROVE  A[p] = p
  <2>1. Goes(Arrive, p) = p
    BY <1>5, <1>6 DEF Goes, L
  <2> QED
    BY <1>2, <1>3, <1>5, <2>1
<1>7. ASSUME NEW c \in DOMAIN src, NEW i \in DOMAIN src, Closes(src, c, i)
      PROVE  /\ A[c] = IF src[i] = "while" THEN i ELSE A[c + 1]
             /\ src[i] \in {"elseif", "else"} => A[i] = A[c + 1]
  <2>1. Opener(c) = i /\ Closer(i) = c /\ src[c] = "end"
    BY <1>7, OpenerIs, CloserIs DEF Closes
  <2>2. Arrive[c + 1] = A[c + 1]
    BY <1>3, <1>5
  <2>3. Goes(Arrive, c) = IF src[i] = "while" THEN i ELSE A[c + 1]
    BY <1>5, <2>1, <2>2 DEF Goes, L
  <2>4. src[i] \in {"elseif", "else"} => Goes(Arrive, i) = A[c + 1]
    BY <1>5, <2>1, <2>2 DEF Goes, L
  <2> QED
    BY <1>2, <1>3, <1>5, <2>3, <2>4
<1>8. Respects(src, A)
  BY <1>6, <1>7 DEF Respects
<1> QED
  BY <1>3, <1>4, <1>8 DEF A, L

\* The first instruction of a block that is entered with n jumps followed, if
\* r is what the blocks evaluate first with a jump more.
First(r, n, b) ==
  LET ins == blocks[b][1] IN
  IF ins.op \in {"eval", "ret"} THEN ins.token
  ELSE IF ins.op = "br" /\ n < Len(blocks) THEN r[ins.to]
  ELSE Exit

\* Every block has its terminator, and begins as Preserves says.
Finite(lab) ==
  /\ blocks \in Seq(Seq(Instruction(Len(src), Len(blocks))))
  /\ Len(blocks) \in Nat /\ Len(src) \in Nat /\ DOMAIN blocks = 1 .. Len(blocks)
  /\ lab \in [DOMAIN blocks -> Nat]
  /\ \A b \in DOMAIN blocks :
       /\ 1 \in DOMAIN blocks[b] /\ Forward(blocks, b)
       /\ blocks[b][1].op # "condbr" /\ MeetsIn(lab, blocks[b][1]) = lab[b]

\* Enter is defined.
LEMMA EnterUnfolds ==
  ASSUME NEW lab, Finite(lab)
  PROVE  \E from : /\ Enter = from[0]
                   /\ \A n \in 0 .. Len(blocks) :
                        from[n] = [b \in DOMAIN blocks |-> First(from[n + 1], n, b)]
<1> DEFINE N == Len(blocks)
           D == DOMAIN blocks
           X == [D -> Nat]
           F == [r \in X |-> [b \in D |-> First(r, 0, b)]]
           x == [b \in D |-> First(<<>>, N, b)]
<1>1. N \in Nat /\ D = 1 .. N
  BY DEF Finite
<1>2. ASSUME NEW b \in D
      PROVE  LET ins == blocks[b][1] IN
             \/ ins.op = "eval" /\ ins.token \in Nat
             \/ ins.op = "ret" /\ ins.token \in Nat
             \/ ins.op = "br" /\ ins.to \in D
             \/ ins.op = "condbr"
  <2>1. 1 \in DOMAIN blocks[b]
    BY DEF Finite
  <2>2. PICK ins : ins = blocks[b][1]
    OBVIOUS
  <2>3. ins \in Instruction(Len(src), Len(blocks))
    BY <2>1, <2>2, InstructionAt DEF Finite
  <2>4. Len(src) \in Nat /\ Len(blocks) \in Nat
    BY DEF Finite
  <2>5. \/ ins.op = "eval" /\ ins.token \in Nat
        \/ ins.op = "ret" /\ ins.token \in Nat
        \/ ins.op = "br" /\ ins.to \in 1 .. N
        \/ ins.op = "condbr"
    BY <2>3, <2>4, InstructionKinds
  <2> QED
    BY <1>1, <2>2, <2>5
<1>3. ASSUME NEW b \in D, NEW r \in X, NEW n \in 0 .. N
      PROVE  First(r, n, b) \in Nat
  <2> HIDE DEF D, N
  <2> QED
    BY <1>2 DEF First, Exit
<1>4. ASSUME NEW b \in D
      PROVE  First(<<>>, N, b) \in Nat
  <2>1. ~(N < N)
    BY <1>1
  <2> QED
    BY <1>2, <2>1 DEF First, Exit
<1> HIDE DEF N, D
<1>5. x \in X
  BY <1>4
<1>6. F \in [X -> X]
  <2>1. 0 \in 0 .. N
    BY <1>1
  <2>2. ASSUME NEW r \in X PROVE [b \in D |-> First(r, 0, b)] \in X
    BY <1>3, <2>1, <2>2
  <2> QED
    BY <2>2
<1>7. ASSUME NEW r \in X, NEW n \in 0 .. N - 1
      PROVE  F[r] = [b \in D |-> First(r, n, b)]
  <2>1. n < N /\ 0 < N
    BY <1>1, <1>7
  <2>2. ASSUME NEW b \in D PROVE First(r, 0, b) = First(r, n, b)
    BY <2>1 DEF First, N
  <2>3. F[r] = [b \in D |-> First(r, 0, b)]
    OBVIOUS
  <2> HIDE DEF F
  <2> QED
    BY <2>2, <2>3
<1> HIDE DEF F
<1>8. PICK h \in [0 .. N -> X] : h[N] = x /\ \A n \in 0 .. N - 1 : h[n] = F[h[n + 1]]
  <2> HIDE DEF X, x
  <2>1. Backed(N, X, F, x)
    BY <1>1, <1>5, <1>6, StepsBack
  <2> QED
    BY <2>1 DEF Backed
<1>9. ASSUME NEW n \in 0 .. N
      PROVE  h[n] = [b \in D |-> First(h[n + 1], n, b)]
  <2>1. CASE n = N
    <3>1. ASSUME NEW b \in D PROVE First(<<>>, N, b) = First(h[n + 1], n, b)
      <4>1. ~(N < N)
        BY <1>1
      <4> QED
        BY <2>1, <4>1 DEF First, N
    <3> QED
      BY <1>8, <2>1, <3>1
  <2>2. CASE n # N
    <3>1. n \in 0 .. N - 1 /\ n + 1 \in 0 .. N
      BY <1>1, <2>2
    <3>2. h[n + 1] \in X
      BY <1>8, <3>1
    <3> HIDE DEF X
    <3> QED
      BY <1>7, <1>8, <3>1, <3>2
  <2> QED
    BY <2>1, <2>2
<1> DEFINE G(g) == [n \in 0 .. N |-> [b \in D |-> First(g[n + 1], n, b)]]
<1>10. h = G(h)
  <2>1. h = [n \in 0 .. N |-> h[n]]
    BY <1>8
  <2> HIDE DEF X, x
  <2> QED
    BY <1>9, <2>1
<1>11. PICK from : from = G(from) /\ Enter = from[0]
  <2>1. Enter = (CHOOSE g : g = G(g))[0]
    BY DEF Enter, First, N, D
  <2> DEFINE g == CHOOSE g : g = G(g)
  <2>2. g = G(g)
    BY <1>10
  <2> HIDE DEF G
  <2> QED
    BY <2>1, <2>2
<1>12. \A n \in 0 .. N : from[n] = [b \in D |-> First(from[n + 1], n, b)]
  BY <1>11
<1> QED
  BY <1>11, <1>12 DEF N, D

\* What the blocks evaluate first is what lab says of them.
LEMMA EnterIs ==
  ASSUME NEW lab, Finite(lab)
  PROVE  \A b \in DOMAIN blocks : Enter[b] = lab[b]
<1> DEFINE N == Len(blocks)
<1>1. N \in Nat /\ DOMAIN blocks = 1 .. N
  BY DEF Finite
<1>2. PICK from : /\ Enter = from[0]
                  /\ \A n \in 0 .. Len(blocks) :
                       from[n] = [b \in DOMAIN blocks |-> First(from[n + 1], n, b)]
  BY EnterUnfolds
<1> HIDE DEF N
<1>3. ASSUME NEW n \in 0 .. N, NEW b \in DOMAIN blocks
      PROVE  from[n][b] = First(from[n + 1], n, b)
  BY <1>2 DEF N
<1>4. ASSUME NEW b \in DOMAIN blocks
      PROVE  /\ blocks[b][1].op \in {"eval", "ret"} => lab[b] = blocks[b][1].token
             /\ blocks[b][1].op = "br" => lab[b] = lab[blocks[b][1].to]
             /\ blocks[b][1].op \in {"eval", "ret", "br"}
             /\ blocks[b] # <<>> /\ Forward(blocks, b)
             /\ blocks[b][1].op = "br" => blocks[b][1].to \in DOMAIN blocks
  <2>1. /\ 1 \in DOMAIN blocks[b] /\ Forward(blocks, b) /\ MeetsIn(lab, blocks[b][1]) = lab[b]
        /\ blocks[b][1].op # "condbr"
    BY DEF Finite
  <2>2. /\ Len(src) \in Nat /\ Len(blocks) \in Nat
        /\ blocks \in Seq(Seq(Instruction(Len(src), Len(blocks))))
    BY DEF Finite
  <2>3. blocks[b][1] \in Instruction(Len(src), Len(blocks))
    BY <2>1, <2>2, InstructionAt
  <2>4. PICK ins : ins = blocks[b][1]
    OBVIOUS
  <2>5. \/ ins.op = "eval"
        \/ ins.op = "ret"
        \/ ins.op = "br" /\ ins.to \in 1 .. N
        \/ ins.op = "condbr"
    BY <2>2, <2>3, <2>4, InstructionKinds DEF N
  <2>6. blocks[b] # <<>>
    BY <2>1
  <2> QED
    BY <1>1, <2>1, <2>4, <2>5, <2>6 DEF MeetsIn
<1> DEFINE S == {n \in 0 .. N : \A b \in DOMAIN blocks : b >= n + 1 => from[n][b] = lab[b]}
<1>5. N \in S
  <2>1. N \in 0 .. N /\ \A b \in DOMAIN blocks : ~(b >= N + 1)
    BY <1>1
  <2> QED
    BY <2>1
<1>6. ASSUME NEW n \in 0 .. N - 1, n + 1 \in S PROVE n \in S
  <2>1. n \in 0 .. N /\ n + 1 \in 0 .. N /\ n < Len(blocks)
    BY <1>1 DEF N
  <2>2. \A b \in DOMAIN blocks : b >= (n + 1) + 1 => from[n + 1][b] = lab[b]
    BY <1>6
  <2>3. ASSUME NEW b \in DOMAIN blocks, b >= n + 1 PROVE from[n][b] = lab[b]
    <3>1. PICK ins : ins = blocks[b][1]
      OBVIOUS
    <3>2. from[n][b] = First(from[n + 1], n, b)
      BY <1>3, <2>1
    <3>3. CASE ins.op \in {"eval", "ret"}
      BY <1>4, <3>1, <3>2, <3>3 DEF First
    <3>4. CASE ins.op = "br"
      <4>1. PICK t : t = ins.to
        OBVIOUS
      <4>2. from[n][b] = from[n + 1][t] /\ lab[b] = lab[t] /\ t \in DOMAIN blocks
        BY <1>4, <2>1, <3>1, <3>2, <3>4, <4>1 DEF First
      <4>3. t > b \/ Begins(blocks, t)
        BY <1>4, <3>1, <3>4, <4>1 DEF Forward
      <4>4. CASE t > b
        <5>1. t >= (n + 1) + 1
          <6>1. n \in Nat /\ t \in Nat /\ b \in Nat
            BY <1>1, <4>2
          <6> QED
            BY <2>3, <4>4, <6>1
        <5> QED
          BY <2>2, <4>2, <5>1
      <4>5. CASE Begins(blocks, t)
        <5>1. blocks[t][1].op = "eval"
          BY <4>5 DEF Begins
        <5>2. from[n + 1][t] = First(from[(n + 1) + 1], n + 1, t)
          BY <1>3, <2>1, <4>2
        <5>3. First(from[(n + 1) + 1], n + 1, t) = blocks[t][1].token
          BY <5>1 DEF First
        <5>4. lab[t] = blocks[t][1].token
          BY <1>4, <4>2, <5>1
        <5> QED
          BY <4>2, <5>2, <5>3, <5>4
      <4> QED
        BY <4>3, <4>4, <4>5
    <3> QED
      BY <1>4, <3>1, <3>3, <3>4
  <2> QED
    BY <2>1, <2>3
<1> HIDE DEF S
<1>7. \A n \in 0 .. N : n \in S
  BY <1>1, <1>5, <1>6, Backwards
<1>8. 0 \in S /\ \A b \in DOMAIN blocks : b >= 0 + 1
  BY <1>1, <1>7
<1> QED
  BY <1>2, <1>8 DEF S

-----------------------------------------------------------------------------
(* A finished function.                                                    *)

\* What is known of it: its blocks are terminated, and lab says what they
\* evaluate first, which is what the source says.
Done(lab, out) ==
  /\ Finite(lab) /\ src \in Seq(Token) /\ Closed(src) /\ Placed(EvaluatedIn(src), blocks)
  /\ Preserves(src, blocks, Meaning, lab, out, FALSE)
  /\ \A b \in DOMAIN blocks : HasTerminator(blocks[b])

\* What both invariants say when the last call has returned.
LEMMA WhenDone ==
  ASSUME IInv, Means, stack = <<>>, ~ElseEndsPlainly
  PROVE  \E lab, out : Done(lab, out)
<1>1. PICK m, open : MeansWith(m, open)
  BY DEF Means
<1>2. /\ src \in Seq(Token) /\ Len(src) \in Nat
      /\ blocks \in Seq(Seq(Instruction(Len(src), Len(blocks))))
      /\ Len(blocks) \in Nat /\ DOMAIN blocks = 1 .. Len(blocks)
  BY StateFacts
<1>3. Closed(src)
  <2>1. m = 0 /\ Nested(src, m, open)
    BY <1>1 DEF MeansWith
  <2> QED
    BY <2>1, NoneIsOpen
<1>4. /\ Meaning \in [Nat -> Nat] /\ Respects(src, Meaning)
      /\ Meaning[Len(src) + 1] = Exit
  BY <1>2, <1>3, MeaningRespects
<1>5. ~PlainElse(src)
  <2> SUFFICES ASSUME NEW c \in DOMAIN src, NEW i \in DOMAIN src,
                      Closes(src, c, i), src[i] = "else", src[c - 1] = "stmt"
               PROVE  FALSE
    BY DEF PlainElse
  <2>1. Closer(i) = c
    BY <1>2, CloserIs
  <2> QED
    BY <2>1 DEF ElseEndsPlainly
<1>6. PICK A : A = Meaning
  OBVIOUS
<1>7. PICK lab, out : Preserves(src, blocks, A, lab, out, FALSE)
  <2>1. Running("branch") = FALSE
    BY DEF Running
  <2>2. A \in [Nat -> Nat] /\ Respects(src, A) /\ A[Len(src) + 1] = Exit
    BY <1>4, <1>6
  <2> QED
    BY <1>1, <1>5, <2>1, <2>2 DEF MeansWith
<1>8. \A b \in DOMAIN blocks : HasTerminator(blocks[b])
  <2>1. DOMAIN stack = {}
    OBVIOUS
  <2> QED
    BY <2>1 DEF IInv, Owing
<1>9. ASSUME NEW b \in DOMAIN blocks
      PROVE  1 \in DOMAIN blocks[b] /\ 1 <= Len(blocks[b])
  <2>1. Len(blocks[b]) \in Nat /\ DOMAIN blocks[b] = 1 .. Len(blocks[b]) /\ Len(blocks[b]) >= 1
    BY <1>2, <1>8, BlockFacts
  <2> QED
    BY <2>1
<1>10. Finite(lab)
  <2>1. lab \in [DOMAIN blocks -> Nat]
    BY <1>7 DEF Preserves
  <2>2. ASSUME NEW b \in DOMAIN blocks
        PROVE  /\ 1 \in DOMAIN blocks[b] /\ Forward(blocks, b)
               /\ blocks[b][1].op # "condbr" /\ MeetsIn(lab, blocks[b][1]) = lab[b]
    <3>1. Leads(blocks, lab, out, b, 1, lab[b]) /\ Forward(blocks, b)
      BY <1>7 DEF Preserves
    <3> QED
      BY <1>9, <3>1 DEF Leads
  <2> QED
    BY <1>2, <2>1, <2>2 DEF Finite
<1>11. Placed(EvaluatedIn(src), blocks)
  BY <1>1 DEF MeansWith
<1> QED
  BY <1>2, <1>3, <1>6, <1>7, <1>8, <1>10, <1>11 DEF Done

\* The code of a token is at one place.
LEMMA OnePlace ==
  ASSUME NEW lab, NEW out, Done(lab, out), NEW i \in EvaluatedIn(src)
  PROVE  \E b \in DOMAIN blocks : \E k \in DOMAIN blocks[b] :
           blocks[b][k] = Eval(i) /\ Places(i) = {<<b, k>>}
<1>1. Placed(EvaluatedIn(src), blocks)
  BY DEF Done
<1>2. PICK b \in DOMAIN blocks : \E k \in DOMAIN blocks[b] : blocks[b][k] = Eval(i)
  BY <1>1 DEF Placed
<1> PICK k \in DOMAIN blocks[b] : blocks[b][k] = Eval(i)
  BY <1>2
<1>3. \A d \in DOMAIN blocks : \A n \in DOMAIN blocks[d] :
        blocks[d][n] = Eval(i) => d = b /\ n = k
  <2> SUFFICES ASSUME NEW d \in DOMAIN blocks, NEW n \in DOMAIN blocks[d],
                      blocks[d][n] = Eval(i)
               PROVE  d = b /\ n = k
    OBVIOUS
  <2>1. blocks[b][k].op = "eval" /\ blocks[d][n] = blocks[b][k]
    BY <1>2 DEF Eval
  <2> QED
    BY <1>1, <2>1 DEF Placed
<1>4. Places(i) = {<<b, k>>}
  <2>1. <<b, k>> \in Places(i)
    BY <1>2 DEF Places
  <2>2. ASSUME NEW p \in Places(i) PROVE p = <<b, k>>
    <3>1. PICK d \in DOMAIN blocks :
            p \in {<<d, n>> : n \in {x \in DOMAIN blocks[d] : blocks[d][x] = Eval(i)}}
      BY DEF Places
    <3>2. PICK n \in DOMAIN blocks[d] : blocks[d][n] = Eval(i) /\ p = <<d, n>>
      BY <3>1
    <3> QED
      BY <1>3, <3>2
  <2> QED
    BY <2>1, <2>2
<1> QED
  BY <1>2, <1>4

\* What comes after it is what the source says.
LEMMA NextIsNext ==
  ASSUME NEW lab, NEW out, Done(lab, out), NEW i \in EvaluatedIn(src),
         NEW b \in DOMAIN blocks, NEW k \in DOMAIN blocks[b], blocks[b][k] = Eval(i)
  PROVE  BlockNext(b, k) = SourceNext(i)
<1> DEFINE L == Len(src)
           A == Meaning
<1>1. /\ Finite(lab) /\ src \in Seq(Token) /\ Closed(src)
      /\ Preserves(src, blocks, A, lab, out, FALSE)
      /\ HasTerminator(blocks[b])
  BY DEF Done
<1>2. /\ blocks \in Seq(Seq(Instruction(L, Len(blocks)))) /\ L \in Nat /\ Len(blocks) \in Nat
      /\ DOMAIN blocks = 1 .. Len(blocks)
  BY <1>1 DEF Finite
<1>3. i \in DOMAIN src /\ DOMAIN src = 1 .. L /\ src[i] \in {"stmt", "while", "if", "elseif"}
  BY <1>1 DEF EvaluatedIn
<1>4. \A p \in 1 .. L + 1 : A[p] = Arrive[p]
  BY <1>1, MeaningRespects
<1>5. \A d \in DOMAIN blocks : Enter[d] = lab[d]
  BY <1>1, EnterIs
<1>6. Follows(src, blocks, A, lab, out, FALSE, b, k, i)
  <2>1. blocks[b][k].op = "eval" /\ blocks[b][k].token = i
    BY DEF Eval
  <2>2. \A d \in DOMAIN blocks : \A n \in DOMAIN blocks[d] : blocks[d][n].op = "eval" =>
          Follows(src, blocks, A, lab, out, FALSE, d, n, blocks[d][n].token)
    BY <1>1 DEF Preserves
  <2> HIDE DEF A
  <2> QED
    BY <2>1, <2>2
<1>7. /\ Len(blocks[b]) \in Nat /\ DOMAIN blocks[b] = 1 .. Len(blocks[b])
      /\ Len(blocks[b]) >= 1 /\ IsTerminator(blocks[b][Len(blocks[b])])
  BY <1>1, <1>2, BlockFacts
<1>8. k + 1 \in DOMAIN blocks[b] /\ k < Len(blocks[b])
  <2>1. ~IsTerminator(blocks[b][k])
    BY DEF IsTerminator, Eval
  <2>2. k # Len(blocks[b])
    BY <1>7, <2>1
  <2> QED
    BY <1>7, <2>2
<1> HIDE DEF A
<1>9. i \in 1 .. L + 1 /\ i + 1 \in 1 .. L + 1
  <2> HIDE DEF L
  <2> QED
    BY <1>2, <1>3
<1>10. Arrive[i + 1] = A[i + 1]
  BY <1>4, <1>9
<1>11. PICK ins : ins = blocks[b][k + 1]
  OBVIOUS
<1>12. \/ ins.op = "eval"
       \/ ins.op = "ret"
       \/ ins.op = "br" /\ ins.to \in DOMAIN blocks
       \/ ins.op = "condbr" /\ ins.yes \in DOMAIN blocks /\ ins.no \in DOMAIN blocks
  <2>1. \/ blocks[b][k + 1].op = "eval"
        \/ blocks[b][k + 1].op = "ret"
        \/ blocks[b][k + 1].op = "br" /\ blocks[b][k + 1].to \in 1 .. Len(blocks)
        \/ blocks[b][k + 1].op = "condbr" /\ blocks[b][k + 1].yes \in 1 .. Len(blocks)
             /\ blocks[b][k + 1].no \in 1 .. Len(blocks)
    BY <1>2, <1>8, InstructionAt
  <2> QED
    BY <1>2, <1>11, <2>1
<1>13. CASE src[i] = "stmt"
  <2>1. Leads(blocks, lab, out, b, k + 1, A[i + 1])
    BY <1>6, <1>13 DEF Follows
  <2>2. k + 1 <= Len(blocks[b])
    BY <1>7, <1>8
  <2>3. ins.op # "condbr" /\ MeetsIn(lab, ins) = A[i + 1]
    BY <1>11, <2>1, <2>2 DEF Leads
  <2>4. Meets(ins) = A[i + 1]
    BY <1>5, <1>12, <2>3 DEF Meets, MeetsIn
  <2>5. BlockNext(b, k) = <<Meets(ins)>>
    BY <1>11, <2>3 DEF BlockNext
  <2> QED
    BY <1>10, <1>13, <2>4, <2>5 DEF SourceNext
<1>14. CASE src[i] # "stmt"
  <2>1. k = 1 /\ (Undecided(blocks, out, b) \/ Decided(src, blocks, A, lab, b, i, FALSE))
    BY <1>6, <1>14 DEF Follows
  <2>2. Len(blocks[b]) # 1
    BY <1>7, <1>8, <2>1
  <2>3. Decided(src, blocks, A, lab, b, i, FALSE)
    BY <2>1, <2>2 DEF Undecided
  <2>4. blocks[b][2] = ins
    BY <1>11, <2>1
  <2>5. PICK c \in DOMAIN src : /\ Closes(src, c, i) /\ ins.op = "condbr"
                                /\ lab[ins.yes] = A[i + 1]
                                /\ lab[ins.no] = NotTaken(src, A, i, c)
    BY <2>3, <2>4 DEF Decided
  <2>6. BlockNext(b, k) = <<A[i + 1], NotTaken(src, A, i, c)>>
    <3>1. Enter[ins.yes] = lab[ins.yes] /\ Enter[ins.no] = lab[ins.no]
      BY <1>5, <1>12, <2>5
    <3>2. BlockNext(b, k) = <<Enter[ins.yes], Enter[ins.no]>>
      BY <1>11, <2>5 DEF BlockNext
    <3> QED
      BY <2>5, <3>1, <3>2
  <2>7. Closer(i) = c
    BY <1>1, <2>5, CloserIs
  <2>8. c \in 1 .. L /\ c + 1 \in 1 .. L + 1 /\ (c + 1 > L <=> ~(c < L))
    <3>1. c \in 1 .. L
      BY <1>3
    <3> HIDE DEF L
    <3> QED
      BY <1>2, <3>1
  <2>9. c < L => (c + 1) + 1 \in 1 .. L + 1 /\ (c + 1) + 1 = c + 2
    <3> HIDE DEF L
    <3> QED
      BY <1>2, <2>8
  <2>10. Otherwise(i) = NotTaken(src, A, i, c)
    <3>1. PICK p : p = c + 1
      OBVIOUS
    <3>2. Arrive[p] = A[p] /\ (p > L <=> ~(c < L)) /\ (c < L => Arrive[p + 1] = A[c + 2])
      BY <1>4, <2>8, <2>9, <3>1
    <3>3. Otherwise(i) = IF src[i] = "while" \/ p > L THEN Arrive[p]
                         ELSE IF src[p] = "elseif" THEN p
                         ELSE IF src[p] = "else" THEN Arrive[p + 1]
                         ELSE Arrive[p]
      BY <2>7, <3>1 DEF Otherwise
    <3>4. NotTaken(src, A, i, c) = IF src[i] = "while" THEN A[p]
                                   ELSE IF c < L /\ src[p] = "elseif" THEN p
                                   ELSE IF c < L /\ src[p] = "else" THEN A[c + 2]
                                   ELSE A[p]
      BY <3>1 DEF NotTaken, Skips
    <3> HIDE DEF L
    <3> QED
      BY <3>2, <3>3, <3>4
  <2> QED
    BY <1>10, <1>14, <2>6, <2>10 DEF SourceNext
<1> QED
  BY <1>13, <1>14

\* However loops and branches nest, the blocks that impl_func_def leaves
\* (src/src/llvm/llvm-ir/func.c and stmt.c) evaluate each statement and each
\* condition of the source once, and after it what the source says comes next,
\* if no else body ends in a plain statement.
THEOREM MeaningIsPreserved == Spec => []ControlFlowPreserved
<1>1. IInv /\ Means => ControlFlowPreserved
  <2> SUFFICES ASSUME IInv, Means, stack = <<>>, ~ElseEndsPlainly
               PROVE  SameMeaning
    BY DEF ControlFlowPreserved
  <2>1. PICK lab, out : Done(lab, out)
    BY WhenDone
  <2>2. Enter[1] = Arrive[1]
    <3>1. 1 \in DOMAIN blocks /\ lab[1] = Meaning[1]
      BY <2>1 DEF Done, Preserves
    <3>2. Enter[1] = lab[1]
      BY <2>1, <3>1, EnterIs DEF Done
    <3>3. 1 \in 1 .. Len(src) + 1
      <4>1. Len(src) \in Nat
        BY StateFacts
      <4> QED
        BY <4>1
    <3>4. Meaning[1] = Arrive[1]
      BY <2>1, <3>3, MeaningRespects DEF Done
    <3> QED
      BY <3>1, <3>2, <3>4
  <2>3. ASSUME NEW i \in Evaluated
        PROVE  /\ Cardinality(Places(i)) = 1
               /\ \A p \in Places(i) : BlockNext(p[1], p[2]) = SourceNext(i)
    <3>1. i \in EvaluatedIn(src)
      BY DEF Evaluated, EvaluatedIn
    <3>2. PICK b \in DOMAIN blocks : \E k \in DOMAIN blocks[b] :
                 blocks[b][k] = Eval(i) /\ Places(i) = {<<b, k>>}
      BY <2>1, <3>1, OnePlace
    <3> PICK k \in DOMAIN blocks[b] : blocks[b][k] = Eval(i) /\ Places(i) = {<<b, k>>}
      BY <3>2
    <3>3. Cardinality(Places(i)) = 1
      BY FS_Singleton
    <3>4. BlockNext(b, k) = SourceNext(i)
      BY <2>1, <3>1, NextIsNext
    <3>5. \A p \in Places(i) : p[1] = b /\ p[2] = k
      OBVIOUS
    <3> QED
      BY <3>3, <3>4, <3>5
  <2> QED
    BY <2>2, <2>3 DEF SameMeaning
<1> QED
  BY <1>1, MeaningInvariance, PTL
=============================================================================
