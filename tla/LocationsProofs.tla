--------------------------- MODULE LocationsProofs ---------------------------
(***************************************************************************)
(* Every character of a file reaches the scanner once, but for zero bytes  *)
(* and read errors; a token has the row of the last character that was     *)
(* read for it, and a column that is off by what was read for the one      *)
(* before.  For every length of the line buffer and all files.             *)
(*                                                                         *)
(* The invariant says which characters are in the buffer, in flex and      *)
(* still to be read, that rows were counted up to the line in the buffer,  *)
(* and how far a scanner that does not know the end of a token reads.      *)
(***************************************************************************)
EXTENDS Locations, FiniteSetTheorems, WellFoundedInduction, TLAPS

-----------------------------------------------------------------------------
(* Numbers.                                                                *)

LEMMA LeastIs ==
  ASSUME NEW S \in SUBSET Nat, S # {}
  PROVE  Min(S) \in S /\ \A y \in S : Min(S) <= y
<1> DEFINE R == OpToRel(<, Nat)
<1>1. IsWellFoundedOn(R, Nat)
  BY NatLessThanWellFounded
<1> HIDE DEF R
<1>2. PICK m \in S : \A y \in S : <<y, m>> \notin R
  BY <1>1, WFMin
<1>3. \A y \in S : ~(y < m)
  BY <1>2 DEF OpToRel, R
<1>4. m \in S /\ \A y \in S : m <= y
  BY <1>3
<1> QED
  BY <1>4 DEF Min

LEMMA GreatestIs ==
  ASSUME NEW S \in SUBSET Nat, S # {}, NEW b \in Nat, \A x \in S : x <= b
  PROVE  Max(S) \in S /\ \A y \in S : Max(S) >= y
<1> DEFINE T == {y \in Nat : b - y \in S}
<1>1. T \in SUBSET Nat /\ T # {}
  <2>1. PICK x \in S : TRUE
    OBVIOUS
  <2>2. b - x \in T
    OBVIOUS
  <2> QED
    BY <2>2
<1>2. Min(T) \in T /\ \A y \in T : Min(T) <= y
  <2> HIDE DEF T
  <2> QED
    BY <1>1, LeastIs
<1>3. PICK m \in S : Min(T) = b - m
  <2>1. b - Min(T) \in S /\ Min(T) = b - (b - Min(T))
    BY <1>2
  <2> QED
    BY <2>1
<1>4. \A y \in S : m >= y
  <2>1. \A y \in S : b - y \in T
    OBVIOUS
  <2>2. \A y \in S : b - m <= b - y
    BY <1>2, <1>3, <2>1
  <2> QED
    BY <2>2
<1>5. m \in S /\ \A y \in S : m >= y
  BY <1>4
<1> QED
  BY <1>5 DEF Max

-----------------------------------------------------------------------------
(* Tokens.                                                                 *)

\* What may become a longer token has no newline, or it begins with three
\* quotes.
LEMMA BeginningHasNoNewline ==
  ASSUME NEW u \in Seq(Char), IsToken(u), NEW n \in 1 .. Len(u) - 1
  PROVE  \/ \A k \in 1 .. n : u[k] # Newline
         \/ n >= 3 /\ \A k \in 1 .. 3 : u[k] = Quote
<1>1. Len(u) \in Nat /\ Len(u) > 1 /\ n \in Nat /\ n < Len(u)
  OBVIOUS
<1>2. CASE \A k \in 1 .. Len(u) : u[k] \in {"letter", "digit"}
  BY <1>1, <1>2 DEF Newline
<1>3. CASE u = <<"=", "=">>
  BY <1>1, <1>3 DEF Newline
<1>4. CASE \E p \in At(u, ".") : p < Len(u) /\ \A k \in 1 .. Len(u) : k # p => u[k] = "digit"
  <2>1. \A k \in 1 .. Len(u) : u[k] = "." \/ u[k] = "digit"
    BY <1>4 DEF At
  <2> QED
    BY <1>1, <2>1 DEF Newline
<1>5. CASE At(u, Newline) = {}
  BY <1>1, <1>5 DEF At
<1>6. CASE Len(u) = 3 /\ u[1] = "'" /\ u[2] # Newline /\ u[3] = "'"
  BY <1>1, <1>6 DEF Newline
<1>7. CASE Len(u) >= 6 /\ At(u, Quote) = (1 .. 3) \cup (Len(u) - 2 .. Len(u))
  <2>1. \A k \in 1 .. 3 : k \in At(u, Quote)
    BY <1>7
  <2>2. \A k \in 1 .. 3 : u[k] = Quote
    BY <2>1 DEF At
  <2>3. \A k \in 1 .. n : n < 3 => u[k] = Quote
    BY <2>2
  <2> QED
    BY <2>2, <2>3 DEF Newline, Quote
<1> QED
  <2>1. Len(u) # 1
    BY <1>1
  <2> QED
    BY <2>1, <1>2, <1>3, <1>4, <1>5, <1>6, <1>7, Zenon DEF IsToken

\* Without points, literals and strings it is a token already.
LEMMA BeginningIsToken ==
  ASSUME NEW u \in Seq(Char), IsToken(u), NEW s \in Seq(Char),
         Len(s) \in 1 .. Len(u) - 1, \A k \in 1 .. Len(s) : s[k] = u[k],
         \A k \in 1 .. Len(s) : s[k] \notin {".", "'", Quote}
  PROVE  IsToken(s)
<1>1. Len(u) \in Nat /\ Len(u) > 1 /\ Len(s) \in Nat /\ Len(s) >= 1 /\ Len(s) < Len(u)
      /\ 1 \in 1 .. Len(s) /\ \A k \in 1 .. Len(s) : k \in 1 .. Len(u)
  OBVIOUS
<1>2. CASE \A k \in 1 .. Len(u) : u[k] \in {"letter", "digit"}
  BY <1>1, <1>2 DEF IsToken
<1>3. CASE u = <<"=", "=">>
  BY <1>1, <1>3 DEF IsToken
<1>4. CASE \E p \in At(u, ".") : p < Len(u) /\ \A k \in 1 .. Len(u) : k # p => u[k] = "digit"
  <2>1. \A k \in 1 .. Len(u) : u[k] = "." \/ u[k] = "digit"
    BY <1>4 DEF At
  <2>2. \A k \in 1 .. Len(s) : s[k] = "digit"
    BY <1>1, <2>1
  <2> QED
    BY <2>2 DEF IsToken
<1>5. CASE u[1] = "#" /\ At(u, Newline) = {}
  <2>1. s[1] = "#" /\ At(s, Newline) = {}
    BY <1>1, <1>5 DEF At
  <2> QED
    BY <2>1 DEF IsToken
<1>6. CASE u[1] = "'"
  BY <1>1, <1>6
<1>7. CASE 1 \in At(u, Quote)
  BY <1>1, <1>7 DEF At
<1> QED
  <2>1. 1 \in {1, Len(u)} /\ 1 \in (1 .. 3) \cup (Len(u) - 2 .. Len(u))
    OBVIOUS
  <2> QED
    BY <1>1, <1>2, <1>3, <1>4, <1>5, <1>6, <1>7, <2>1 DEF IsToken

LEMMA UnfinishedIs ==
  ASSUME NEW s \in Seq(Char), s # <<>>, Unfinished(s)
  PROVE  \E u \in Seq(Char) : /\ IsToken(u) /\ Len(s) \in 1 .. Len(u) - 1
                              /\ \A k \in 1 .. Len(s) : s[k] = u[k]
<1>1. PICK t \in Completions : IsToken(s \o t)
  BY DEF Unfinished
<1>2. t \in Seq(Char) /\ Len(t) >= 1 /\ Len(t) \in Nat
  <2> DEFINE Good(x) == x \in Seq(Char) /\ Len(x) >= 1 /\ Len(x) \in Nat
  <2>1. {"letter", "digit", "=", "'", Quote} \subseteq Char
    BY DEF Char
  <2>2. Good(<<"letter">>) /\ Good(<<"digit">>) /\ Good(<<"=">>) /\ Good(<<"'">>)
    BY <2>1
  <2>3. Good(<<"letter", "'">>) /\ Good(<<Quote>>) /\ Good(<<Quote, Quote>>)
    BY <2>1
  <2>4. Good(<<Quote, Quote, Quote>>) /\ Good(<<Quote, Quote, Quote, Quote>>)
    BY <2>1
  <2> HIDE DEF Good
  <2>5. Good(t)
    BY <2>2, <2>3, <2>4, Zenon DEF Completions
  <2> QED
    BY <2>5 DEF Good
<1>3. s \o t \in Seq(Char) /\ Len(s \o t) = Len(s) + Len(t)
      /\ \A k \in 1 .. Len(s) : (s \o t)[k] = s[k]
  BY <1>2
<1>4. Len(s) \in 1 .. Len(s \o t) - 1
  BY <1>2, <1>3
<1> QED
  BY <1>1, <1>3, <1>4

\* The scanner takes the longest token that there is, which is a character at
\* least.
LEMMA TokenLengthIs ==
  ASSUME NEW s \in Seq(Char), s # <<>>
  PROVE  /\ TokenLength(s) \in 1 .. Len(s)
         /\ \A n \in 1 .. Len(s) : IsToken(SubSeq(s, 1, n)) => n <= TokenLength(s)
<1> DEFINE S == {n \in 1 .. Len(s) : IsToken(SubSeq(s, 1, n))}
<1>1. Len(s) \in Nat /\ Len(s) >= 1
  OBVIOUS
<1>2. Len(SubSeq(s, 1, 1)) = 1
  BY <1>1
<1>3. 1 \in S
  BY <1>1, <1>2 DEF IsToken
<1>4. S \in SUBSET Nat /\ \A x \in S : x <= Len(s)
  OBVIOUS
<1>5. Max(S) \in S /\ \A y \in S : Max(S) >= y
  <2> HIDE DEF S
  <2> QED
    BY <1>1, <1>3, <1>4, GreatestIs
<1>6. TokenLength(s) = Max(S)
  BY DEF TokenLength
<1> QED
  BY <1>5, <1>6

-----------------------------------------------------------------------------
(* Rows and columns.                                                       *)

LEMMA FinitelyMany ==
  ASSUME NEW k \in Nat
  PROVE  IsFiniteSet(NewlinesBefore(k)) /\ Cardinality(NewlinesBefore(k)) \in Nat
         /\ Row(k) \in Nat
<1>1. IsFiniteSet(1 .. k - 1) /\ NewlinesBefore(k) \subseteq 1 .. k - 1
  BY FS_Interval DEF NewlinesBefore
<1>2. IsFiniteSet(NewlinesBefore(k)) /\ Cardinality(NewlinesBefore(k)) \in Nat
  BY <1>1, FS_Subset, FS_CardinalityType
<1> QED
  BY <1>2 DEF Row

LEMMA FirstRow == Row(1) = 1
<1>1. NewlinesBefore(1) = {}
  BY DEF NewlinesBefore
<1> QED
  BY <1>1, FS_EmptySet DEF Row

\* An earlier character is in no later row.
LEMMA EarlierRow ==
  ASSUME NEW j \in Nat, NEW k \in Nat, j <= k PROVE Row(j) <= Row(k)
<1>1. NewlinesBefore(j) \subseteq NewlinesBefore(k)
  BY DEF NewlinesBefore
<1>2. Cardinality(NewlinesBefore(j)) <= Cardinality(NewlinesBefore(k))
  BY <1>1, FinitelyMany, FS_Subset
<1> DEFINE c == Cardinality(NewlinesBefore(j))
           d == Cardinality(NewlinesBefore(k))
<1>3. c \in Nat /\ d \in Nat
  BY FinitelyMany
<1> HIDE DEF c, d
<1>4. 1 + c <= 1 + d
  BY <1>2, <1>3 DEF c, d
<1> QED
  BY <1>4 DEF Row, c, d

\* Characters without a newline between them are in one row.
LEMMA SameRow ==
  ASSUME NEW a \in Nat, NEW k \in Nat, k > a,
         \A x \in a + 1 .. k - 1 : text[x] # Newline
  PROVE  /\ NewlinesBefore(k) = NewlinesBefore(a + 1)
         /\ Row(k) = Row(a + 1)
         /\ a = 0 \/ text[a] = Newline => Column(k) = k - a
<1>1. NewlinesBefore(k) = NewlinesBefore(a + 1)
  BY DEF NewlinesBefore
<1>2. CASE a = 0
  <2>1. NewlinesBefore(k) = {}
    BY <1>1, <1>2 DEF NewlinesBefore
  <2> QED
    BY <1>1, <1>2, <2>1 DEF Row, Column
<1>3. CASE a # 0 /\ text[a] = Newline
  <2> DEFINE S == NewlinesBefore(k)
  <2>1. a \in S /\ \A y \in S : y \in Nat /\ y <= a
    BY <1>1, <1>3 DEF NewlinesBefore
  <2>2. \A x \in S : (\A y \in S : x >= y) => x = a
    BY <2>1
  <2> HIDE DEF S
  <2>3. Max(S) = a
    BY <2>1, <2>2 DEF Max
  <2>4. Column(k) = k - a
    BY <2>1, <2>3 DEF Column, S
  <2> QED
    BY <1>1, <2>4 DEF Row
<1> QED
  BY <1>1, <1>2, <1>3 DEF Row

\* Behind the last character b of a line, the row has one newline more, if b
\* is one.
LEMMA NextRow ==
  ASSUME NEW a \in Nat, NEW b \in Nat, b > a,
         \A x \in a + 1 .. b - 1 : text[x] # Newline
  PROVE  /\ Row(b + 1) <= Row(a + 1) + 1
         /\ text[b] = Newline => Row(b + 1) = Row(a + 1) + 1
<1>1. Row(b) = Row(a + 1) /\ Row(b) \in Nat
  BY SameRow, FinitelyMany
<1>2. CASE text[b] = Newline
  <2>1. NewlinesBefore(b + 1) = NewlinesBefore(b) \cup {b} /\ b \notin NewlinesBefore(b)
    BY <1>2 DEF NewlinesBefore
  <2>2. Cardinality(NewlinesBefore(b + 1)) = Cardinality(NewlinesBefore(b)) + 1
    BY <2>1, FinitelyMany, FS_AddElement
  <2>3. Cardinality(NewlinesBefore(b)) \in Nat
    BY FinitelyMany
  <2>4. Row(b + 1) = Row(b) + 1
    BY <2>2, <2>3 DEF Row
  <2> QED
    BY <1>1, <2>4
<1>3. CASE text[b] # Newline
  <2>1. NewlinesBefore(b + 1) = NewlinesBefore(b)
    BY <1>3 DEF NewlinesBefore
  <2>2. Row(b + 1) = Row(b)
    BY <2>1 DEF Row
  <2> QED
    BY <1>1, <1>3, <2>2
<1> QED
  BY <1>2, <1>3

\* What a file is does not change while it is read.
LEMMA SameText ==
  ASSUME text' = text
  PROVE  /\ LinesFit' <=> LinesFit
         /\ NoZeros' <=> NoZeros
         /\ OneLiners' <=> OneLiners
         /\ Lookahead1' <=> Lookahead1
         /\ \A k : /\ Row(k)' = Row(k) /\ Column(k)' = Column(k)
                   /\ BehindZero(k)' <=> BehindZero(k)
<1>1. \A k : NewlinesBefore(k)' = NewlinesBefore(k)
  BY DEF NewlinesBefore
<1>2. ASSUME NEW k PROVE Row(k)' = Row(k) /\ Column(k)' = Column(k)
  <2>1. NewlinesBefore(k)' = NewlinesBefore(k)
    BY <1>1
  <2>2. Row(k)' = Row(k)
    BY <2>1 DEF Row
  <2>3. Column(k)' = Column(k)
    BY <2>1 DEF Column
  <2> QED
    BY <2>2, <2>3
<1>3. LinesFit' <=> LinesFit
  BY <1>2 DEF LinesFit
<1>4. /\ NoZeros' <=> NoZeros
      /\ OneLiners' <=> OneLiners
      /\ Lookahead1' <=> Lookahead1
  BY DEF NoZeros, OneLiners, Lookahead1, At
<1>5. \A k : BehindZero(k)' <=> BehindZero(k)
  BY DEF BehindZero
<1> QED
  BY <1>2, <1>3, <1>4, <1>5

-----------------------------------------------------------------------------
(* The inductive invariant.                                                *)

Typed ==
  /\ text \in Seq(Char) /\ pending \in Seq(Nat)
  /\ offset \in Nat /\ line \in Nat /\ lBuffer \in Nat /\ nBuffer \in Nat
  /\ nRow \in Nat /\ nTokenNextStart \in Nat /\ scanned \in Nat /\ looked \in Nat
  /\ eof \in BOOLEAN /\ flex \in {"closed", "reading", "ended"}

\* The last character that flex can have.
Reached == IF flex = "reading" THEN line + nBuffer ELSE offset

\* Where what is in the buffer and in flex stands in the file.
Places ==
  /\ line + lBuffer <= offset /\ offset <= Len(text) /\ offset < line + MAX_READ_BUFFER_SIZE
  /\ nBuffer <= lBuffer /\ nTokenNextStart <= MAX_READ_BUFFER_SIZE
  /\ scanned <= Reached
  /\ \A k \in 1 .. Len(pending) : scanned < pending[k] /\ pending[k] <= Reached
  /\ \A j \in 1 .. Len(pending) : \A k \in 1 .. Len(pending) : j < k => pending[j] < pending[k]

\* Before a file and behind the end of it.
Ends ==
  /\ eof => flex = "ended"
  /\ flex = "ended" => nBuffer = 0 /\ nTokenNextStart = 1
  /\ flex = "closed" => Init

\* Each line, or part of one, was counted.
Lines ==
  /\ \A x \in line + 1 .. offset - 1 : text[x] # Newline
  /\ offset = 0 => line = 0 /\ nRow = 0
  /\ offset > 0 => line < offset /\ nRow >= Row(offset)
  /\ LinesFit => /\ line = 0 \/ text[line] = Newline
                 /\ offset > 0 /\ offset < Len(text) => text[offset] = Newline
                 /\ offset > 0 => nRow = Row(offset)

\* Nothing is missing before the place that flex has reached.
Whole ==
  /\ line + lBuffer = offset
  /\ \A k \in 1 .. Len(pending) : pending[k] = scanned + k
  /\ scanned + Len(pending) = Reached
  /\ flex = "reading" /\ nBuffer = 0 => FlexWants

\* A line ends what flex looks at.
OneLine == \A k \in 1 .. Len(pending) - 1 : text[pending[k]] # Newline

\* The next token starts where its column says, but for what was looked at.
Columns ==
  flex = "reading" /\ offset > 0 =>
    line <= scanned /\ nTokenNextStart + line = scanned + 1 + looked

\* All but the last character that flex has are a token.
Simple ==
  /\ looked <= 1
  /\ Len(pending) > 1 => IsToken(SubSeq(Pending, 1, Len(pending) - 1))

Basics == Typed /\ Places /\ Ends /\ EveryCharacterOnce
Parts  == /\ NoZeros => Whole
          /\ NoZeros /\ OneLiners => OneLine
          /\ LinesFit /\ NoZeros /\ OneLiners => Columns
          /\ Lookahead1 => Simple
IInv == Basics /\ Lines /\ Parts /\ RowIsRight /\ ColumnOffByLookahead

LEMMA InitIInv == Init => IInv
<1> SUFFICES ASSUME Init PROVE IInv
  OBVIOUS
<1>1. Len(text) = 0 /\ Len(pending) = 0 /\ flex = "closed" /\ Reached = 0
  BY DEF Init, Reached
<1>2. Typed
  <2>1. text \in Seq(Char) /\ pending \in Seq(Nat)
    BY DEF Init
  <2> QED
    BY <2>1 DEF Init, Typed
<1>3. Places
  BY <1>1, BufferAssumption DEF Init, Places
<1>4. Ends
  BY DEF Init, Ends
<1>5. EveryCharacterOnce
  BY <1>1 DEF Init, EveryCharacterOnce
<1>6. Lines
  BY <1>1 DEF Init, Lines
<1>7. Whole /\ OneLine /\ Columns
  BY <1>1 DEF Init, Whole, OneLine, Columns
<1>8. Simple
  BY <1>1 DEF Init, Simple
<1>9. RowIsRight /\ ColumnOffByLookahead
  BY DEF Init, RowIsRight, ColumnOffByLookahead
<1> QED
  BY <1>2, <1>3, <1>4, <1>5, <1>6, <1>7, <1>8, <1>9 DEF IInv, Basics, Parts

\* The place of the token stays while the file does.
LEMMA TokenStays ==
  ASSUME IInv, text' = text, token' = token
  PROVE  RowIsRight' /\ ColumnOffByLookahead'
BY SameText DEF IInv, RowIsRight, ColumnOffByLookahead

LEMMA PendingIs ==
  ASSUME Typed, Places
  PROVE  /\ Pending \in Seq(Char) /\ Len(Pending) = Len(pending) /\ Len(pending) \in Nat
         /\ \A k \in 1 .. Len(pending) :
              Pending[k] = text[pending[k]] /\ pending[k] \in 1 .. Len(text) /\ pending[k] <= offset
         /\ Pending = <<>> <=> pending = <<>>
<1>1. Len(pending) \in Nat /\ Reached <= offset /\ offset <= Len(text) /\ Reached \in Nat
  BY DEF Typed, Places, Reached
<1>2. \A k \in 1 .. Len(pending) : pending[k] \in 1 .. Len(text) /\ pending[k] <= offset
  BY <1>1 DEF Typed, Places
<1>3. Pending \in Seq(Char) /\ Len(Pending) = Len(pending)
  <2>1. Pending \in [1 .. Len(pending) -> Char]
    BY <1>2 DEF Pending, Typed
  <2> QED
    BY <1>1, <2>1
<1>4. \A k \in 1 .. Len(pending) : Pending[k] = text[pending[k]]
  BY DEF Pending
<1>5. Pending = <<>> <=> pending = <<>>
  BY <1>3 DEF Typed
<1> QED
  BY <1>1, <1>2, <1>3, <1>4, <1>5

\* A scanner that asks for more has no newline, unless of a string over several
\* lines.
LEMMA WantsNoNewline ==
  ASSUME Typed, Places, NoZeros => Whole, FlexWants, NoZeros, OneLiners
  PROVE  \A k \in 1 .. Len(pending) : text[pending[k]] # Newline
<1> SUFFICES ASSUME pending # <<>> PROVE \A k \in 1 .. Len(pending) : text[pending[k]] # Newline
  BY DEF Typed
<1>1. Unfinished(Pending) /\ Pending \in Seq(Char) /\ Pending # <<>>
  BY PendingIs DEF FlexWants
<1>2. PICK u \in Seq(Char) : /\ IsToken(u) /\ Len(Pending) \in 1 .. Len(u) - 1
                             /\ \A k \in 1 .. Len(Pending) : Pending[k] = u[k]
  BY <1>1, UnfinishedIs
<1>3. CASE \A k \in 1 .. Len(Pending) : u[k] # Newline
  BY <1>2, <1>3, PendingIs
<1>4. CASE Len(Pending) >= 3 /\ \A k \in 1 .. 3 : u[k] = Quote
  <2>1. \A k \in 1 .. 3 : k \in 1 .. Len(pending) /\ k \in 1 .. Len(Pending)
    BY <1>4, PendingIs
  <2>2. \A k \in 1 .. 3 : text[pending[k]] = Quote /\ pending[k] = scanned + k
                          /\ pending[k] \in 1 .. Len(text)
    BY <1>2, <1>4, <2>1, PendingIs DEF Whole
  <2>3. scanned + 3 \in 3 .. Len(text) /\ scanned \in Nat
    BY <2>2 DEF Typed
  <2>4. \A x \in scanned + 3 - 2 .. scanned + 3 : \E k \in 1 .. 3 : x = scanned + k
    <3> TAKE x \in scanned + 3 - 2 .. scanned + 3
    <3>1. x - scanned \in 1 .. 3 /\ x = scanned + (x - scanned)
      BY <2>3
    <3> QED
      BY <3>1
  <2>5. \A x \in scanned + 3 - 2 .. scanned + 3 : text[x] = Quote
    BY <2>2, <2>4
  <2> QED
    BY <2>3, <2>5 DEF OneLiners
<1> QED
  BY <1>2, <1>3, <1>4, BeginningHasNoNewline

-----------------------------------------------------------------------------
(* A character comes from the line in the buffer.                          *)

LEMMA NextCharStep == IInv /\ NextChar => IInv'
<1> SUFFICES ASSUME IInv, NextChar PROVE IInv'
  OBVIOUS
<1> DEFINE c == line + nBuffer + 1
           l == Len(pending)
<1>1. /\ FlexWants /\ flex = "reading" /\ nBuffer < lBuffer
      /\ nBuffer' = nBuffer + 1 /\ pending' = Append(pending, c)
      /\ UNCHANGED <<text, offset, line, lBuffer, nRow, nTokenNextStart, eof, flex, scanned,
                     looked, token>>
  BY DEF NextChar, Deliver, FlexWants
<1>2. Typed /\ Places /\ Ends /\ EveryCharacterOnce /\ Lines /\ Parts
  BY DEF IInv, Basics
<1>3. /\ c \in Nat /\ l \in Nat /\ Reached = line + nBuffer /\ Reached' = c
      /\ c \in 1 .. Len(text) /\ c <= offset /\ line < c
  BY <1>1, <1>2 DEF Typed, Places, Reached
<1>4. /\ pending' \in Seq(Nat) /\ Len(pending') = l + 1 /\ pending'[l + 1] = c
      /\ \A k \in 1 .. l : pending'[k] = pending[k]
  BY <1>1, <1>2, <1>3 DEF Typed
<1> HIDE DEF c, l
<1>5. \A k \in 1 .. l + 1 : k \in 1 .. l \/ k = l + 1
  BY <1>3
<1>6. /\ scanned < c /\ scanned <= c
      /\ \A k \in 1 .. l : scanned < pending[k] /\ pending[k] < c /\ pending[k] <= c
  BY <1>2, <1>3 DEF Typed, Places, c, l
<1>7. Typed'
  BY <1>1, <1>2, <1>4 DEF Typed
<1>8. Places'
  <2>1. scanned < c /\ \A k \in 1 .. l + 1 : scanned < pending'[k] /\ pending'[k] <= c
    <3>1. c <= c
      BY <1>3
    <3> QED
      BY <1>4, <1>5, <1>6, <3>1
  <2>2. \A j \in 1 .. l + 1 : \A k \in 1 .. l + 1 : j < k => pending'[j] < pending'[k]
    <3> TAKE j \in 1 .. l + 1
    <3> TAKE k \in 1 .. l + 1
    <3> HAVE j < k
    <3>1. j \in 1 .. l
      BY <1>3
    <3>2. CASE k \in 1 .. l
      BY <1>2, <1>4, <3>1, <3>2 DEF Places, l
    <3>3. CASE k = l + 1
      BY <1>4, <1>6, <3>1, <3>3
    <3> QED
      BY <1>5, <3>2, <3>3
  <2>3. line' + lBuffer' <= offset' /\ offset' <= Len(text') /\ nBuffer' <= lBuffer'
        /\ offset' < line' + MAX_READ_BUFFER_SIZE /\ nTokenNextStart' <= MAX_READ_BUFFER_SIZE
    BY <1>1, <1>2 DEF Places, Typed
  <2>4. scanned' <= Reached'
    BY <1>1, <1>3, <1>6
  <2> QED
    BY <1>1, <1>3, <1>4, <2>1, <2>2, <2>3, <2>4 DEF Places
<1>9. Ends'
  BY <1>1, <1>2 DEF Ends
<1>10. EveryCharacterOnce'
  <2>1. \A k \in 1 .. l + 1 : pending'[k] > (IF k = 1 THEN scanned ELSE pending'[k - 1])
    <3> TAKE k \in 1 .. l + 1
    <3>1. pending'[k] > scanned
      BY <1>1, <1>3, <1>4, <1>8 DEF Places, Typed
    <3>2. k # 1 => k - 1 \in 1 .. l + 1 /\ k - 1 < k
      BY <1>3
    <3>3. k # 1 => pending'[k] > pending'[k - 1]
      BY <1>3, <1>4, <1>7, <1>8, <3>2 DEF Places, Typed
    <3> QED
      BY <3>1, <3>3
  <2>2. \A k \in 1 .. l + 1 : pending'[k] <= line' + nBuffer'
    <3>1. line' + nBuffer' = c
      BY <1>1, <1>2 DEF Typed, c
    <3>2. c <= c
      BY <1>3
    <3> QED
      BY <1>4, <1>5, <1>6, <3>1, <3>2
  <2>3. ASSUME NEW x \in scanned + 1 .. Len(text)
        PROVE  \/ \E k \in 1 .. l + 1 : pending'[k] = x
               \/ StillToCome(x)'
               \/ BehindZero(x)'
    <3>1. \/ \E k \in 1 .. l : pending[k] = x
          \/ StillToCome(x)
          \/ BehindZero(x)
      BY <1>1, <1>2 DEF EveryCharacterOnce, Failed, l
    <3>2. CASE \E k \in 1 .. l : pending[k] = x
      <4>1. PICK k \in 1 .. l : pending[k] = x
        BY <3>2
      <4>2. k \in 1 .. l + 1
        BY <1>3
      <4> QED
        BY <1>4, <4>1, <4>2
    <3>3. CASE StillToCome(x)
      <4>1. x = c \/ StillToCome(x)'
        BY <1>1, <1>2, <3>3 DEF StillToCome, c, Typed
      <4>2. l + 1 \in 1 .. l + 1
        BY <1>3
      <4> QED
        BY <1>4, <4>1, <4>2
    <3>4. CASE BehindZero(x)
      BY <1>1, <3>4, SameText
    <3> QED
      BY <3>1, <3>2, <3>3, <3>4
  <2> QED
    BY <1>1, <1>4, <2>1, <2>2, <2>3 DEF EveryCharacterOnce
<1>11. Lines'
  BY <1>1, <1>2, SameText DEF Lines
<1>12. NoZeros' => Whole'
  <2> SUFFICES ASSUME NoZeros PROVE Whole'
    BY <1>1, SameText
  <2>1. Whole
    BY <1>2 DEF Parts
  <2>2. scanned + l = line + nBuffer
    BY <1>3, <2>1 DEF Whole, l
  <2>3. scanned + (l + 1) = c
    BY <1>2, <1>3, <2>2 DEF Typed, c
  <2>4. \A k \in 1 .. l + 1 : pending'[k] = scanned + k
    BY <1>4, <1>5, <2>1, <2>3 DEF Whole, l
  <2>5. nBuffer' # 0
    BY <1>1, <1>2 DEF Typed
  <2> QED
    BY <1>1, <1>3, <1>4, <2>1, <2>3, <2>4, <2>5 DEF Whole
<1>13. NoZeros' /\ OneLiners' => OneLine'
  <2> SUFFICES ASSUME NoZeros, OneLiners PROVE OneLine'
    BY <1>1, SameText
  <2>1. \A k \in 1 .. l : text[pending[k]] # Newline
    BY <1>1, <1>2, WantsNoNewline DEF Parts, l
  <2>2. Len(pending') - 1 = l
    BY <1>3, <1>4
  <2> QED
    BY <1>1, <1>4, <2>1, <2>2 DEF OneLine
<1>14. LinesFit' /\ NoZeros' /\ OneLiners' => Columns'
  BY <1>1, <1>2, SameText DEF Parts, Columns
<1>15. Lookahead1' => Simple'
  <2> SUFFICES ASSUME Lookahead1 PROVE Simple'
    BY <1>1, SameText
  <2>1. looked' <= 1
    BY <1>1, <1>2 DEF Parts, Simple
  <2>2. CASE l = 0
    BY <1>4, <2>1, <2>2 DEF Simple
  <2>3. CASE l > 0
    <3>1. Unfinished(Pending) /\ Pending \in Seq(Char) /\ Pending # <<>> /\ Len(Pending) = l
      BY <1>1, <1>2, <2>3, PendingIs DEF FlexWants, l
    <3>2. PICK u \in Seq(Char) : /\ IsToken(u) /\ Len(Pending) \in 1 .. Len(u) - 1
                                 /\ \A k \in 1 .. Len(Pending) : Pending[k] = u[k]
      BY <3>1, UnfinishedIs
    <3>3. \A k \in 1 .. Len(Pending) : Pending[k] \notin {".", "'", Quote}
      BY <1>2, <3>1, PendingIs DEF Lookahead1, l
    <3>4. IsToken(Pending)
      BY <3>1, <3>2, <3>3, BeginningIsToken
    <3>5. SubSeq(Pending', 1, Len(pending') - 1) = Pending
      <4>1. Pending' \in Seq(Char) /\ Len(Pending') = l + 1 /\ Len(pending') - 1 = l
        <5>1. \A k \in 1 .. l + 1 : text[pending'[k]] \in Char
          <6>1. \A k \in 1 .. l : pending[k] \in 1 .. Len(text)
            BY <1>2, PendingIs DEF l
          <6>2. \A k \in 1 .. l + 1 : pending'[k] \in 1 .. Len(text)
            BY <1>3, <1>4, <1>5, <6>1
          <6> QED
            BY <1>2, <6>2 DEF Typed
        <5>2. Pending' = [k \in 1 .. l + 1 |-> text[pending'[k]]]
          BY <1>1, <1>4 DEF Pending
        <5>3. Pending' \in [1 .. l + 1 -> Char]
          BY <5>1, <5>2
        <5> QED
          BY <1>3, <1>4, <5>3
      <4>2. \A k \in 1 .. l : Pending'[k] = Pending[k]
        BY <1>1, <1>4, <1>5 DEF Pending, l
      <4> QED
        BY <1>3, <3>1, <4>1, <4>2
    <3> QED
      BY <2>1, <3>4, <3>5 DEF Simple
  <2> QED
    BY <1>3, <2>2, <2>3
<1>16. Parts'
  BY <1>12, <1>13, <1>14, <1>15 DEF Parts
<1>17. RowIsRight' /\ ColumnOffByLookahead'
  BY <1>1, TokenStays
<1> QED
  BY <1>7, <1>8, <1>9, <1>10, <1>11, <1>16, <1>17 DEF IInv, Basics

-----------------------------------------------------------------------------
(* The next line, or the end.                                              *)

\* What fgets reads, and what strlen finds of it.
LEMMA LineIs ==
  ASSUME Typed, offset < Len(text)
  PROVE  /\ LineEnd \in offset + 1 .. Len(text) /\ LineEnd < offset + MAX_READ_BUFFER_SIZE
         /\ \A x \in offset + 1 .. LineEnd - 1 : text[x] # Newline
         /\ \/ text[LineEnd] = Newline
            \/ LineEnd = Len(text)
            \/ LineEnd = offset + MAX_READ_BUFFER_SIZE - 1
         /\ LineLength \in 0 .. LineEnd - offset
         /\ LineLength = LineEnd - offset \/ text[offset + LineLength + 1] = Zero
<1> DEFINE S == {k \in offset + 1 .. Len(text) :
                   text[k] = Newline \/ k = offset + MAX_READ_BUFFER_SIZE - 1 \/ k = Len(text)}
           T == {k \in 0 .. LineEnd - offset :
                   k = LineEnd - offset \/ text[offset + k + 1] = Zero}
<1>1. offset \in Nat /\ Len(text) \in Nat /\ MAX_READ_BUFFER_SIZE \in Nat
      /\ MAX_READ_BUFFER_SIZE > 1
  BY BufferAssumption DEF Typed
<1>2. Min(S) \in S /\ \A y \in S : Min(S) <= y
  <2>1. S \in SUBSET Nat /\ Len(text) \in S
    BY <1>1
  <2> HIDE DEF S
  <2> QED
    BY <2>1, LeastIs
<1>3. LineEnd = Min(S)
  BY DEF LineEnd
<1>4. LineEnd \in S /\ \A y \in S : LineEnd <= y
  <2> HIDE DEF S
  <2> QED
    BY <1>2, <1>3
<1>5. LineEnd \in offset + 1 .. Len(text)
  BY <1>4
<1>6. LineEnd < offset + MAX_READ_BUFFER_SIZE
  <2>1. offset + MAX_READ_BUFFER_SIZE - 1 \in offset + 1 .. Len(text) =>
          LineEnd <= offset + MAX_READ_BUFFER_SIZE - 1
    BY <1>4
  <2> QED
    BY <1>1, <1>5, <2>1
<1>7. \A x \in offset + 1 .. LineEnd - 1 : text[x] # Newline
  <2> TAKE x \in offset + 1 .. LineEnd - 1
  <2>1. x \in offset + 1 .. Len(text) /\ ~(LineEnd <= x)
    BY <1>1, <1>5
  <2> QED
    BY <1>4, <2>1
<1>8. LineLength \in T
  <2>1. T \in SUBSET Nat /\ LineEnd - offset \in T
    BY <1>1, <1>5
  <2>2. LineLength = Min(T)
    BY DEF LineLength
  <2> HIDE DEF T
  <2> QED
    BY <2>1, <2>2, LeastIs
<1> QED
  BY <1>4, <1>5, <1>6, <1>7, <1>8

LEMMA NoZerosWhole ==
  ASSUME Typed, offset < Len(text), NoZeros PROVE LineLength = LineEnd - offset
<1>1. CASE LineLength = LineEnd - offset
  BY <1>1
<1>2. CASE LineLength # LineEnd - offset /\ text[offset + LineLength + 1] = Zero
  <2>1. offset + LineLength + 1 \in 1 .. Len(text)
    BY <1>2, LineIs DEF Typed
  <2> QED
    BY <1>2, <2>1 DEF NoZeros, At
<1> QED
  BY <1>1, <1>2, LineIs

\* What all of them have in common.
LEMMA FetchLineIs ==
  ASSUME Typed, Places, FetchLine
  PROVE  /\ flex = "reading" /\ nBuffer = lBuffer /\ Reached = line + lBuffer /\ Reached <= offset
         /\ \A k \in 1 .. Len(pending) : scanned < pending[k] /\ pending[k] <= offset
         /\ scanned <= offset
<1>1. flex = "reading" /\ nBuffer = lBuffer
  BY DEF FetchLine, FlexWants, Typed, Places
<1>2. Reached = line + lBuffer /\ Reached <= offset /\ Reached \in Nat
  BY <1>1 DEF Reached, Places, Typed
<1>3. scanned <= offset /\ \A k \in 1 .. Len(pending) : scanned < pending[k] /\ pending[k] <= offset
  BY <1>2 DEF Places, Typed
<1> QED
  BY <1>1, <1>2, <1>3

LEMMA GetNextLineStep == IInv /\ GetNextLine => IInv'
<1> SUFFICES ASSUME IInv, GetNextLine PROVE IInv'
  OBVIOUS
<1> DEFINE e == LineEnd
           n == LineLength
<1>1. /\ FlexWants /\ offset < Len(text) /\ FetchLine
      /\ nBuffer' = 0 /\ nTokenNextStart' = 1 /\ looked' = 0
      /\ line' = offset /\ offset' = e /\ nRow' = nRow + 1 /\ lBuffer' = n
      /\ UNCHANGED <<text, pending, scanned, token, eof, flex>>
  BY DEF GetNextLine, FetchLine
<1>2. Typed /\ Places /\ Ends /\ EveryCharacterOnce /\ Lines /\ Parts
  BY DEF IInv, Basics
<1>3. /\ flex = "reading" /\ flex' = "reading" /\ nBuffer = lBuffer /\ Reached = line + lBuffer
      /\ Reached <= offset /\ scanned <= offset
      /\ \A k \in 1 .. Len(pending) : scanned < pending[k] /\ pending[k] <= offset
  BY <1>1, <1>2, FetchLineIs
<1>4. /\ e \in offset + 1 .. Len(text) /\ e < offset + MAX_READ_BUFFER_SIZE
      /\ \A x \in offset + 1 .. e - 1 : text[x] # Newline
      /\ text[e] = Newline \/ e = Len(text) \/ e = offset + MAX_READ_BUFFER_SIZE - 1
      /\ n \in 0 .. e - offset
      /\ n = e - offset \/ text[offset + n + 1] = Zero
  BY <1>1, <1>2, LineIs
<1>5. NoZeros => n = e - offset
  BY <1>1, <1>2, NoZerosWhole
<1> HIDE DEF e, n
<1>6. offset \in Nat /\ e \in Nat /\ n \in Nat /\ e > offset /\ offset + n <= e /\ e <= Len(text)
      /\ Len(text) \in Nat
  BY <1>2, <1>4 DEF Typed
<1>7. Reached' = offset
  BY <1>1, <1>3, <1>6 DEF Reached
<1>8. Typed'
  BY <1>1, <1>2, <1>6 DEF Typed
<1>9. Places'
  <2>1. line' + lBuffer' <= offset' /\ offset' <= Len(text') /\ nBuffer' <= lBuffer'
        /\ offset' < line' + MAX_READ_BUFFER_SIZE /\ nTokenNextStart' <= MAX_READ_BUFFER_SIZE
    BY <1>1, <1>4, <1>6, BufferAssumption
  <2> QED
    BY <1>1, <1>2, <1>3, <1>7, <2>1 DEF Places
<1>10. Ends'
  BY <1>1, <1>2, <1>3 DEF Ends
<1>11. EveryCharacterOnce'
  <2>1. \A k \in 1 .. Len(pending) : pending[k] > (IF k = 1 THEN scanned ELSE pending[k - 1])
    BY <1>2 DEF EveryCharacterOnce
  <2>2. \A k \in 1 .. Len(pending) : pending[k] <= line' + nBuffer'
    BY <1>1, <1>3, <1>6
  <2>3. ASSUME NEW x \in scanned + 1 .. Len(text)
        PROVE  \/ \E k \in 1 .. Len(pending) : pending[k] = x
               \/ StillToCome(x)'
               \/ BehindZero(x)'
    <3>1. \/ \E k \in 1 .. Len(pending) : pending[k] = x
          \/ StillToCome(x)
          \/ BehindZero(x)
      BY <1>2, <1>3 DEF EveryCharacterOnce, Failed
    <3>2. CASE StillToCome(x)
      <4>1. x \in Nat /\ x > offset
        BY <1>2, <1>3, <3>2 DEF StillToCome, Typed, Places
      <4>2. CASE x <= offset + n \/ x > e
        BY <1>1, <1>3, <1>6, <4>1, <4>2 DEF StillToCome
      <4>3. CASE x > offset + n /\ x <= e
        <5>1. offset + n + 1 \in 1 .. x /\ text[offset + n + 1] = Zero
          BY <1>4, <1>6, <4>1, <4>3
        <5>2. \A y \in offset + n + 1 .. x - 1 : text[y] # Newline
          BY <1>4, <1>6, <4>1, <4>3
        <5>3. BehindZero(x)
          BY <5>1, <5>2 DEF BehindZero
        <5> QED
          BY <1>1, <5>3, SameText
      <4> QED
        BY <1>6, <4>1, <4>2, <4>3
    <3>3. CASE BehindZero(x)
      BY <1>1, <3>3, SameText
    <3> QED
      BY <3>1, <3>2, <3>3
  <2> QED
    BY <1>1, <2>1, <2>2, <2>3 DEF EveryCharacterOnce
<1>12. Lines'
  <2>1. offset = 0 => Row(e) = 1 /\ nRow = 0
    <3> SUFFICES ASSUME offset = 0 PROVE Row(e) = 1 /\ nRow = 0
      OBVIOUS
    <3>1. Row(e) = Row(0 + 1)
      BY <1>4, <1>6, SameRow
    <3> QED
      BY <1>2, <3>1, FirstRow DEF Lines
  <2>2. offset > 0 => /\ Row(e) = Row(offset + 1)
                      /\ Row(offset + 1) <= Row(offset) + 1
                      /\ text[offset] = Newline => Row(offset + 1) = Row(offset) + 1
    <3> SUFFICES ASSUME offset > 0
                 PROVE  /\ Row(e) = Row(offset + 1)
                        /\ Row(offset + 1) <= Row(offset) + 1
                        /\ text[offset] = Newline => Row(offset + 1) = Row(offset) + 1
      OBVIOUS
    <3>1. Row(e) = Row(offset + 1)
      BY <1>4, <1>6, SameRow
    <3>2. PICK m \in Nat : m + 1 = offset
      <4>1. offset - 1 \in Nat /\ offset - 1 + 1 = offset
        BY <1>6
      <4> QED
        BY <4>1
    <3>3. offset > m /\ \A x \in m + 1 .. offset - 1 : text[x] # Newline
      BY <1>6, <3>2
    <3>4. /\ Row(offset + 1) <= Row(m + 1) + 1
          /\ text[offset] = Newline => Row(offset + 1) = Row(m + 1) + 1
      BY <1>6, <3>3, NextRow
    <3> QED
      BY <3>1, <3>2, <3>4
  <2>3. nRow' >= Row(e) /\ Row(offset) \in Nat /\ Row(e) \in Nat /\ Row(offset + 1) \in Nat
    <3>1. Row(offset) \in Nat /\ Row(e) \in Nat /\ Row(offset + 1) \in Nat
      <4>1. offset + 1 \in Nat
        BY <1>6
      <4> QED
        BY <1>6, <4>1, FinitelyMany
    <3>2. offset > 0 => nRow >= Row(offset)
      BY <1>2 DEF Lines
    <3> QED
      BY <1>1, <1>2, <1>6, <2>1, <2>2, <3>1, <3>2 DEF Typed
  <2>4. LinesFit => /\ offset = 0 \/ text[offset] = Newline
                    /\ e < Len(text) => text[e] = Newline
                    /\ nRow' = Row(e)
    <3> SUFFICES ASSUME LinesFit
                 PROVE  /\ offset = 0 \/ text[offset] = Newline
                        /\ e < Len(text) => text[e] = Newline
                        /\ nRow' = Row(e)
      OBVIOUS
    <3>1. offset = 0 \/ text[offset] = Newline
      BY <1>1, <1>2, <1>6 DEF Lines
    <3>2. nRow' = Row(e)
      <4>1. offset > 0 => nRow = Row(offset)
        BY <1>2 DEF Lines
      <4> QED
        BY <1>1, <1>6, <2>1, <2>2, <2>3, <3>1, <4>1
    <3>3. e < Len(text) => text[e] = Newline
      <4> SUFFICES ASSUME e < Len(text), text[e] # Newline PROVE FALSE
        OBVIOUS
      <4>1. e + 1 = offset + MAX_READ_BUFFER_SIZE /\ e + 1 \in 1 .. Len(text) /\ e + 1 > offset
        BY <1>4, <1>6, BufferAssumption
      <4>2. \A x \in offset + 1 .. e + 1 - 1 : text[x] # Newline
        BY <1>4, <1>6
      <4>3. Column(e + 1) = e + 1 - offset
        BY <1>6, <3>1, <4>1, <4>2, SameRow
      <4>4. Column(e + 1) < MAX_READ_BUFFER_SIZE
        BY <4>1 DEF LinesFit
      <4> QED
        BY <1>6, <4>1, <4>3, <4>4, BufferAssumption
    <3> QED
      BY <3>1, <3>2, <3>3
  <2>5. LinesFit' <=> LinesFit
    BY <1>1, SameText
  <2>6. Row(offset)' = Row(e)
    BY <1>1, SameText DEF Row, NewlinesBefore
  <2> QED
    BY <1>1, <1>4, <1>6, <2>3, <2>4, <2>5, <2>6 DEF Lines
<1>13. NoZeros' => Whole'
  <2> SUFFICES ASSUME NoZeros PROVE Whole'
    BY <1>1, SameText
  <2>1. Whole
    BY <1>2 DEF Parts
  <2>2. FlexWants'
    BY <1>1 DEF FlexWants, Pending
  <2> QED
    BY <1>1, <1>3, <1>5, <1>6, <1>7, <2>1, <2>2 DEF Whole
<1>14. NoZeros' /\ OneLiners' => OneLine'
  BY <1>1, <1>2, SameText DEF Parts, OneLine
<1>15. LinesFit' /\ NoZeros' /\ OneLiners' => Columns'
  <2> SUFFICES ASSUME LinesFit, NoZeros, OneLiners PROVE Columns'
    BY <1>1, SameText
  <2>1. Whole
    BY <1>2 DEF Parts
  <2>2. scanned + Len(pending) = offset /\ Len(pending) \in Nat
    BY <1>2, <1>3, <2>1 DEF Whole, Typed
  <2>3. Len(pending) = 0
    <3> SUFFICES ASSUME Len(pending) # 0 PROVE FALSE
      OBVIOUS
    <3>1. Len(pending) \in 1 .. Len(pending) /\ pending[Len(pending)] = offset
      BY <2>1, <2>2 DEF Whole
    <3>2. text[offset] # Newline
      BY <1>1, <1>2, <3>1, WantsNoNewline DEF Parts
    <3>3. text[offset] = Newline
      BY <1>1, <1>2, <2>2, <3>1 DEF Lines, Typed
    <3> QED
      BY <3>2, <3>3
  <2>4. scanned = offset
    BY <1>2, <2>2, <2>3 DEF Typed
  <2> QED
    BY <1>1, <1>6, <2>4 DEF Columns
<1>16. Lookahead1' => Simple'
  <2> SUFFICES ASSUME Lookahead1 PROVE Simple'
    BY <1>1, SameText
  <2>1. Simple /\ Pending' = Pending
    BY <1>1, <1>2 DEF Parts, Pending
  <2> QED
    BY <1>1, <2>1 DEF Simple
<1>17. Parts'
  BY <1>13, <1>14, <1>15, <1>16 DEF Parts
<1>18. RowIsRight' /\ ColumnOffByLookahead'
  BY <1>1, TokenStays
<1> QED
  BY <1>8, <1>9, <1>10, <1>11, <1>12, <1>17, <1>18 DEF IInv, Basics

\* At the end of the file nothing is left; an error takes the rest.
LEMMA EndStep == IInv /\ (EndOfFile \/ ReadError) => IInv'
<1> SUFFICES ASSUME IInv, EndOfFile \/ ReadError PROVE IInv'
  OBVIOUS
<1>1. /\ FlexWants /\ FetchLine /\ flex' = "ended"
      /\ nBuffer' = 0 /\ nTokenNextStart' = 1 /\ looked' = 0
      /\ \/ eof' = TRUE /\ offset = Len(text)
         \/ eof' = eof
      /\ UNCHANGED <<text, offset, line, lBuffer, nRow, pending, scanned, token>>
  BY DEF EndOfFile, ReadError, FetchLine
<1>2. Typed /\ Places /\ Ends /\ EveryCharacterOnce /\ Lines /\ Parts
  BY DEF IInv, Basics
<1>3. /\ flex = "reading" /\ nBuffer = lBuffer /\ Reached = line + lBuffer
      /\ Reached <= offset /\ scanned <= offset
      /\ \A k \in 1 .. Len(pending) : scanned < pending[k] /\ pending[k] <= offset
  BY <1>1, <1>2, FetchLineIs
<1>4. Reached' = offset
  BY <1>1 DEF Reached
<1>5. Typed'
  BY <1>1, <1>2 DEF Typed
<1>6. Places'
  <2>1. nBuffer' <= lBuffer' /\ nTokenNextStart' <= MAX_READ_BUFFER_SIZE
    BY <1>1, <1>2, BufferAssumption DEF Typed
  <2> QED
    BY <1>1, <1>2, <1>3, <1>4, <2>1 DEF Places
<1>7. Ends'
  BY <1>1, <1>2 DEF Ends
<1>8. EveryCharacterOnce'
  <2>1. \A k \in 1 .. Len(pending) : pending[k] > (IF k = 1 THEN scanned ELSE pending[k - 1])
    BY <1>2 DEF EveryCharacterOnce
  <2>2. ASSUME NEW x \in scanned + 1 .. Len(text)
        PROVE  \/ \E k \in 1 .. Len(pending) : pending[k] = x
               \/ BehindZero(x)'
               \/ Failed'
    <3>1. \/ \E k \in 1 .. Len(pending) : pending[k] = x
          \/ StillToCome(x)
          \/ BehindZero(x)
      BY <1>2, <1>3 DEF EveryCharacterOnce, Failed
    <3>2. CASE StillToCome(x)
      <4>1. x > offset
        BY <1>2, <1>3, <3>2 DEF StillToCome, Typed, Places
      <4>2. eof' = eof
        BY <1>1, <1>2, <4>1 DEF Typed
      <4> QED
        BY <1>1, <1>2, <1>3, <4>2 DEF Failed, Ends
    <3>3. CASE BehindZero(x)
      BY <1>1, <3>3, SameText
    <3> QED
      BY <3>1, <3>2, <3>3
  <2> QED
    BY <1>1, <2>1, <2>2 DEF EveryCharacterOnce
<1>9. Lines'
  BY <1>1, <1>2, SameText DEF Lines, Row, NewlinesBefore
<1>10. NoZeros' => Whole'
  <2> SUFFICES ASSUME NoZeros PROVE Whole'
    BY <1>1, SameText
  <2>1. Whole
    BY <1>2 DEF Parts
  <2> QED
    BY <1>1, <1>3, <1>4, <2>1 DEF Whole
<1>11. NoZeros' /\ OneLiners' => OneLine'
  BY <1>1, <1>2, SameText DEF Parts, OneLine
<1>12. Columns'
  BY <1>1 DEF Columns
<1>13. Lookahead1' => Simple'
  <2> SUFFICES ASSUME Lookahead1 PROVE Simple'
    BY <1>1, SameText
  <2>1. Simple /\ Pending' = Pending
    BY <1>1, <1>2 DEF Parts, Pending
  <2> QED
    BY <1>1, <2>1 DEF Simple
<1>14. Parts'
  BY <1>10, <1>11, <1>12, <1>13 DEF Parts
<1>15. RowIsRight' /\ ColumnOffByLookahead'
  BY <1>1, TokenStays
<1> QED
  BY <1>5, <1>6, <1>7, <1>8, <1>9, <1>14, <1>15 DEF IInv, Basics

-----------------------------------------------------------------------------
(* The next file.                                                          *)

LEMMA FileStep == IInv /\ (OpenFile \/ LexReset) => IInv'
<1> SUFFICES ASSUME IInv, OpenFile \/ LexReset PROVE IInv'
  OBVIOUS
<1>1. CASE LexReset
  <2>1. Init'
    BY <1>1 DEF LexReset, Forget, Init
  <2>2. (Init => IInv)'
    BY InitIInv, PTL
  <2> QED
    BY <2>1, <2>2
<1>2. CASE OpenFile
  <2>1. Init
    BY <1>2 DEF IInv, Basics, Ends, OpenFile
  <2>2. /\ text' \in Seq(Char) /\ Len(text') \in Nat /\ flex' = "reading" /\ Len(pending') = 0
        /\ offset' = 0 /\ line' = 0 /\ lBuffer' = 0 /\ nBuffer' = 0 /\ nRow' = 0
        /\ nTokenNextStart' = 0 /\ eof' = FALSE /\ pending' = <<>> /\ scanned' = 0
        /\ looked' = 0 /\ token' = NoToken
    BY <1>2, <2>1, FilesAssumption DEF OpenFile, Init, lexer
  <2>3. Reached' = 0
    BY <2>2 DEF Reached
  <2>4. Typed'
    <3>1. pending' \in Seq(Nat)
      BY <2>2
    <3> QED
      BY <2>2, <3>1 DEF Typed
  <2>5. Places' /\ Ends'
    BY <2>2, <2>3, BufferAssumption DEF Places, Ends
  <2>6. EveryCharacterOnce'
    BY <2>2 DEF EveryCharacterOnce, StillToCome
  <2>7. Lines'
    BY <2>2 DEF Lines
  <2>8. Parts'
    <3>1. FlexWants'
      BY <2>2 DEF FlexWants
    <3>2. Whole' /\ OneLine' /\ Columns'
      BY <2>2, <2>3, <3>1 DEF Whole, OneLine, Columns
    <3>3. Simple'
      BY <2>2 DEF Simple
    <3> QED
      BY <3>2, <3>3 DEF Parts
  <2>9. RowIsRight' /\ ColumnOffByLookahead'
    BY <2>2 DEF RowIsRight, ColumnOffByLookahead
  <2> QED
    BY <2>4, <2>5, <2>6, <2>7, <2>8, <2>9 DEF IInv, Basics
<1> QED
  BY <1>1, <1>2

-----------------------------------------------------------------------------
(* A token leaves flex.                                                    *)

LEMMA MatchStep == IInv /\ Match => IInv'
<1> SUFFICES ASSUME IInv, Match PROVE IInv'
  OBVIOUS
<1> DEFINE n == TokenLength(Pending)
           l == Len(pending)
<1>1. /\ pending # <<>> /\ ~FlexWants
      /\ pending' = SubSeq(pending, n + 1, l) /\ scanned' = pending[n] /\ looked' = l - n
      /\ nTokenNextStart' = nBuffer + 1
      /\ token' = [first |-> pending[1], last |-> pending[n], read |-> pending[l],
                   line |-> nRow, first_column |-> nTokenNextStart,
                   last_column |-> nTokenNextStart + n - 1,
                   looked |-> looked, atEnd |-> flex = "ended"]
      /\ UNCHANGED <<text, offset, line, lBuffer, nBuffer, nRow, eof, flex>>
  BY DEF Match, BeginToken
<1>2. Typed /\ Places /\ Ends /\ EveryCharacterOnce /\ Lines /\ Parts
  BY DEF IInv, Basics
<1>3. /\ Pending \in Seq(Char) /\ Len(Pending) = l /\ Pending # <<>> /\ l \in Nat
      /\ \A k \in 1 .. l : Pending[k] = text[pending[k]] /\ pending[k] \in 1 .. Len(text)
                           /\ pending[k] <= offset
  BY <1>1, <1>2, PendingIs
<1>4. n \in 1 .. l /\ \A k \in 1 .. l : IsToken(SubSeq(Pending, 1, k)) => k <= n
  BY <1>3, TokenLengthIs
<1> HIDE DEF n, l
<1>5. /\ pending' \in Seq(Nat) /\ Len(pending') = l - n
      /\ \A k \in 1 .. l - n : pending'[k] = pending[n + k] /\ n + k \in 1 .. l
  <2>1. pending \in Seq(Nat) /\ Len(pending) = l /\ n + 1 \in 1 .. l + 1 /\ n \in Nat
    BY <1>2, <1>3, <1>4 DEF Typed, l
  <2> HIDE DEF l
  <2>2. SubSeq(pending, n + 1, l) \in Seq(Nat) /\ Len(SubSeq(pending, n + 1, l)) = l - n
    BY <1>3, <2>1
  <2>3. \A k \in 1 .. l - n : SubSeq(pending, n + 1, l)[k] = pending[n + k] /\ n + k \in 1 .. l
    BY <1>3, <2>1
  <2> QED
    BY <1>1, <2>2, <2>3
<1>6. n \in Nat /\ n >= 1 /\ n <= l /\ l - n \in Nat /\ 1 \in 1 .. l /\ l \in 1 .. l
  BY <1>3, <1>4
<1>7. flex # "closed" /\ offset > 0 /\ offset \in Nat
  <2>1. flex = "closed" => pending = <<>>
    BY <1>2 DEF Ends, Init
  <2>2. pending[1] \in 1 .. Len(text) /\ pending[1] <= offset
    BY <1>3, <1>6
  <2> QED
    BY <1>1, <1>2, <2>1, <2>2 DEF Typed
<1>8. Reached' = Reached /\ Reached \in Nat
  BY <1>1, <1>2 DEF Reached, Typed
<1>9. Typed'
  <2>1. pending[n] \in Nat
    BY <1>3, <1>4
  <2> QED
    BY <1>1, <1>2, <1>5, <1>6, <2>1 DEF Typed
<1>10. /\ \A k \in 1 .. l : scanned < pending[k] /\ pending[k] <= Reached /\ pending[k] \in Nat
       /\ \A j \in 1 .. l : \A k \in 1 .. l : j < k => pending[j] < pending[k]
  BY <1>2, <1>3 DEF Places, l
<1>11. Places'
  <2>1. \A k \in 1 .. l - n : scanned' < pending'[k] /\ pending'[k] <= Reached'
    <3>1. \A k \in 1 .. l - n : n < n + k
      BY <1>6
    <3> QED
      BY <1>1, <1>4, <1>5, <1>8, <1>10, <3>1
  <2>2. \A j \in 1 .. l - n : \A k \in 1 .. l - n : j < k => pending'[j] < pending'[k]
    <3>1. \A j \in 1 .. l - n : \A k \in 1 .. l - n : j < k => n + j < n + k
      BY <1>6
    <3> QED
      BY <1>5, <1>10, <3>1
  <2>3. nTokenNextStart' <= MAX_READ_BUFFER_SIZE
    BY <1>1, <1>2, BufferAssumption DEF Places, Typed
  <2>4. scanned' <= Reached'
    BY <1>1, <1>4, <1>8, <1>10
  <2> QED
    BY <1>1, <1>2, <1>5, <2>1, <2>2, <2>3, <2>4 DEF Places
<1>12. Ends'
  BY <1>1, <1>2, <1>7 DEF Ends
<1>13. EveryCharacterOnce'
  <2>1. \A k \in 1 .. l - n : pending'[k] > (IF k = 1 THEN scanned' ELSE pending'[k - 1])
    <3> TAKE k \in 1 .. l - n
    <3>1. pending'[k] > scanned'
      BY <1>5, <1>9, <1>11 DEF Places, Typed
    <3>2. k # 1 => k - 1 \in 1 .. l - n /\ k - 1 < k
      BY <1>6
    <3>3. k # 1 => pending'[k] > pending'[k - 1]
      BY <1>5, <1>6, <1>9, <1>11, <3>2 DEF Places, Typed
    <3> QED
      BY <3>1, <3>3
  <2>2. flex' = "reading" => \A k \in 1 .. l - n : pending'[k] <= line' + nBuffer'
    BY <1>1, <1>5, <1>8, <1>10 DEF Reached
  <2>3. ASSUME NEW x \in scanned' + 1 .. Len(text)
        PROVE  \/ \E k \in 1 .. l - n : pending'[k] = x
               \/ StillToCome(x)'
               \/ BehindZero(x)'
               \/ Failed'
    <3>1. x \in scanned + 1 .. Len(text) /\ x > pending[n]
      <4>1. scanned < pending[n] /\ pending[n] \in Nat /\ scanned \in Nat /\ Len(text) \in Nat
        BY <1>2, <1>4, <1>10 DEF Typed
      <4>2. scanned' = pending[n]
        BY <1>1
      <4> QED
        BY <4>1, <4>2
    <3>2. \/ \E k \in 1 .. l : pending[k] = x
          \/ StillToCome(x)
          \/ BehindZero(x)
          \/ Failed
      BY <1>2, <3>1 DEF EveryCharacterOnce, l
    <3>3. ASSUME NEW k \in 1 .. l, pending[k] = x PROVE \E j \in 1 .. l - n : pending'[j] = x
      <4>1. k > n
        <5> SUFFICES ASSUME ~(k > n) PROVE FALSE
          OBVIOUS
        <5>1. k = n \/ k < n
          BY <1>6
        <5>2. pending[k] <= pending[n]
          BY <1>4, <1>10, <5>1
        <5> QED
          BY <1>4, <1>10, <3>1, <3>3, <5>2
      <4>2. k - n \in 1 .. l - n /\ n + (k - n) = k
        BY <1>6, <4>1
      <4> QED
        BY <1>5, <3>3, <4>2
    <3>4. StillToCome(x) => StillToCome(x)'
      BY <1>1 DEF StillToCome
    <3>5. (BehindZero(x) => BehindZero(x)') /\ (Failed => Failed')
      BY <1>1, SameText DEF Failed
    <3> QED
      BY <3>2, <3>3, <3>4, <3>5
  <2> QED
    BY <1>1, <1>5, <2>1, <2>2, <2>3 DEF EveryCharacterOnce
<1>14. Lines'
  BY <1>1, <1>2, SameText DEF Lines, Row, NewlinesBefore
\* Without zero bytes flex has all up to the last character that it was given.
<1>15. NoZeros => /\ \A k \in 1 .. l : pending[k] = scanned + k
                  /\ scanned + l = Reached
                  /\ line + lBuffer = offset
                  /\ flex = "reading" => nBuffer > 0 /\ Reached = line + nBuffer
  BY <1>1, <1>2 DEF Parts, Whole, Reached, Typed, l
<1>16. NoZeros' => Whole'
  <2> SUFFICES ASSUME NoZeros PROVE Whole'
    BY <1>1, SameText
  <2>1. scanned' = scanned + n
    BY <1>1, <1>4, <1>15
  <2>2. \A k \in 1 .. l - n : pending'[k] = scanned' + k
    <3>1. \A k \in 1 .. l - n : scanned + (n + k) = scanned + n + k
      BY <1>2, <1>6 DEF Typed
    <3> QED
      BY <1>5, <1>15, <2>1, <3>1
  <2>3. scanned' + (l - n) = Reached
    BY <1>2, <1>6, <1>15, <2>1 DEF Typed
  <2>4. ~(flex' = "reading" /\ nBuffer' = 0)
    BY <1>1, <1>2, <1>15 DEF Typed
  <2> QED
    BY <1>1, <1>5, <1>8, <1>15, <2>2, <2>3, <2>4 DEF Whole
<1>17. NoZeros /\ OneLiners => \A k \in 1 .. l - 1 : text[pending[k]] # Newline
  BY <1>2 DEF Parts, OneLine, l
<1>18. NoZeros' /\ OneLiners' => OneLine'
  <2> SUFFICES ASSUME NoZeros, OneLiners PROVE OneLine'
    BY <1>1, SameText
  <2>1. \A k \in 1 .. l - n - 1 : k \in 1 .. l - n /\ n + k \in 1 .. l - 1
    BY <1>6
  <2> QED
    BY <1>1, <1>5, <1>17, <2>1 DEF OneLine
<1>19. LinesFit' /\ NoZeros' /\ OneLiners' => Columns'
  <2> SUFFICES ASSUME LinesFit, NoZeros, OneLiners, flex = "reading"
               PROVE  line <= scanned' /\ nBuffer + 1 + line = scanned' + 1 + (l - n)
    BY <1>1, SameText DEF Columns
  <2>1. scanned' = scanned + n
    BY <1>1, <1>4, <1>15
  <2>2. line <= scanned
    BY <1>2, <1>7 DEF Parts, Columns
  <2>3. scanned + l = line + nBuffer
    BY <1>15
  <2>4. line \in Nat /\ scanned \in Nat /\ nBuffer \in Nat
    BY <1>2 DEF Typed
  <2>5. line <= scanned + n /\ nBuffer + 1 + line = scanned + n + 1 + (l - n)
    BY <1>3, <1>6, <2>2, <2>3, <2>4
  <2> QED
    BY <2>1, <2>5
<1>20. Lookahead1' => Simple'
  <2> SUFFICES ASSUME Lookahead1 PROVE Simple'
    BY <1>1, SameText
  <2>1. l > 1 => l - 1 <= n
    <3>1. l > 1 => IsToken(SubSeq(Pending, 1, l - 1)) /\ l - 1 \in 1 .. l
      BY <1>2, <1>3 DEF Parts, Simple, l
    <3> QED
      BY <1>4, <3>1
  <2>2. l - n <= 1
    BY <1>6, <2>1
  <2> QED
    BY <1>1, <1>5, <1>6, <2>2 DEF Simple
<1>21. Parts'
  BY <1>16, <1>18, <1>19, <1>20 DEF Parts
\* The row is that of the last character that was read.
<1>22. LinesFit /\ NoZeros => nRow = Row(pending[l])
  <2> SUFFICES ASSUME LinesFit, NoZeros PROVE nRow = Row(pending[l])
    OBVIOUS
  <2>1. pending[l] = Reached /\ nRow = Row(offset) /\ line \in Nat
    BY <1>2, <1>6, <1>7, <1>15 DEF Lines, Typed
  <2>2. CASE flex = "reading"
    <3>1. Reached > line /\ Reached <= offset /\ offset > line
      BY <1>2, <1>15, <2>2 DEF Typed, Places
    <3>2. \A x \in line + 1 .. offset - 1 : text[x] # Newline
      BY <1>2 DEF Lines
    <3>3. \A x \in line + 1 .. Reached - 1 : text[x] # Newline
      BY <1>7, <1>8, <2>1, <3>1, <3>2
    <3>4. Row(Reached) = Row(line + 1) /\ Row(offset) = Row(line + 1)
      BY <1>7, <1>8, <2>1, <3>1, <3>2, <3>3, SameRow
    <3> QED
      BY <2>1, <3>4
  <2>3. CASE flex # "reading"
    BY <2>1, <2>3 DEF Reached
  <2> QED
    BY <2>2, <2>3
<1>23. nRow >= Row(pending[1])
  <2>1. pending[1] \in Nat /\ pending[1] <= offset
    BY <1>3, <1>6
  <2>2. Row(pending[1]) <= Row(offset) /\ Row(pending[1]) \in Nat /\ Row(offset) \in Nat
    BY <1>7, <2>1, EarlierRow, FinitelyMany
  <2> QED
    BY <1>2, <1>7, <2>2 DEF Lines, Typed
<1>24. LinesFit /\ NoZeros /\ OneLiners => nRow = Row(pending[1])
  <2> SUFFICES ASSUME LinesFit, NoZeros, OneLiners PROVE nRow = Row(pending[1])
    OBVIOUS
  <2>1. pending[1] = scanned + 1 /\ pending[l] = scanned + l /\ scanned \in Nat
    BY <1>2, <1>6, <1>15 DEF Typed
  <2>2. \A x \in scanned + 1 .. scanned + l - 1 : text[x] # Newline
    <3> TAKE x \in scanned + 1 .. scanned + l - 1
    <3>1. x - scanned \in 1 .. l - 1 /\ x - scanned \in 1 .. l /\ scanned + (x - scanned) = x
      BY <1>6, <2>1
    <3> QED
      BY <1>15, <1>17, <3>1
  <2>3. Row(scanned + l) = Row(scanned + 1)
    BY <1>6, <2>1, <2>2, SameRow
  <2> QED
    BY <1>22, <2>1, <2>3
<1>25. RowIsRight'
  BY <1>1, <1>22, <1>23, <1>24, SameText DEF RowIsRight
<1>26. ColumnOffByLookahead'
  <2> SUFFICES ASSUME LinesFit, NoZeros, OneLiners
               PROVE  /\ flex = "ended"  => nTokenNextStart = 1
                      /\ flex # "ended" => /\ nTokenNextStart = Column(pending[1]) + looked
                                           /\ nTokenNextStart + n - 1 = Column(pending[n]) + looked
                      /\ Lookahead1 => looked <= 1
    BY <1>1, SameText DEF ColumnOffByLookahead
  <2>1. flex = "ended" => nTokenNextStart = 1
    BY <1>2 DEF Ends
  <2>2. Lookahead1 => looked <= 1
    BY <1>2 DEF Parts, Simple
  <2>3. ASSUME flex = "reading"
        PROVE  /\ nTokenNextStart = Column(pending[1]) + looked
               /\ nTokenNextStart + n - 1 = Column(pending[n]) + looked
    <3>1. /\ line <= scanned /\ nTokenNextStart + line = scanned + 1 + looked
          /\ line = 0 \/ text[line] = Newline
          /\ \A x \in line + 1 .. offset - 1 : text[x] # Newline
      BY <1>2, <1>7, <2>3 DEF Parts, Columns, Lines
    <3>2. pending[1] = scanned + 1 /\ pending[n] = scanned + n
      BY <1>4, <1>6, <1>15
    <3>3. line \in Nat /\ scanned \in Nat /\ nTokenNextStart \in Nat /\ looked \in Nat
      BY <1>2 DEF Typed
    <3>4. \A k \in 1 .. l : Column(scanned + k) = scanned + k - line
      <4> TAKE k \in 1 .. l
      <4>1. scanned + k \in Nat /\ scanned + k > line /\ scanned + k <= offset
        BY <1>3, <1>15, <3>1, <3>3
      <4>2. \A x \in line + 1 .. scanned + k - 1 : text[x] # Newline
        BY <1>7, <3>1, <3>3, <4>1
      <4> QED
        BY <3>1, <3>3, <4>1, <4>2, SameRow
    <3> QED
      BY <1>4, <1>6, <3>1, <3>2, <3>3, <3>4
  <2> QED
    BY <1>2, <1>7, <2>1, <2>2, <2>3 DEF Typed
<1> QED
  BY <1>9, <1>11, <1>12, <1>13, <1>14, <1>21, <1>25, <1>26 DEF IInv, Basics

-----------------------------------------------------------------------------
(* Theorems.                                                               *)

LEMMA Invariance == Spec => []IInv
<1>1. IInv /\ [Next]_vars => IInv'
  <2> SUFFICES ASSUME IInv, [Next]_vars PROVE IInv'
    OBVIOUS
  <2>1. CASE UNCHANGED vars
    <3>1. UNCHANGED <<text, offset, line, lBuffer, nBuffer, nRow, nTokenNextStart, eof, flex,
                      pending, scanned, looked, token>>
      BY <2>1 DEF vars, lexer
    <3>2. Typed' /\ Places' /\ Ends'
      BY <3>1 DEF IInv, Basics, Typed, Places, Reached, Ends, Init
    <3>3. EveryCharacterOnce'
      BY <3>1, SameText DEF IInv, Basics, EveryCharacterOnce, StillToCome, Failed
    <3>4. Lines'
      BY <3>1, SameText DEF IInv, Lines, Row, NewlinesBefore
    <3>5. Parts'
      <4>1. FlexWants' = FlexWants /\ Pending' = Pending
        BY <3>1 DEF FlexWants, Pending
      <4>2. (Whole => Whole') /\ (OneLine => OneLine') /\ (Columns => Columns')
            /\ (Simple => Simple')
        BY <3>1, <4>1 DEF Whole, Reached, OneLine, Columns, Simple
      <4> QED
        BY <3>1, <4>2, SameText DEF IInv, Parts
    <3> QED
      BY <3>1, <3>2, <3>3, <3>4, <3>5, TokenStays DEF IInv, Basics
  <2> QED
    BY <2>1, FileStep, NextCharStep, GetNextLineStep, EndStep, MatchStep DEF Next
<1> QED
  BY <1>1, InitIInv, PTL DEF Spec

\* The place in the line and the length of it stay within the buffer, and the
\* line within the file.
THEOREM TypeCorrect == Spec => []TypeOK
<1>1. IInv => TypeOK
  <2> SUFFICES ASSUME IInv PROVE TypeOK
    OBVIOUS
  <2>1. Typed /\ Places
    BY DEF IInv, Basics
  <2>2. scanned <= Len(text)
    BY <2>1 DEF Typed, Places, Reached
  <2> QED
    BY <2>1, <2>2, BufferAssumption DEF TypeOK, Typed, Places
<1> QED
  BY <1>1, Invariance, PTL

\* Every character of every file comes to the scanner once and in order, but
\* for what is behind a zero byte or a read error.
THEOREM CharactersOnce == Spec => []EveryCharacterOnce
<1>1. IInv => EveryCharacterOnce
  BY DEF IInv, Basics
<1> QED
  BY <1>1, Invariance, PTL

\* A token has the row of the last character that was read for it, if lines fit
\* into the buffer and have no zero bytes, and never an earlier one than its own.
THEOREM RowsAreRight == Spec => []RowIsRight
<1>1. IInv => RowIsRight
  BY DEF IInv
<1> QED
  BY <1>1, Invariance, PTL

\* A column is off by what was read behind the token before.
THEOREM ColumnsAreRight == Spec => []ColumnOffByLookahead
<1>1. IInv => ColumnOffByLookahead
  BY DEF IInv
<1> QED
  BY <1>1, Invariance, PTL
=============================================================================
