------------------------------ MODULE Locations ------------------------------
(***************************************************************************)
(* Where a token is: the line buffer below the scanner, src/src/lex/util.c *)
(* with the hooks and the rules of src/src/lex/lexer.l, for the files of a *)
(* compilation one after another.                                          *)
(*                                                                         *)
(* The scanner that flex makes of the rules is external: it asks for one   *)
(* character at a time, as long as what it has may become a longer token,  *)
(* takes the longest token that it has seen and keeps what is behind it.   *)
(* Characters are known by their numbers in the file, of which the buffer  *)
(* holds an interval.                                                      *)
(***************************************************************************)
EXTENDS Naturals, Sequences, FiniteSetsExt

Newline == "newline"
Zero    == "zero"
Quote   == "quote"

\* "blank" is any character that is a token of its own whatever follows it, and
\* "=" any of those that make another token if they are doubled.
Char == {"letter", "digit", ".", "=", "#", "'", Quote, "blank", Newline, Zero}

CONSTANTS
  MAX_READ_BUFFER_SIZE,  \* what fgets may write, with the final zero
  Files                  \* the files that there are, sequences of characters

ASSUME BufferAssumption == MAX_READ_BUFFER_SIZE \in Nat /\ MAX_READ_BUFFER_SIZE > 1
ASSUME FilesAssumption  == Files \subseteq Seq(Char)

VARIABLES
  text,             \* the file
  offset,           \* the number of characters that fgets has read of it
  line,             \* and what it was before the line in the buffer
  lBuffer, nBuffer, nRow, nTokenNextStart, eof,
  flex,             \* "closed" before a file, "reading" it, or told of its "ended"
  pending,          \* characters that flex has and that are in no token
  scanned,          \* the last character that is in one
  looked,           \* what flex had read of this line behind the last token
  token             \* yylloc, and the place of the token in the file

lexer == <<lBuffer, nBuffer, nRow, nTokenNextStart, eof>>
vars  == <<text, offset, line, lexer, flex, pending, scanned, looked, token>>

NoToken == [first |-> 0, last |-> 0, read |-> 0, line |-> 0, first_column |-> 0,
            last_column |-> 0, looked |-> 0, atEnd |-> FALSE]

TypeOK ==
  /\ text \in Seq(Char) /\ line <= offset /\ offset <= Len(text)
  /\ line + lBuffer <= offset /\ offset - line < MAX_READ_BUFFER_SIZE
  /\ nBuffer \in 0 .. lBuffer /\ nTokenNextStart \in 0 .. MAX_READ_BUFFER_SIZE
  /\ nRow \in Nat /\ eof \in BOOLEAN /\ flex \in {"closed", "reading", "ended"}
  /\ scanned \in 0 .. Len(text) /\ looked \in Nat

-----------------------------------------------------------------------------
(* The rules of the scanner.                                               *)

At(s, c) == {k \in 1 .. Len(s) : s[k] = c}

\* s is one token, or one piece that is dropped: a character, a word or a
\* number, "==", a number with a point, a comment, a character literal, and a
\* string in one or over several lines.
IsToken(s) ==
  \/ Len(s) = 1
  \/ \A k \in 1 .. Len(s) : s[k] \in {"letter", "digit"}
  \/ s = <<"=", "=">>
  \/ \E p \in At(s, ".") : p < Len(s) /\ \A k \in 1 .. Len(s) : k # p => s[k] = "digit"
  \/ s[1] = "#" /\ At(s, Newline) = {}
  \/ Len(s) = 3 /\ s[1] = "'" /\ s[2] # Newline /\ s[3] = "'"
  \/ Len(s) > 1 /\ At(s, Quote) = {1, Len(s)} /\ At(s, Newline) = {}
  \/ Len(s) >= 6 /\ At(s, Quote) = (1 .. 3) \cup (Len(s) - 2 .. Len(s))

\* Any beginning of a longer token is one with one of these behind it.
Completions ==
  {<<"letter">>, <<"digit">>, <<"=">>, <<"'">>, <<"letter", "'">>,
   <<Quote>>, <<Quote, Quote>>, <<Quote, Quote, Quote>>, <<Quote, Quote, Quote, Quote>>}
Unfinished(s) == \E t \in Completions : IsToken(s \o t)

TokenLength(s) == Max({n \in 1 .. Len(s) : IsToken(SubSeq(s, 1, n))})

\* What flex holds, and when it asks for more.
Pending   == [k \in 1 .. Len(pending) |-> text[pending[k]]]
FlexWants == flex = "reading" /\ (pending = <<>> \/ Unfinished(Pending))

-----------------------------------------------------------------------------
(* nextChar and getNextLine.                                               *)

\* YY_INPUT with the character k.
Deliver(k) == pending' = Append(pending, k)

\* Mutant of NextChar: the last character of a line is taken for its end.
NextCharStripped ==
  /\ FlexWants /\ nBuffer < lBuffer
  /\ nBuffer' = nBuffer + 1
  /\ IF nBuffer' < lBuffer THEN Deliver(line + nBuffer') ELSE UNCHANGED pending
  /\ UNCHANGED <<text, offset, line, lBuffer, nRow, nTokenNextStart, eof, flex, scanned,
                 looked, token>>

\* nextChar with a character left in the buffer.
NextChar ==
  /\ FlexWants /\ nBuffer < lBuffer
  /\ nBuffer' = nBuffer + 1
  /\ Deliver(line + nBuffer + 1)
  /\ UNCHANGED <<text, offset, line, lBuffer, nRow, nTokenNextStart, eof, flex, scanned,
                 looked, token>>

\* How far fgets reads: up to a newline, or as much as the buffer holds; and
\* what strlen finds of it.
LineEnd ==
  Min({k \in offset + 1 .. Len(text) :
         text[k] = Newline \/ k = offset + MAX_READ_BUFFER_SIZE - 1 \/ k = Len(text)})
LineLength ==
  Min({k \in 0 .. LineEnd - offset : k = LineEnd - offset \/ text[offset + k + 1] = Zero})

\* Mutant of FetchLine: the position in the old line stays.
FetchLineStay ==
  /\ FlexWants /\ nBuffer >= lBuffer
  /\ nTokenNextStart' = 1 /\ looked' = 0
  /\ UNCHANGED <<text, nBuffer, pending, scanned, token>>

\* The beginning of getNextLine, which the loop of nextChar calls.
FetchLine ==
  /\ FlexWants /\ nBuffer >= lBuffer
  /\ nBuffer' = 0 /\ nTokenNextStart' = 1 /\ looked' = 0
  /\ UNCHANGED <<text, pending, scanned, token>>

\* getNextLine with a line.
GetNextLine ==
  /\ FetchLine /\ offset < Len(text)
  /\ line' = offset /\ offset' = LineEnd
  /\ nRow' = nRow + 1 /\ lBuffer' = LineLength
  /\ UNCHANGED <<eof, flex>>

\* getNextLine at the end of the file.
EndOfFile ==
  /\ FetchLine /\ offset = Len(text)
  /\ eof' = TRUE /\ flex' = "ended"
  /\ UNCHANGED <<offset, line, lBuffer, nRow>>

\* getNextLine when the file cannot be read any further.  Nobody asks for the
\* result, so it ends here.
ReadError ==
  /\ FetchLine
  /\ flex' = "ended"
  /\ UNCHANGED <<offset, line, lBuffer, nRow, eof>>

-----------------------------------------------------------------------------
(* Tokens.                                                                 *)

\* Mutant of BeginToken: the next column is the last one that was read.
BeginTokenAt(n) ==
  /\ token' = [first |-> pending[1], last |-> pending[n], read |-> pending[Len(pending)],
               line |-> nRow, first_column |-> nTokenNextStart,
               last_column |-> nTokenNextStart + n - 1,
               looked |-> looked, atEnd |-> flex = "ended"]
  /\ nTokenNextStart' = nBuffer

\* beginToken, for n characters.
BeginToken(n) ==
  /\ token' = [first |-> pending[1], last |-> pending[n], read |-> pending[Len(pending)],
               line |-> nRow, first_column |-> nTokenNextStart,
               last_column |-> nTokenNextStart + n - 1,
               looked |-> looked, atEnd |-> flex = "ended"]
  /\ nTokenNextStart' = nBuffer + 1

\* A rule of the scanner, which begins with YY_USER_ACTION.
Match ==
  /\ pending # <<>> /\ ~FlexWants
  /\ LET n == TokenLength(Pending) IN
     /\ BeginToken(n)
     /\ pending' = SubSeq(pending, n + 1, Len(pending))
     /\ scanned' = pending[n]
     /\ looked' = Len(pending) - n
  /\ UNCHANGED <<text, offset, line, lBuffer, nBuffer, nRow, eof, flex>>

-----------------------------------------------------------------------------
(* One file after another.                                                 *)

Forget ==
  /\ text' = <<>> /\ offset' = 0 /\ line' = 0
  /\ flex' = "closed" /\ pending' = <<>>
  /\ scanned' = 0 /\ looked' = 0 /\ token' = NoToken

\* The parser has the whole file, or refuses it at its last token.
ParserReturns == (flex = "ended" /\ pending = <<>>) \/ token # NoToken

\* Mutant of LexReset: the row goes on.
LexResetKeepsRow ==
  /\ ParserReturns /\ Forget
  /\ lBuffer' = 0 /\ nBuffer' = 0 /\ nRow' = IF nRow > 2 THEN 0 ELSE nRow
  /\ nTokenNextStart' = 0 /\ eof' = FALSE

\* yyrestart, which forgets what flex has, and lex_reset before the next file.
LexReset ==
  /\ ParserReturns /\ Forget
  /\ lBuffer' = 0 /\ nBuffer' = 0 /\ nRow' = 0
  /\ nTokenNextStart' = 0 /\ eof' = FALSE

\* compile_file_to_ast lets the parser read a file.
OpenFile ==
  /\ flex = "closed"
  /\ text' \in Files
  /\ flex' = "reading"
  /\ UNCHANGED <<offset, line, lexer, pending, scanned, looked, token>>

Init ==
  /\ text = <<>> /\ offset = 0 /\ line = 0
  /\ lBuffer = 0 /\ nBuffer = 0 /\ nRow = 0 /\ nTokenNextStart = 0 /\ eof = FALSE
  /\ flex = "closed" /\ pending = <<>>
  /\ scanned = 0 /\ looked = 0 /\ token = NoToken

Next ==
  \/ OpenFile
  \/ NextChar \/ GetNextLine \/ EndOfFile \/ ReadError
  \/ Match
  \/ LexReset
Spec == Init /\ [][Next]_vars

-----------------------------------------------------------------------------
(* Properties.                                                             *)

\* The place of the character k in the file.
NewlinesBefore(k) == {x \in 1 .. k - 1 : text[x] = Newline}
Row(k)    == 1 + Cardinality(NewlinesBefore(k))
Column(k) == k - (IF NewlinesBefore(k) = {} THEN 0 ELSE Max(NewlinesBefore(k)))

\* k is on a line with a zero byte, not before that.
BehindZero(k) == \E z \in 1 .. k : text[z] = Zero /\ \A x \in z .. k - 1 : text[x] # Newline

\* k is in the buffer, or behind what fgets has read; or fgets could not go on.
StillToCome(k) == flex # "ended" /\ (k \in line + nBuffer + 1 .. line + lBuffer \/ k > offset)
Failed == flex = "ended" /\ ~eof

\* Every character of a file comes to the scanner once and in order, wherever
\* lines end and whatever does not fit into the buffer, and at the end of a
\* file none is left.  Those from a zero byte to the end of its line may be
\* lost, and those that come after a read error are.
EveryCharacterOnce ==
  /\ \A k \in 1 .. Len(pending) : pending[k] > (IF k = 1 THEN scanned ELSE pending[k - 1])
  /\ \A k \in 1 .. Len(pending) : flex = "reading" => pending[k] <= line + nBuffer
  /\ \A x \in scanned + 1 .. Len(text) :
       \/ \E k \in 1 .. Len(pending) : pending[k] = x
       \/ StillToCome(x)
       \/ BehindZero(x)
       \/ Failed

\* What files may have none of.
LinesFit   == \A k \in 1 .. Len(text) : Column(k) < MAX_READ_BUFFER_SIZE
NoZeros    == At(text, Zero) = {}
OneLiners  == \A k \in 3 .. Len(text) : \E x \in k - 2 .. k : text[x] # Quote
Lookahead1 == \A k \in 1 .. Len(text) : text[k] \notin {".", "'", Quote}

\* A token never has an earlier row than that of its first character.  If all
\* lines fit into the buffer and have no zero bytes, its row in its own file,
\* whatever files were scanned before, is that of the last character that the
\* scanner had to read: only a string over several lines, or what may have
\* become one, has not the row where it starts.
RowIsRight ==
  token # NoToken =>
    /\ token.line >= Row(token.first)
    /\ LinesFit /\ NoZeros => token.line = Row(token.read)
    /\ LinesFit /\ NoZeros /\ OneLiners => token.line = Row(token.first)

\* In such files, a column is as many too far as the scanner had read behind
\* the token before, which is at most one without numbers with a point,
\* character literals and strings.  Tokens that end with a file that has no
\* newline there are in the first column.
ColumnOffByLookahead ==
  token # NoToken /\ LinesFit /\ NoZeros /\ OneLiners =>
    /\ token.atEnd  => token.first_column = 1
    /\ ~token.atEnd => /\ token.first_column = Column(token.first) + token.looked
                       /\ token.last_column = Column(token.last) + token.looked
    /\ Lookahead1 => token.looked <= 1
=============================================================================
