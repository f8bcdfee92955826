----------------------------- MODULE MCLocations -----------------------------
(***************************************************************************)
(* The files for TLC: all that are short, and longer ones of pieces that   *)
(* make strings over several lines, lines too long for the buffer, zero    *)
(* bytes in them, and tokens behind which the scanner reads far.           *)
(***************************************************************************)
EXTENDS Locations, SequencesExt

CONSTANTS MaxChars,   \* characters in a file of the first kind
          MaxPieces   \* pieces in one of the second

ShortFiles == UNION {[1 .. n -> Char] : n \in 0 .. MaxChars}

Pieces == {<<Quote, Quote, Quote>>, <<Quote>>, <<"letter">>, <<Newline>>,
           <<"digit", ".">>, <<"blank", "blank", "blank">>, <<Zero>>}
LongFiles ==
  UNION {{FlattenSeq(f) : f \in [1 .. n -> Pieces]} : n \in 0 .. MaxPieces}

AllFiles == ShortFiles \cup LongFiles
=============================================================================
