------------------------------ MODULE PDFText ------------------------------
(***************************************************************************)
(* The texts of the PDF: how writeText puts one into a string literal of   *)
(* the content stream (escapePDFText), and how a PDF reader takes it out.  *)
(* A rune is one of the classes that escapePDFText tells apart.            *)
(***************************************************************************)
EXTENDS Naturals, Sequences
SX == INSTANCE SequencesExt

Blanks == {" ", "newline"}

Runes == {"letter", "\\", "(", ")", "bullet", "other"} \cup Blanks

\* strings.TrimSpace
Trim(text) ==
    LET kept == {i \in DOMAIN text : text[i] \notin Blanks}
    IN  IF kept = {} THEN <<>>
        ELSE SubSeq(text, CHOOSE i \in kept : \A j \in kept : i <= j,
                          CHOOSE i \in kept : \A j \in kept : j <= i)

\* Wrong, for mutation: a backslash is written as it is.
EscapeKeepingBackslash(r) ==
    CASE r \in {"(", ")"}       -> <<"\\", r>>
      [] r = "newline"          -> <<" ">>
      [] r = "bullet"           -> <<"\\", "2", "2", "5">>
      [] r = "other"            -> <<"-">>
      [] r \in {"letter", " ", "\\"}  -> <<r>>

\* The bytes that stand for one rune: controls and everything beyond ASCII become
\* a hyphen, but for the bullet, which is written as an octal code.
Escape(r) ==
    CASE r \in {"\\", "(", ")"} -> <<"\\", r>>
      [] r = "newline"          -> <<" ">>
      [] r = "bullet"           -> <<"\\", "2", "2", "5">>
      [] r = "other"            -> <<"-">>
      [] r \in {"letter", " "}  -> <<r>>

\* What writeText puts between the parentheses of Tj, and the closing one.
Literal(text) ==
    SX!FlattenSeq([i \in DOMAIN Trim(text) |-> Escape(Trim(text)[i])]) \o <<")">>

-----------------------------------------------------------------------------
(* The other end: a PDF reader, after an opening parenthesis.              *)

\* What the bytes from i on are read as, given that of the later ones.  A backslash
\* takes away the meaning of a parenthesis or a backslash, or begins an octal code; an
\* opening parenthesis nests; a closing one ends the literal.  The fonts are declared
\* without an encoding, and the built-in one of Helvetica has no glyph at octal 225.
ReadFrom(i, bytes, later) ==
    IF i > Len(bytes) THEN <<"unterminated">>
    ELSE IF bytes[i] = ")" THEN IF i = Len(bytes) THEN <<>> ELSE <<"ends early">>
    ELSE IF bytes[i] = "(" THEN <<"nested">>
    ELSE IF bytes[i] # "\\" THEN <<bytes[i]>> \o later[i + 1]
    ELSE IF i = Len(bytes) THEN <<"unterminated">>
    ELSE IF bytes[i + 1] = "2" /\ i + 3 <= Len(bytes) THEN <<".notdef">> \o later[i + 4]
    ELSE <<bytes[i + 1]>> \o later[i + 2]

ReadLiteral(bytes) ==
    LET read[i \in 1 .. Len(bytes) + 1] == ReadFrom(i, bytes, read)
    IN  read[1]

\* What escapePDFText leaves as it is: a reader has nothing else to be told by.
Printable == {"letter", "\\", "(", ")", " "}
=============================================================================
