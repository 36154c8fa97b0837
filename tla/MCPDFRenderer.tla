--------------------------- MODULE MCPDFRenderer ---------------------------
(* PDFRenderer with acceptances for TLC: records that vary in one field.   *)
EXTENDS PDFRenderer

LOCAL INSTANCE SequencesExt

\* The text whose words have the given lengths.
Text(lengths) ==
    LET word[i \in DOMAIN lengths] ==
            LET start == IF i = 1 THEN 0 ELSE word[i - 1].end + 1
            IN  [start |-> start, end |-> start + lengths[i]]
    IN  word

TextsOf(lengths, n) == {Text(w) : w \in UNION {[1 .. m -> lengths] : m \in 1 .. n}}

\* "No se proporcionaron notas adicionales."
NoNotes == Text(<<2, 2, 14, 5, 12>>)

Plain == [title |-> <<"letter">>, products |-> <<Text(<<10>>)>>, notes |-> NoNotes,
          signature |-> [width |-> 176, height |-> 44]]

\* 25 + 1 + 26 is the width of the list, 35 + 1 + 36 that of the notes.
SomeRecords ==
    {[Plain EXCEPT !.title = t] : t \in {t \in SeqOf(Runes, 3) : t # <<>> /\ Trim(t) = t}}
    \cup {[Plain EXCEPT !.products = p] :
             p \in (SeqOf(TextsOf({25, 26, 53}, 2), 2) \ {<<>>})
                     \cup {<<t>> : t \in TextsOf({8, 9, 17}, 5)}}
    \cup {[Plain EXCEPT !.products = [i \in 1 .. n |-> Text(<<10>>)]] : n \in 4 .. 16}
    \cup {[Plain EXCEPT !.notes = t] : t \in TextsOf({35, 36, 73}, 3)}
    \cup {[Plain EXCEPT !.signature = s] :
             s \in {NoImage} \cup [width : {0, 1, 175, 177, 704}, height : {0, 1, 43, 45, 177}]}
=============================================================================
