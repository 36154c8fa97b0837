----------------------------- MODULE PDFLayout -----------------------------
(***************************************************************************)
(* buildPDFContent of internal/acceptances/pdf.go: one page, drawn from    *)
(* the top down.  Every part returns the height at which the next begins.  *)
(* Heights are in points, from the bottom of the page; all are whole.      *)
(*                                                                         *)
(* A text is its words, each known by where it begins and ends when they   *)
(* are joined by single blanks; a signature is the size of its image.      *)
(***************************************************************************)
EXTENDS Integers, PDFText

CONSTANTS
    Records,   \* the acceptances to draw
    NoImage    \* a signature that does not decode, or is too large to encode again

PageHeight == 792
SectionGap == 18
FooterHeight == 152

ProductWidth == 52
NotesWidth == 72

IsText(text) ==
    /\ text \in Seq([start : Nat, end : Nat])
    /\ Len(text) > 0
    /\ \A i \in 1 .. Len(text) : text[i].start < text[i].end
    /\ \A i \in 1 .. Len(text) - 1 : text[i + 1].start = text[i].end + 1

IsRecord(r) ==
    /\ r.title \in Seq(Runes)
    /\ r.title # <<>> /\ Trim(r.title) = r.title
    /\ r.products # <<>>
    /\ r.products \in Seq(Seq([start : Nat, end : Nat]))
    /\ \A i \in DOMAIN r.products : IsText(r.products[i])
    /\ IsText(r.notes)
    /\ r.signature = NoImage \/ r.signature \in [width : Nat, height : Nat]

\* NormalizeSubmission trims what it takes and lets in no empty work order id, no empty
\* list and no blank product; defaultNotes replaces blank notes.
ASSUME RecordsAreNormal == \A r \in Records : IsRecord(r)

Parts == {"customer", "job", "products", "notes"}

VARIABLES
    record,    \* the record that Render got
    step,      \* the next step of buildPDFContent
    title,     \* the bytes of the work order's literal
    y,         \* where the next part begins
    next,      \* the next word to wrap
    lines,     \* the lines wrapped so far, the last one still growing
    boxes,     \* each part drawn so far: its heading, and the edges of its box
    shown,     \* how many lines of the list and of the notes are drawn
    image      \* the size of the signature as drawn

layout == <<record, step, title, y, next, lines, boxes, shown, image>>

NoBox == [heading |-> 0, top |-> 0, bottom |-> 0]
FirstWord == [item |-> 1, word |-> 1]
Lines == [item : Nat, from : Nat, to : Nat]

LayoutInit ==
    /\ record \in Records
    /\ step = "signature"
    /\ title = <<>>
    /\ y = PageHeight
    /\ next = FirstWord
    /\ lines = <<>>
    /\ boxes = [p \in Parts |-> NoBox]
    /\ shown = [products |-> 0, notes |-> 0]
    /\ image = [width |-> 0, height |-> 0, num |-> 1, den |-> 1]

\* signatureImageObject
DecodeSignature ==
    /\ step = "signature"
    /\ step' = IF record.signature = NoImage THEN "refused" ELSE "header"
    /\ UNCHANGED <<record, title, y, next, lines, boxes, shown, image>>

DrawHeader ==
    /\ step = "header"
    /\ title' = Literal(record.title)
    /\ y' = PageHeight - 126 - SectionGap
    /\ step' = "customer"
    /\ UNCHANGED <<record, next, lines, boxes, shown, image>>

\* Wrong, for mutation: the heading takes no room.
BelowNothing == y

\* drawSectionHeader
BelowHeading == y - 20

\* drawFilledRect and drawStrokeRect under the heading: a rectangle from bottom to top,
\* which PDF paints also when the height is negative and top is the lower edge.
Box(bottom) == [heading |-> y, top |-> BelowHeading, bottom |-> bottom]

\* drawDetailBox
DrawDetails(part, rows, following) ==
    /\ step = part
    /\ LET bottom == BelowHeading - (38 * rows + 16) IN
       /\ boxes' = [boxes EXCEPT ![part] = Box(bottom)]
       /\ y' = bottom - SectionGap
    /\ step' = following
    /\ UNCHANGED <<record, title, next, lines, shown, image>>

DrawCustomer == DrawDetails("customer", 2, "job")

DrawJob == DrawDetails("job", 5, "products")

-----------------------------------------------------------------------------
(* Wrapping.                                                               *)

Texts == IF step = "notes" THEN <<record.notes>> ELSE record.products

Width == IF step = "notes" THEN NotesWidth ELSE ProductWidth

\* The length of the words from .. to with blanks between them.
Length(text, from, to) == text[to].end - text[from].start

LastLine == lines[Len(lines)]

Wrapped == next.item > Len(Texts)

\* Wrong, for mutation: a line may not be filled to the last column.
FitsStrictly(text) ==
    Length(text, LastLine.from, LastLine.to) + 1 + Length(text, next.word, next.word) < Width

Fits(text) ==
    Length(text, LastLine.from, LastLine.to) + 1 + Length(text, next.word, next.word) <= Width

\* Wrong, for mutation: the line that is full is not appended.
AddWordDropping(text) ==
    lines' = IF next.word = 1
             THEN Append(lines, [item |-> next.item, from |-> next.word, to |-> next.word])
             ELSE [lines EXCEPT ![Len(lines)] =
                     [@ EXCEPT !.from = IF Fits(text) THEN @ ELSE next.word, !.to = next.word]]

\* The next word joins the line, if there is one of its text and it fits.
AddWord(text) ==
    lines' = IF next.word > 1 /\ Fits(text)
             THEN [lines EXCEPT ![Len(lines)].to = next.word]
             ELSE Append(lines, [item |-> next.item, from |-> next.word, to |-> next.word])

\* wrapText, one field at a time, over the items of the list or over the notes.
WrapText ==
    /\ step \in {"products", "notes"}
    /\ ~Wrapped
    /\ LET text == Texts[next.item] IN
       /\ AddWord(text)
       /\ next' = IF next.word < Len(text) THEN [next EXCEPT !.word = @ + 1]
                                           ELSE [item |-> next.item + 1, word |-> 1]
    /\ UNCHANGED <<record, step, title, y, boxes, shown, image>>

\* A list without lines, which no record has, would get one, "Ninguno".
ListLines == IF lines = <<>> THEN 1 ELSE Len(lines)

\* Wrong, for mutation: the box is made for the items, not for their lines.
ListHeightByItem == 16 * Len(record.products) + 20

ListHeight == 16 * ListLines + 20

DrawListBox ==
    /\ step = "products"
    /\ Wrapped
    /\ boxes' = [boxes EXCEPT !["products"] = Box(BelowHeading - ListHeight)]
    /\ shown' = [shown EXCEPT !.products = ListLines]
    /\ y' = BelowHeading - ListHeight - SectionGap
    /\ next' = FirstWord
    /\ lines' = <<>>
    /\ step' = "notes"
    /\ UNCHANGED <<record, title, image>>

\* The box ends above the footer, even if that is above its top, and so do the lines:
\* those that do not fit are left out.
DrawParagraphBox ==
    /\ step = "notes"
    /\ Wrapped
    /\ LET lowest == FooterHeight + 18
           wanted == BelowHeading - (15 * Len(lines) + 22)
           bottom == IF wanted < lowest THEN lowest ELSE wanted
       IN  /\ boxes' = [boxes EXCEPT !["notes"] = Box(bottom)]
           /\ \E n \in 0 .. Len(lines) :
                /\ \A i \in 1 .. n : BelowHeading - 18 - 15 * (i - 1) >= bottom + 14
                /\ n < Len(lines) => BelowHeading - 18 - 15 * n < bottom + 14
                /\ shown' = [shown EXCEPT !.notes = n]
           /\ y' = bottom
    /\ step' = "footer"
    /\ UNCHANGED <<record, title, next, lines, image>>

-----------------------------------------------------------------------------
(* The signature, scaled by the fraction num / den.                        *)

\* Wrong, for mutation: only the width is looked at.
ScaleByWidth(s) == IF s.width > 176 THEN <<176, s.width>> ELSE <<1, 1>>

Scale(s) ==
    LET byWidth == 176 * s.height < 44 * s.width IN
    IF byWidth /\ s.width > 176 THEN <<176, s.width>>
    ELSE IF ~byWidth /\ s.height > 44 THEN <<44, s.height>>
    ELSE <<1, 1>>

\* Of drawSignatureFooter only the text "Firma no disponible", for an image without
\* area, depends on the record.
DrawSignature ==
    /\ step = "footer"
    /\ LET s == record.signature IN
       image' = [width |-> s.width, height |-> s.height, num |-> Scale(s)[1], den |-> Scale(s)[2]]
    /\ step' = "built"
    /\ UNCHANGED <<record, title, y, next, lines, boxes, shown>>

LayoutNext ==
    \/ DecodeSignature
    \/ DrawHeader
    \/ DrawCustomer
    \/ DrawJob
    \/ WrapText
    \/ DrawListBox
    \/ DrawParagraphBox
    \/ DrawSignature

=============================================================================
