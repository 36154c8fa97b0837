---------------------------- MODULE PDFRenderer ----------------------------
(***************************************************************************)
(* Renderer.Render of internal/acceptances/pdf.go: the page is laid out    *)
(* (PDFLayout), the objects of the file are collected under the numbers by *)
(* which they refer to each other, and then written one by one, followed   *)
(* by the table of where each begins.  A byte of the file is known by what *)
(* it is part of.                                                          *)
(***************************************************************************)
EXTENDS PDFLayout, FiniteSets

CONSTANT Sizes   \* lengths of the written content and image objects

ASSUME SizesArePositive == Sizes \subseteq Nat \ {0}

VARIABLES
    objects,   \* the objects, each of a kind and with its references
    out,       \* the bytes written
    offsets,   \* where each object begins
    trailer    \* the numbers in the trailer

file == <<objects, out, offsets, trailer>>

vars == <<layout, file>>

NoTrailer == [size |-> 0, root |-> 0, xref |-> 0]

Init ==
    /\ LayoutInit
    /\ objects = <<>>
    /\ out = <<>>
    /\ offsets = <<>>
    /\ trailer = NoTrailer

Layout == LayoutNext /\ UNCHANGED file

-----------------------------------------------------------------------------
(* The objects.  The signature always decodes here, so there is an image.  *)

Add(kind, refs) == objects' = Append(objects, [kind |-> kind, refs |-> refs])

\* The page is the next object and its parent the one after that.
Parent == Len(objects) + 2

\* What is added after so many objects.
AddObject ==
    /\ step = "built"
    /\ LET id == Len(objects) IN
       CASE id = 0 -> Add("font", <<>>)
         [] id = 1 -> Add("bold", <<>>)
         [] id = 2 -> Add("image", <<>>)
         [] id = 3 -> Add("content", <<>>)
         [] id = 4 -> Add("page", [F1 |-> 1, F2 |-> 2, Im1 |-> 3, Contents |-> id, Parent |-> Parent])
         [] id = 5 -> Add("pages", [Kids |-> id])
         [] id = 6 -> Add("catalog", [Pages |-> id])
    /\ step' = IF Len(objects) = 6 THEN "write" ELSE step
    /\ UNCHANGED <<record, title, y, next, lines, boxes, shown, image, out, offsets, trailer>>

Bytes(what, id, n) == [i \in 1 .. n |-> <<what, id>>]

WriteHead ==
    /\ step = "write"
    /\ out = <<>>
    /\ out' = Bytes("head", 0, 2)
    /\ UNCHANGED <<layout, objects, offsets, trailer>>

\* Wrong, for mutation: the offset is taken after the object's first line.
WriteObjectLate ==
    /\ step = "write"
    /\ out # <<>>
    /\ Len(offsets) < Len(objects)
    /\ LET i == Len(offsets) + 1 IN
       \E n \in IF objects[i].kind \in {"content", "image"} THEN Sizes ELSE {1} :
          out' = out \o Bytes("object", i, 1 + n)
    /\ offsets' = Append(offsets, Len(out) + 1)
    /\ UNCHANGED <<layout, objects, trailer>>

\* The line that names the object, the object, and the line that ends it.
WriteObject ==
    /\ step = "write"
    /\ out # <<>>
    /\ Len(offsets) < Len(objects)
    /\ LET i == Len(offsets) + 1 IN
       \E n \in IF objects[i].kind \in {"content", "image"} THEN Sizes ELSE {1} :
          out' = out \o Bytes("object", i, 1 + n)
    /\ offsets' = Append(offsets, Len(out))
    /\ UNCHANGED <<layout, objects, trailer>>

\* The cross-reference table has a line for object 0 and one for each object.
WriteTable ==
    /\ step = "write"
    /\ out # <<>>
    /\ Len(offsets) = Len(objects)
    /\ out' = out \o Bytes("xref", 0, 1 + Len(offsets)) \o Bytes("trailer", 0, 1)
    /\ trailer' = [size |-> Len(objects) + 1, root |-> Len(objects), xref |-> Len(out)]
    /\ step' = "done"
    /\ UNCHANGED <<record, title, y, next, lines, boxes, shown, image, objects, offsets>>

Next == Layout \/ AddObject \/ WriteHead \/ WriteObject \/ WriteTable

Spec == Init /\ [][Next]_vars

-----------------------------------------------------------------------------
(* What must hold of a document.                                           *)

Steps ==
    {"signature", "refused", "header", "footer", "built", "write", "done"} \cup Parts

TypeOK ==
    /\ step \in Steps
    /\ y \in Int
    /\ next \in [item : Nat \ {0}, word : Nat \ {0}]
    /\ lines \in Seq(Lines)
    /\ boxes \in [Parts -> [heading : Int, top : Int, bottom : Int]]
    /\ shown \in [products : Nat, notes : Nat]
    /\ step \in {"products", "notes"} => \A i \in DOMAIN lines :
          /\ lines[i].item \in DOMAIN Texts
          /\ lines[i].from \in DOMAIN Texts[lines[i].item]
          /\ lines[i].to \in DOMAIN Texts[lines[i].item]

\* Every word of every product, and of the notes, is on exactly one line, in order,
\* and every product begins on a line of its own.
Follows(a, b) ==
    \/ b.item = a.item /\ b.from = a.to + 1
    \/ b.item = a.item + 1 /\ b.from = 1 /\ a.to = Len(Texts[a.item])

NoWordIsLost ==
    step \in {"products", "notes"} =>
        /\ lines = <<>> => next = FirstWord
        /\ lines # <<>> =>
              /\ lines[1].item = 1 /\ lines[1].from = 1
              /\ next = IF LastLine.to < Len(Texts[LastLine.item])
                        THEN [item |-> LastLine.item, word |-> LastLine.to + 1]
                        ELSE [item |-> LastLine.item + 1, word |-> 1]
        /\ \A i \in 1 .. Len(lines) - 1 : Follows(lines[i], lines[i + 1])

\* No line is longer than its box allows, except a single word that is.
LinesFit ==
    step \in {"products", "notes"} =>
        \A i \in DOMAIN lines :
            \/ lines[i].from = lines[i].to
            \/ Length(Texts[lines[i].item], lines[i].from, lines[i].to) <= Width

\* Wrapping loses no word, repeats none, and keeps the lines within their box.
WrappingIsSound == NoWordIsLost /\ LinesFit

\* No other way to cut a text into lines that fit needs fewer lines.  A cut is after
\* a word; the last word ends the last line.
Cuts(text) ==
    {S \in SUBSET DOMAIN text :
        /\ Len(text) \in S
        /\ \A b \in S : LET earlier == {c \in S : c < b}
                            from == IF earlier = {} THEN 1
                                    ELSE 1 + CHOOSE c \in earlier : \A d \in earlier : d <= c
                        IN  from = b \/ Length(text, from, b) <= Width}

LinesOf(item) == {i \in DOMAIN lines : lines[i].item = item}

LinesAreFewest ==
    step \in {"products", "notes"} =>
        \A item \in 1 .. next.item - 1 : \A S \in Cuts(Texts[item]) :
            Cardinality(LinesOf(item)) <= Cardinality(S)

\* The list's box holds every line of the list, however the items wrapped, and up to
\* five lines leave the footer with the signature free.
ListFits ==
    [][boxes'["products"] # boxes["products"] =>
          LET box == boxes'["products"]
              baseline(i) == box.top - 18 - 16 * (i - 1)
          IN  /\ \A i \in DOMAIN lines : box.bottom < baseline(i) /\ baseline(i) < box.top
              /\ Len(lines) > 5 \/ box.bottom > FooterHeight]_vars

\* Only the notes' box, which has no room, is painted over what is drawn before it, and
\* it is as soon as the list has some length: over the notes' own heading and the rule
\* under it from three lines on, over the list's frame from five, and over the list's
\* sixth line and all behind it.  Every other part keeps clear of those above it.
Order == <<"customer", "job", "products", "notes">>

Low(box) == IF box.bottom < box.top THEN box.bottom ELSE box.top

High(box) == IF box.bottom < box.top THEN box.top ELSE box.bottom

Covers(box, height) == Low(box) < height /\ height < High(box)

OnlyNotesPaintOver ==
    \A i \in 1 .. 4 : LET part == Order[i] box == boxes[part] IN
        box # NoBox =>
            /\ \A height \in {box.heading, box.heading - 9} :
                  Covers(box, height) <=> part = "notes" /\ shown.products > 2
            /\ \A j \in 1 .. i - 1 :
                  High(box) > Low(boxes[Order[j]]) <=>
                      part = "notes" /\ Order[j] = "products" /\ shown.products > 4
            /\ part = "notes" =>
                  \A k \in 1 .. shown.products :
                      Covers(box, boxes["products"].top - 18 - 16 * (k - 1)) <=> k > 5

\* The signature keeps its proportions and fits the place it has in the footer.
SignatureFits ==
    step \in {"built", "write", "done"} =>
        /\ image.num <= image.den
        /\ image.width * image.num <= 176 * image.den
        /\ image.height * image.num <= 44 * image.den

\* A reader of the file gets as many characters as the title has, and every ASCII one
\* that prints as it was and in its place: no parenthesis, backslash or bullet ends the
\* literal early or takes a neighbour with it.  The others are lost: a letter with an
\* accent is read as a hyphen.
TextsReadBack ==
    title # <<>> =>
        LET read == ReadLiteral(title) IN
        /\ Len(read) = Len(record.title)
        /\ \A i \in DOMAIN record.title :
              record.title[i] \in Printable => read[i] = record.title[i]

\* Each offset is that of the first byte of its object, and `startxref' that of the
\* table, although objects differ in length.
Begins(bytes, offset, what) ==
    /\ offset < Len(bytes)
    /\ bytes[offset + 1] = what
    /\ offset > 0 => bytes[offset] # what

OffsetsFindObjects ==
    /\ \A i \in DOMAIN offsets : Begins(out, offsets[i], <<"object", i>>)
    /\ step = "done" => Begins(out, trailer.xref, <<"xref", 0>>)

\* From the trailer a reader gets to the page, its resources and its content.
ReferencesResolve ==
    step = "done" =>
        LET kind(id) == objects[id].kind
            refs(id) == objects[id].refs
            pages == refs(trailer.root).Pages
            page == refs(pages).Kids
        IN  /\ trailer.size = Len(objects) + 1
            /\ kind(trailer.root) = "catalog" /\ kind(pages) = "pages" /\ kind(page) = "page"
            /\ refs(page).Parent = pages
            /\ kind(refs(page).Contents) = "content"
            /\ kind(refs(page).F1) = "font" /\ kind(refs(page).F2) = "bold"
            /\ kind(refs(page).Im1) = "image"

\* A reader finds every object of the file where the table says and each leads to the next.
FileIsReadable == OffsetsFindObjects /\ ReferencesResolve

\* The notes of an acceptance, or the sentence that there are none, are in its document.
NotesAreShown == step = "done" => shown.notes > 0
=============================================================================
