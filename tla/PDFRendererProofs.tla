------------------------- MODULE PDFRendererProofs -------------------------
(***************************************************************************)
(* The renderer's layout and file are right for every acceptance, however  *)
(* long its texts, and for all lengths of the objects.                     *)
(***************************************************************************)
EXTENDS PDFRenderer, PDFTextProofs, FiniteSetTheorems

Words == [start : Nat, end : Nat]

Wrapping == step \in {"products", "notes"}

Given == record \in Records

\* Where wrapping is: the next word, if there is one, is one of its text.
NextIsAWord ==
    Wrapping => /\ next.item \in 1 .. Len(Texts) + 1
                /\ next.item <= Len(Texts) => next.word \in 1 .. Len(Texts[next.item])

IWrap == Given /\ TypeOK /\ NextIsAWord /\ NoWordIsLost /\ LinesFit

LEMMA TextsAreTexts ==
    ASSUME Given, Wrapping
    PROVE  /\ Texts \in Seq(Seq(Words))
           /\ \A i \in 1 .. Len(Texts) : IsText(Texts[i])
  <1>1. IsRecord(record)
    BY RecordsAreNormal DEF Given
  <1>2. CASE step = "notes"
    <2>1. Texts = <<record.notes>> /\ record.notes \in Seq(Words) /\ IsText(record.notes)
      BY <1>1, <1>2 DEF IsRecord, IsText, Texts, Words
    <2>2. Texts \in Seq(Seq(Words)) /\ Len(Texts) = 1 /\ Texts[1] = record.notes
      BY <2>1
    <2> QED
      BY <2>1, <2>2
  <1>3. CASE step = "products"
    BY <1>1, <1>3 DEF IsRecord, Texts, Words
  <1> QED
    BY <1>2, <1>3 DEF Wrapping

-----------------------------------------------------------------------------
(* One word more.                                                          *)

\* The line that the next word joins is the one that holds the word before it.
LEMMA JoinedLine ==
    ASSUME IWrap, Wrapping, ~Wrapped, next.word > 1
    PROVE  /\ lines # <<>> /\ Len(lines) > 0 /\ Len(lines) \in Nat
           /\ LastLine.item = next.item /\ LastLine.to = next.word - 1
           /\ LastLine.from \in 1 .. Len(Texts[next.item])
  <1>1. lines # <<>>
    BY DEF IWrap, NoWordIsLost, FirstWord, Wrapping
  <1>2. Len(lines) > 0 /\ Len(lines) \in Nat /\ LastLine \in Lines
    <2>1. lines \in Seq(Lines)
      BY DEF IWrap, TypeOK
    <2>2. Len(lines) # 0 /\ Len(lines) \in Nat
      BY <1>1, <2>1, EmptySeq
    <2> QED
      BY <2>1, <2>2 DEF LastLine
  <1>3. next = IF LastLine.to < Len(Texts[LastLine.item])
               THEN [item |-> LastLine.item, word |-> LastLine.to + 1]
               ELSE [item |-> LastLine.item + 1, word |-> 1]
    BY <1>1 DEF IWrap, NoWordIsLost, Wrapping
  <1>4. next.item = LastLine.item /\ next.word = LastLine.to + 1
    BY <1>3
  <1>5. LastLine.from \in DOMAIN Texts[LastLine.item] /\ LastLine.item \in DOMAIN Texts
    BY <1>2 DEF IWrap, TypeOK, LastLine, Wrapping
  <1>6. Texts \in Seq(Seq(Words))
    BY TextsAreTexts DEF IWrap
  <1> QED
    BY <1>1, <1>2, <1>4, <1>5, <1>6 DEF Lines

\* What WrapText makes of the lines, pointwise.
LEMMA NewLines ==
    ASSUME IWrap, WrapText
    PROVE  LET text == Texts[next.item]
               joins == next.word > 1 /\ Fits(text)
               n == Len(lines)
           IN  /\ joins => /\ Len(lines') = n
                           /\ \A i \in 1 .. n - 1 : lines'[i] = lines[i]
                           /\ lines'[n] = [item |-> next.item, from |-> LastLine.from,
                                           to |-> next.word]
               /\ ~joins => /\ Len(lines') = n + 1
                            /\ \A i \in 1 .. n : lines'[i] = lines[i]
                            /\ lines'[n + 1] = [item |-> next.item, from |-> next.word,
                                                to |-> next.word]
               /\ lines' \in Seq(Lines)
  <1> DEFINE text == Texts[next.item]
             joins == next.word > 1 /\ Fits(text)
             n == Len(lines)
  <1>1. Wrapping /\ ~Wrapped /\ AddWord(text)
    BY DEF WrapText, Wrapping
  <1>2. lines \in Seq(Lines) /\ n \in Nat /\ next.item \in Nat /\ next.word \in Nat
    BY DEF IWrap, TypeOK
  <1>3. CASE joins
    <2>1. /\ lines # <<>> /\ n > 0 /\ LastLine.item = next.item /\ LastLine \in Lines
      BY <1>1, <1>2, <1>3, JoinedLine DEF LastLine
    <2>2. lines' = [lines EXCEPT ![n] = [LastLine EXCEPT !.to = next.word]]
      BY <1>1, <1>3 DEF AddWord, LastLine
    <2>3. [LastLine EXCEPT !.to = next.word]
              = [item |-> next.item, from |-> LastLine.from, to |-> next.word]
      BY <2>1 DEF Lines
    <2>4. [item |-> next.item, from |-> LastLine.from, to |-> next.word] \in Lines
      BY <1>2, <2>1 DEF Lines
    <2> QED
      BY <1>2, <1>3, <2>1, <2>2, <2>3, <2>4
  <1>4. CASE ~joins
    <2>1. lines' = Append(lines, [item |-> next.item, from |-> next.word, to |-> next.word])
      BY <1>1, <1>4 DEF AddWord
    <2>2. [item |-> next.item, from |-> next.word, to |-> next.word] \in Lines
      BY <1>2 DEF Lines
    <2> QED
      BY <1>2, <1>4, <2>1, <2>2
  <1> QED
    BY <1>3, <1>4

LEMMA OneMoreWord ==
    \A from, before, start, end, width \in Int :
        start = before + 1 /\ (before - from) + 1 + (end - start) <= width
            => end - from <= width
  OBVIOUS

LEMMA WrapTextKeeps == ASSUME IWrap, WrapText PROVE IWrap'
  <1> DEFINE text == Texts[next.item]
             joins == next.word > 1 /\ Fits(text)
             n == Len(lines)
             fresh == [item |-> next.item, from |-> next.word, to |-> next.word]
             longer == [item |-> next.item, from |-> LastLine.from, to |-> next.word]
             m == Len(lines')
  <1>1. /\ Wrapping /\ ~Wrapped /\ step' = step /\ record' = record /\ Texts' = Texts
        /\ Width' = Width /\ Wrapping' /\ boxes' = boxes /\ y' = y /\ shown' = shown
    BY DEF WrapText, Wrapping, Texts, Width
  <1>2. /\ lines \in Seq(Lines) /\ n \in Nat /\ next \in [item : Nat \ {0}, word : Nat \ {0}]
        /\ next.item \in Nat /\ next.word \in Nat
    BY DEF IWrap, TypeOK
  <1>3. /\ Texts \in Seq(Seq(Words)) /\ next.item \in 1 .. Len(Texts)
        /\ next.word \in 1 .. Len(text) /\ text \in Seq(Words) /\ IsText(text)
        /\ \A i \in 1 .. Len(Texts) : IsText(Texts[i])
    BY <1>1, <1>2, TextsAreTexts DEF IWrap, NextIsAWord, Wrapped, Wrapping
  <1>4. next' = IF next.word < Len(text) THEN [item |-> next.item, word |-> next.word + 1]
                                         ELSE [item |-> next.item + 1, word |-> 1]
    BY <1>2 DEF WrapText
  <1>5. /\ joins => m = n /\ \A i \in 1 .. n - 1 : lines'[i] = lines[i]
        /\ joins => lines'[n] = longer
        /\ ~joins => m = n + 1 /\ \A i \in 1 .. n : lines'[i] = lines[i]
        /\ ~joins => lines'[n + 1] = fresh
        /\ lines' \in Seq(Lines)
    BY NewLines
  <1>6. joins => /\ n > 0 /\ lines # <<>> /\ LastLine.item = next.item
                 /\ LastLine.to = next.word - 1 /\ LastLine.from \in 1 .. Len(text)
    BY <1>1, JoinedLine
  <1>7. \A i \in 1 .. n : /\ lines[i] \in Lines
                          /\ lines[i].item \in DOMAIN Texts
                          /\ lines[i].from \in DOMAIN Texts[lines[i].item]
                          /\ lines[i].to \in DOMAIN Texts[lines[i].item]
    BY <1>1, <1>2 DEF IWrap, TypeOK, Wrapping
  <1>8. m > 0 /\ lines'[m].item = next.item /\ lines'[m].to = next.word
    BY <1>2, <1>5, <1>6
  <1>9. next' \in [item : Nat \ {0}, word : Nat \ {0}]
    BY <1>2, <1>4
  <1> HIDE DEF joins
  <1>10. ASSUME NEW i \in 1 .. m
         PROVE  /\ lines'[i].item \in DOMAIN Texts
                /\ lines'[i].from \in DOMAIN Texts[lines'[i].item]
                /\ lines'[i].to \in DOMAIN Texts[lines'[i].item]
    <2>1. CASE joins /\ i # n
      <3>1. i \in 1 .. n /\ i \in 1 .. n - 1
        BY <1>2, <1>5, <2>1
      <3>2. lines'[i] = lines[i]
        BY <1>5, <2>1, <3>1
      <3> QED
        BY <1>7, <3>1, <3>2
    <2>2. CASE joins /\ i = n
      <3>1. lines'[i] = longer
        BY <1>5, <2>2
      <3> QED
        BY <1>3, <1>6, <2>2, <3>1, SMTT(30)
    <2>3. CASE ~joins /\ i <= n
      BY <1>2, <1>5, <1>7, <2>3
    <2>4. CASE ~joins /\ i > n
      <3>1. lines'[i] = fresh
        BY <1>2, <1>5, <2>4, SMTT(30)
      <3> QED
        BY <1>3, <3>1
    <2> QED
      BY <1>2, <1>5, <2>1, <2>2, <2>3, <2>4
  <1>11. TypeOK'
    <2>1. step' \in Steps /\ y' \in Int /\ shown' \in [products : Nat, notes : Nat]
              /\ boxes' \in [Parts -> [heading : Int, top : Int, bottom : Int]]
      BY <1>1 DEF IWrap, TypeOK
    <2>2. DOMAIN lines' = 1 .. m
      BY <1>5
    <2> QED
      BY <1>1, <1>5, <1>9, <1>10, <2>1, <2>2 DEF TypeOK
  <1>12. NextIsAWord'
    <2>1. CASE next.word < Len(text)
      BY <1>1, <1>2, <1>3, <1>4, <2>1 DEF NextIsAWord
    <2>2. CASE ~(next.word < Len(text))
      <3>1. next'.item = next.item + 1 /\ next'.word = 1
        BY <1>4, <2>2
      <3>2. ASSUME next'.item <= Len(Texts)
            PROVE  Len(Texts[next'.item]) > 0 /\ Texts[next'.item] \in Seq(Words)
        <4>1. next'.item \in 1 .. Len(Texts)
          BY <1>2, <3>1, <3>2
        <4> QED
          BY <1>3, <4>1 DEF IsText
      <3> QED
        BY <1>1, <1>2, <1>3, <3>1, <3>2 DEF NextIsAWord
    <2> QED
      BY <2>1, <2>2
  <1>13. NoWordIsLost'
    <2>1. lines' # <<>>
      BY <1>8
    <2>2. lines'[1].item = 1 /\ lines'[1].from = 1
      <3>1. CASE n = 0
        <4>1. lines = <<>>
          BY <1>2, <3>1
        <4>2. next = FirstWord
          BY <1>1, <4>1 DEF IWrap, NoWordIsLost, Wrapping
        <4>3. ~joins
          BY <1>6, <3>1
        <4> QED
          BY <1>5, <3>1, <4>2, <4>3 DEF FirstWord
      <3>2. CASE n > 0
        <4>1. lines # <<>>
          BY <3>2
        <4>2. lines[1].item = 1 /\ lines[1].from = 1
          BY <1>1, <4>1 DEF IWrap, NoWordIsLost, Wrapping
        <4>3. CASE n = 1 /\ joins
          BY <1>5, <1>6, <4>2, <4>3 DEF LastLine
        <4>4. CASE ~(n = 1 /\ joins)
          <5>1. lines'[1] = lines[1]
            <6>1. CASE joins
              BY <1>2, <1>5, <3>2, <4>4, <6>1
            <6>2. CASE ~joins
              BY <1>2, <1>5, <3>2, <6>2
            <6> QED
              BY <6>1, <6>2
          <5> QED
            BY <4>2, <5>1
        <4> QED
          BY <4>3, <4>4
      <3> QED
        BY <1>2, <3>1, <3>2
    <2>3. next' = IF lines'[m].to < Len(Texts[lines'[m].item])
                  THEN [item |-> lines'[m].item, word |-> lines'[m].to + 1]
                  ELSE [item |-> lines'[m].item + 1, word |-> 1]
      BY <1>4, <1>8
    <2>4. ASSUME NEW i \in 1 .. m - 1 PROVE Follows(lines'[i], lines'[i + 1])
      <3>1. \A j \in 1 .. n - 1 : Follows(lines[j], lines[j + 1])
        BY <1>1 DEF IWrap, NoWordIsLost, Wrapping
      <3>2. CASE joins
        <4>1. i \in 1 .. n - 1 /\ lines'[i] = lines[i]
          BY <1>2, <1>5, <3>2
        <4>2. lines'[i + 1].item = lines[i + 1].item /\ lines'[i + 1].from = lines[i + 1].from
          <5>1. CASE i + 1 = n
            BY <1>5, <1>6, <3>2, <5>1 DEF LastLine
          <5>2. CASE i + 1 # n
            BY <1>2, <1>5, <3>2, <4>1, <5>2
          <5> QED
            BY <5>1, <5>2
        <4> QED
          BY <3>1, <4>1, <4>2 DEF Follows
      <3>3. CASE ~joins /\ i < n
        <4>1. lines'[i] = lines[i] /\ lines'[i + 1] = lines[i + 1] /\ i \in 1 .. n - 1
          BY <1>2, <1>5, <3>3
        <4> QED
          BY <3>1, <4>1 DEF Follows
      <3>4. CASE ~joins /\ i = n
        <4>1. lines'[i] = LastLine /\ lines'[i + 1] = fresh /\ lines # <<>> /\ n > 0
          BY <1>2, <1>5, <3>4 DEF LastLine
        <4>2. next = IF LastLine.to < Len(Texts[LastLine.item])
                     THEN [item |-> LastLine.item, word |-> LastLine.to + 1]
                     ELSE [item |-> LastLine.item + 1, word |-> 1]
          BY <1>1, <4>1 DEF IWrap, NoWordIsLost, Wrapping
        <4>3. /\ LastLine.to \in 1 .. Len(Texts[LastLine.item])
              /\ Len(Texts[LastLine.item]) \in Nat
          <5>1. LastLine.item \in DOMAIN Texts /\ LastLine.to \in DOMAIN Texts[LastLine.item]
            BY <1>2, <1>7, <4>1 DEF LastLine
          <5>2. Texts[LastLine.item] \in Seq(Words)
            BY <1>3, <5>1
          <5> QED
            BY <5>1, <5>2
        <4>4. CASE LastLine.to < Len(Texts[LastLine.item])
          <5>1. next.item = LastLine.item /\ next.word = LastLine.to + 1
            BY <4>2, <4>4
          <5> QED
            BY <4>1, <5>1 DEF Follows
        <4>5. CASE ~(LastLine.to < Len(Texts[LastLine.item]))
          <5>1. next.item = LastLine.item + 1 /\ next.word = 1
                    /\ LastLine.to = Len(Texts[LastLine.item])
            BY <4>2, <4>3, <4>5
          <5> QED
            BY <4>1, <5>1 DEF Follows
        <4> QED
          BY <4>4, <4>5
      <3> QED
        BY <1>2, <1>5, <3>2, <3>3, <3>4
    <2> QED
      BY <1>1, <2>1, <2>2, <2>3, <2>4 DEF NoWordIsLost, LastLine, Follows
  <1>14. LinesFit'
    <2>1. ASSUME NEW i \in 1 .. m
          PROVE  \/ lines'[i].from = lines'[i].to
                 \/ Length(Texts[lines'[i].item], lines'[i].from, lines'[i].to) <= Width
      <3>1. \A j \in 1 .. n : \/ lines[j].from = lines[j].to
                              \/ Length(Texts[lines[j].item], lines[j].from, lines[j].to) <= Width
        BY <1>1, <1>2 DEF IWrap, LinesFit, Wrapping
      <3>2. CASE joins /\ i = n
        <4> DEFINE a == LastLine.from
                   w == next.word
        <4>1. /\ a \in 1 .. Len(text) /\ w \in 1 .. Len(text) /\ w - 1 \in 1 .. Len(text)
              /\ LastLine.to = w - 1
          BY <1>2, <1>3, <1>6, <3>2 DEF joins
        <4>2. text[w].start = text[w - 1].end + 1
          <5>1. w - 1 \in 1 .. Len(text) - 1
            BY <1>3, <4>1
          <5>2. text[(w - 1) + 1].start = text[w - 1].end + 1
            BY <1>3, <5>1 DEF IsText
          <5>3. (w - 1) + 1 = w
            BY <1>2
          <5> QED
            BY <5>2, <5>3
        <4>3. (text[w - 1].end - text[a].start) + 1 + (text[w].end - text[w].start) <= Width
          BY <3>2, <4>1 DEF joins, Fits, Length
        <4>4. /\ text[w].end \in Int /\ text[w].start \in Int /\ text[w - 1].end \in Int
              /\ text[a].start \in Int
          <5>1. text[w] \in Words /\ text[w - 1] \in Words /\ text[a] \in Words
            BY <1>3, <4>1, SMTT(30)
          <5> QED
            BY <5>1, SMTT(30) DEF Words
        <4>5. Width \in Int
          BY DEF Width, NotesWidth, ProductWidth
        <4>6. text[w].end - text[a].start <= Width
          BY <4>2, <4>3, <4>4, <4>5, OneMoreWord
        <4>7. lines'[i] = longer
          BY <1>5, <3>2
        <4> QED
          BY <4>6, <4>7 DEF Length
      <3>3. CASE joins /\ i # n
        BY <1>2, <1>5, <3>1, <3>3
      <3>4. CASE ~joins /\ i <= n
        BY <1>2, <1>5, <3>1, <3>4
      <3>5. CASE ~joins /\ i = n + 1
        BY <1>5, <3>5
      <3> QED
        BY <1>2, <1>5, <3>2, <3>3, <3>4, <3>5
    <2> QED
      BY <1>1, <1>5, <2>1 DEF LinesFit, Length
  <1>15. Given'
    BY <1>1 DEF IWrap, Given
  <1> QED
    BY <1>11, <1>12, <1>13, <1>14, <1>15 DEF IWrap

-----------------------------------------------------------------------------
(***************************************************************************)
(* The whole invariant.  Wrapping begins with the first word; the boxes    *)
(* and the cursor stand where the steps so far put them; the signature is  *)
(* scaled once it is decoded; and the file is the beginning of what it     *)
(* will be.                                                                *)
(***************************************************************************)
Early == {"signature", "refused", "header", "customer", "job"}

NotBegun == step \in Early => lines = <<>> /\ next = FirstWord

CustomerBox == [heading |-> 648, top |-> 628, bottom |-> 536]

JobBox == [heading |-> 518, top |-> 498, bottom |-> 292]

ListBox(n) == [heading |-> 274, top |-> 254, bottom |-> 234 - 16 * n]

\* It ends where it may at the lowest, since even one line of notes wants more room.
NotesBox(n) == [heading |-> 216 - 16 * n, top |-> 196 - 16 * n, bottom |-> 170]

Heights ==
    /\ step \in {"signature", "refused", "header", "customer"} =>
          \A p \in Parts : boxes[p] = NoBox
    /\ step = "customer" => y = 648
    /\ step = "job" => /\ y = 518 /\ boxes["customer"] = CustomerBox
                       /\ \A p \in Parts \ {"customer"} : boxes[p] = NoBox
    /\ step = "products" => /\ y = 274 /\ boxes["customer"] = CustomerBox
                            /\ boxes["job"] = JobBox
                            /\ boxes["products"] = NoBox /\ boxes["notes"] = NoBox
    /\ step \in {"notes", "footer", "built", "write", "done"} =>
          /\ boxes["customer"] = CustomerBox /\ boxes["job"] = JobBox
          /\ boxes["products"] = ListBox(shown.products) /\ shown.products > 0
    /\ step = "notes" => y = 216 - 16 * shown.products /\ boxes["notes"] = NoBox
    /\ step \in {"footer", "built", "write", "done"} => boxes["notes"] = NotesBox(shown.products)

Scaled ==
    /\ step \notin {"signature", "refused"} => record.signature # NoImage
    /\ SignatureFits

Kinds == <<"font", "bold", "image", "content", "page", "pages", "catalog">>

References ==
    <<<<>>, <<>>, <<>>, <<>>,
      [F1 |-> 1, F2 |-> 2, Im1 |-> 3, Contents |-> 4, Parent |-> 6],
      [Kids |-> 5],
      [Pages |-> 6]>>

Object(i) == [kind |-> Kinds[i], refs |-> References[i]]

Objects == {Object(i) : i \in 1 .. 7}

Collected ==
    /\ objects \in Seq(Objects)
    /\ \A i \in 1 .. Len(objects) : objects[i] = Object(i)
    /\ step = "built" => Len(objects) < 7
    /\ step \in {"write", "done"} => Len(objects) = 7
    /\ step \notin {"built", "write", "done"} => objects = <<>>

Labels == {"head", "object", "xref", "trailer"} \X Nat

Written ==
    /\ out \in Seq(Labels)
    /\ offsets \in Seq(Nat)
    /\ step \notin {"write", "done"} => out = <<>> /\ offsets = <<>>
    /\ step = "write" /\ out = <<>> => offsets = <<>>
    /\ step = "write" /\ out # <<>> => out[Len(out)] \in {<<"head", 0>>, <<"object", Len(offsets)>>}
    /\ OffsetsFindObjects
    /\ step = "done" => trailer.size = 8 /\ trailer.root = 7

IInv == IWrap /\ NotBegun /\ Heights /\ Scaled /\ Collected /\ Written

LEMMA Initially == Init => IInv
  <1> SUFFICES ASSUME Init PROVE IInv
    OBVIOUS
  <1> USE DEF Init, LayoutInit
  <1>1. lines \in Seq(Lines) /\ Len(lines) = 0 /\ objects \in Seq(Objects)
            /\ Len(objects) = 0 /\ out \in Seq(Labels) /\ offsets \in Seq(Nat) /\ Len(offsets) = 0
    OBVIOUS
  <1>2. IWrap /\ NotBegun
    <2>1. next \in [item : Nat \ {0}, word : Nat \ {0}]
      BY DEF FirstWord
    <2>2. /\ boxes \in [Parts -> [heading : Int, top : Int, bottom : Int]]
          /\ shown \in [products : Nat, notes : Nat]
      BY DEF NoBox
    <2>3. TypeOK
      BY <1>1, <2>1, <2>2 DEF TypeOK, Steps, PageHeight
    <2> QED
      BY <2>3 DEF IWrap, NotBegun, Given, NextIsAWord, NoWordIsLost, LinesFit, Wrapping
  <1>3. Heights
    <2>1. \A p \in Parts : boxes[p] = NoBox
      OBVIOUS
    <2> QED
      BY <2>1 DEF Heights
  <1>4. Scaled /\ Collected /\ Written
    BY <1>1 DEF Scaled, SignatureFits, Collected, Written, OffsetsFindObjects
  <1> QED
    BY <1>2, <1>3, <1>4 DEF IInv

-----------------------------------------------------------------------------
(* The steps of the layout.                                                *)

\* Before the first word nothing is lost.
LEMMA Begin ==
    ASSUME Given, Given', record' = record, Wrapping', lines' = <<>>, next' = FirstWord
    PROVE  NextIsAWord' /\ NoWordIsLost' /\ LinesFit'
  <1>1. Texts' \in Seq(Seq(Words)) /\ \A i \in 1 .. Len(Texts') : IsText(Texts'[i])
    <2>1. IsRecord(record')
      BY RecordsAreNormal DEF Given
    <2>2. CASE step' = "notes"
      <3>1. Texts' = <<record'.notes>> /\ record'.notes \in Seq(Words) /\ IsText(record'.notes)
        BY <2>1, <2>2 DEF IsRecord, IsText, Texts, Words
      <3>2. Texts' \in Seq(Seq(Words)) /\ Len(Texts') = 1 /\ Texts'[1] = record'.notes
        BY <3>1
      <3> QED
        BY <3>1, <3>2
    <2>3. CASE step' = "products"
      BY <2>1, <2>3 DEF IsRecord, Texts, Words
    <2> QED
      BY <2>2, <2>3 DEF Wrapping
  <1>2. Len(Texts') \in Nat /\ Len(lines') = 0
    BY <1>1
  <1>3. 1 <= Len(Texts') => Len(Texts'[1]) > 0 /\ Len(Texts'[1]) \in Nat
    BY <1>1, <1>2 DEF IsText
  <1>4. next'.item = 1 /\ next'.word = 1
    BY DEF FirstWord
  <1> QED
    BY <1>2, <1>3, <1>4 DEF NextIsAWord, NoWordIsLost, LinesFit

\* A step of the layout before the page is done leaves the file alone.
LEMMA LayoutOnly ==
    ASSUME IInv, UNCHANGED file, step \notin {"built", "write", "done"},
           step' \notin {"write", "done"}
    PROVE  Collected' /\ Written'
  BY DEF file, IInv, Collected, Written, OffsetsFindObjects, Begins

LEMMA DecodeSignatureKeeps == ASSUME IInv, DecodeSignature, UNCHANGED file PROVE IInv'
  <1> USE DEF DecodeSignature
  <1>1. IWrap' /\ NotBegun'
    BY DEF IInv, IWrap, NotBegun, TypeOK, Given, NextIsAWord, NoWordIsLost, LinesFit, Wrapping,
       Steps, Early
  <1>2. Heights'
    BY DEF IInv, Heights
  <1>3. Scaled'
    BY DEF IInv, Scaled, SignatureFits
  <1> QED
    BY <1>1, <1>2, <1>3, LayoutOnly DEF IInv

LEMMA DrawHeaderKeeps == ASSUME IInv, DrawHeader, UNCHANGED file PROVE IInv'
  <1>1. /\ step = "header" /\ step' = "customer" /\ y' = 648
        /\ UNCHANGED <<record, next, lines, boxes, shown, image>>
    BY DEF DrawHeader, PageHeight, SectionGap
  <1>2. IWrap' /\ NotBegun'
    <2>1. NotBegun' /\ Given' /\ NextIsAWord'
      BY <1>1 DEF IInv, IWrap, NotBegun, Given, NextIsAWord, Wrapping, Early
    <2>2. NoWordIsLost' /\ LinesFit'
      BY <1>1 DEF NoWordIsLost, LinesFit
    <2>3. TypeOK'
      <3>1. /\ next \in [item : Nat \ {0}, word : Nat \ {0}] /\ lines \in Seq(Lines)
            /\ boxes \in [Parts -> [heading : Int, top : Int, bottom : Int]]
            /\ shown \in [products : Nat, notes : Nat]
        BY DEF IInv, IWrap, TypeOK
      <3>2. step' \in Steps /\ step' \notin {"products", "notes"} /\ y' \in Int
        BY <1>1 DEF Steps, Parts
      <3> QED
        BY <1>1, <3>1, <3>2 DEF TypeOK
    <2> QED
      BY <2>1, <2>2, <2>3 DEF IWrap
  <1>3. Heights'
    BY <1>1 DEF IInv, Heights
  <1>4. Scaled'
    BY <1>1 DEF IInv, Scaled, SignatureFits
  <1> QED
    BY <1>1, <1>2, <1>3, <1>4, LayoutOnly DEF IInv

\* What a step does to the boxes.
LEMMA NewBox ==
    ASSUME IInv, NEW part \in Parts, NEW box \in [heading : Int, top : Int, bottom : Int],
           boxes' = [boxes EXCEPT ![part] = box]
    PROVE  /\ boxes' \in [Parts -> [heading : Int, top : Int, bottom : Int]]
           /\ boxes'[part] = box
           /\ \A p \in Parts \ {part} : boxes'[p] = boxes[p]
  BY DEF IInv, IWrap, TypeOK

LEMMA DrawCustomerKeeps == ASSUME IInv, DrawCustomer, UNCHANGED file PROVE IInv'
  <1>1. /\ step = "customer" /\ step' = "job" /\ y = 648 /\ y' = 518
        /\ boxes' = [boxes EXCEPT !["customer"] = CustomerBox]
        /\ UNCHANGED <<record, title, next, lines, shown, image>>
    BY DEF DrawCustomer, DrawDetails, Box, BelowHeading, SectionGap, CustomerBox, IInv, Heights
  <1>2. /\ boxes' \in [Parts -> [heading : Int, top : Int, bottom : Int]]
        /\ boxes'["customer"] = CustomerBox
        /\ \A p \in Parts \ {"customer"} : boxes'[p] = NoBox
    <2>1. \A p \in Parts : boxes[p] = NoBox
      BY <1>1 DEF IInv, Heights
    <2>2. "customer" \in Parts /\ CustomerBox \in [heading : Int, top : Int, bottom : Int]
      BY DEF Parts, CustomerBox
    <2> QED
      BY <1>1, <2>1, <2>2, NewBox
  <1>3. IWrap' /\ NotBegun'
    BY <1>1, <1>2 DEF IInv, IWrap, NotBegun, TypeOK, Given, NextIsAWord, NoWordIsLost, LinesFit,
       Wrapping, Steps, Parts, Early
  <1>4. Heights'
    BY <1>1, <1>2 DEF Heights
  <1>5. Scaled'
    BY <1>1 DEF IInv, Scaled, SignatureFits
  <1> QED
    BY <1>1, <1>3, <1>4, <1>5, LayoutOnly DEF IInv

LEMMA DrawJobKeeps == ASSUME IInv, DrawJob, UNCHANGED file PROVE IInv'
  <1>1. /\ step = "job" /\ step' = "products" /\ y = 518 /\ y' = 274
        /\ boxes' = [boxes EXCEPT !["job"] = JobBox]
        /\ UNCHANGED <<record, title, next, lines, shown, image>>
    BY DEF DrawJob, DrawDetails, Box, BelowHeading, SectionGap, JobBox, IInv, Heights
  <1>2. /\ boxes' \in [Parts -> [heading : Int, top : Int, bottom : Int]]
        /\ boxes'["customer"] = CustomerBox /\ boxes'["job"] = JobBox
        /\ boxes'["products"] = NoBox /\ boxes'["notes"] = NoBox
    <2>1. boxes["customer"] = CustomerBox /\ \A p \in Parts \ {"customer"} : boxes[p] = NoBox
      BY <1>1 DEF IInv, Heights
    <2>2. "job" \in Parts /\ JobBox \in [heading : Int, top : Int, bottom : Int]
      BY DEF Parts, JobBox
    <2>3. /\ boxes' \in [Parts -> [heading : Int, top : Int, bottom : Int]]
          /\ boxes'["job"] = JobBox /\ \A p \in Parts \ {"job"} : boxes'[p] = boxes[p]
      BY <1>1, <2>2, NewBox
    <2> QED
      BY <2>1, <2>3 DEF Parts
  <1>3. lines' = <<>> /\ next' = FirstWord /\ Given /\ Given'
    BY <1>1 DEF IInv, IWrap, NotBegun, Given, Early
  <1>4. NextIsAWord' /\ NoWordIsLost' /\ LinesFit'
    BY <1>1, <1>3, Begin DEF Wrapping
  <1>5. TypeOK'
    <2>1. /\ next \in [item : Nat \ {0}, word : Nat \ {0}] /\ lines \in Seq(Lines)
          /\ shown \in [products : Nat, notes : Nat]
      BY DEF IInv, IWrap, TypeOK
    <2>2. DOMAIN lines' = {}
      BY <1>3
    <2> QED
      BY <1>1, <1>2, <2>1, <2>2 DEF TypeOK, Steps, Parts
  <1>6. Heights'
    BY <1>1, <1>2 DEF Heights
  <1>7. Scaled'
    BY <1>1 DEF IInv, Scaled, SignatureFits
  <1>8. NotBegun'
    BY <1>1 DEF NotBegun, Early
  <1> QED
    BY <1>1, <1>3, <1>4, <1>5, <1>6, <1>7, <1>8, LayoutOnly DEF IInv, IWrap

LEMMA WrapKeeps == ASSUME IInv, WrapText, UNCHANGED file PROVE IInv'
  <1>1. step \in {"products", "notes"} /\ UNCHANGED <<record, step, title, y, boxes, shown, image>>
    BY DEF WrapText
  <1>2. IWrap'
    BY WrapTextKeeps DEF IInv
  <1>3. NotBegun' /\ Heights' /\ Scaled'
    BY <1>1 DEF IInv, NotBegun, Heights, Scaled, SignatureFits, Early
  <1> QED
    BY <1>1, <1>2, <1>3, LayoutOnly DEF IInv

\* What the list's box is, by the number of its lines.
LEMMA ListIsBoxed ==
    ASSUME IInv, DrawListBox
    PROVE  /\ ListLines \in Nat /\ ListLines >= Len(lines) /\ Len(lines) \in Nat /\ ListLines > 0
           /\ Len(lines) <= 5 => ListLines <= 5
           /\ shown' \in [products : Nat, notes : Nat] /\ shown'.products = ListLines
           /\ shown'.notes = shown.notes
           /\ y' = 216 - 16 * shown'.products
           /\ boxes' \in [Parts -> [heading : Int, top : Int, bottom : Int]]
           /\ boxes'["customer"] = CustomerBox /\ boxes'["job"] = JobBox
           /\ boxes'["products"] = ListBox(shown'.products) /\ boxes'["notes"] = NoBox
  <1>1. /\ y = 274 /\ boxes["notes"] = NoBox /\ lines \in Seq(Lines)
        /\ boxes["customer"] = CustomerBox /\ boxes["job"] = JobBox
        /\ shown \in [products : Nat, notes : Nat]
    BY DEF DrawListBox, IInv, Heights, IWrap, TypeOK
  <1>2. /\ Len(lines) \in Nat /\ ListLines \in Nat /\ ListLines >= Len(lines) /\ ListLines > 0
        /\ Len(lines) <= 5 => ListLines <= 5
    BY <1>1, EmptySeq DEF ListLines
  <1>3. /\ BelowHeading = 254 /\ BelowHeading - ListHeight = 234 - 16 * ListLines
        /\ BelowHeading - ListHeight - SectionGap = 216 - 16 * ListLines
    BY <1>1, <1>2 DEF BelowHeading, ListHeight, SectionGap
  <1>4. shown' = [shown EXCEPT !.products = ListLines]
    BY DEF DrawListBox
  <1>5. /\ shown' \in [products : Nat, notes : Nat] /\ shown'.products = ListLines
        /\ shown'.notes = shown.notes
    BY <1>1, <1>2, <1>4
  <1>6. boxes' = [boxes EXCEPT !["products"] = ListBox(ListLines)] /\ y' = 216 - 16 * ListLines
    BY <1>1, <1>3 DEF DrawListBox, Box, ListBox
  <1>7. "products" \in Parts /\ ListBox(ListLines) \in [heading : Int, top : Int, bottom : Int]
    BY <1>2 DEF Parts, ListBox
  <1>8. /\ boxes' \in [Parts -> [heading : Int, top : Int, bottom : Int]]
        /\ boxes'["products"] = ListBox(ListLines)
        /\ \A p \in Parts \ {"products"} : boxes'[p] = boxes[p]
    BY <1>6, <1>7, NewBox
  <1> QED
    BY <1>1, <1>2, <1>5, <1>6, <1>8 DEF Parts

LEMMA DrawListBoxKeeps == ASSUME IInv, DrawListBox, UNCHANGED file PROVE IInv'
  <1>1. /\ step = "products" /\ step' = "notes" /\ lines' = <<>> /\ next' = FirstWord
        /\ UNCHANGED <<record, title, image>>
    BY DEF DrawListBox
  <1>2. NextIsAWord' /\ NoWordIsLost' /\ LinesFit' /\ Given'
    BY <1>1, Begin DEF Wrapping, IInv, IWrap, Given
  <1>3. TypeOK'
    <2>1. next' \in [item : Nat \ {0}, word : Nat \ {0}] /\ lines' \in Seq(Lines) /\ Len(lines') = 0
      BY <1>1 DEF FirstWord
    <2>2. y' \in Int
      BY ListIsBoxed
    <2> QED
      BY <1>1, <2>1, <2>2, ListIsBoxed DEF IInv, IWrap, TypeOK, Steps, Parts
  <1>4. Heights'
    BY <1>1, ListIsBoxed DEF Heights
  <1>5. NotBegun' /\ Scaled'
    BY <1>1 DEF IInv, NotBegun, Scaled, SignatureFits, Early
  <1> QED
    BY <1>1, <1>2, <1>3, <1>4, <1>5, LayoutOnly DEF IInv, IWrap

\* Notes of any length want a box that ends below its lowest end.
LEMMA NotesWantRoom ==
    ASSUME NEW n \in Nat, n > 0, NEW k \in Nat
    PROVE  (196 - 16 * n) - (15 * k + 22) < 170
  OBVIOUS

\* The notes, of at least one line, begin so low that their box ends where it may at the
\* lowest, and none of their lines stands above that.
LEMMA NotesAreBoxed ==
    ASSUME IInv, DrawParagraphBox
    PROVE  /\ boxes' = [boxes EXCEPT !["notes"] = NotesBox(shown.products)] /\ y' = 170
           /\ shown' = [shown EXCEPT !.notes = 0]
  <1> DEFINE lowest == FooterHeight + 18
             wanted == BelowHeading - (15 * Len(lines) + 22)
             bottom == IF wanted < lowest THEN lowest ELSE wanted
             n == shown.products
  <1>1. /\ y = 216 - 16 * n /\ n \in Nat /\ n > 0 /\ Len(lines) \in Nat
    BY DEF DrawParagraphBox, IInv, IWrap, TypeOK, Heights
  <1>2. BelowHeading = 196 - 16 * n /\ lowest = 170
    BY <1>1 DEF BelowHeading, FooterHeight
  <1>3. bottom = 170
    <2>1. wanted = (196 - 16 * n) - (15 * Len(lines) + 22)
      BY <1>2
    <2>2. wanted < 170
      BY <1>1, <2>1, NotesWantRoom
    <2> QED
      BY <1>2, <2>2
  <1>4. boxes' = [boxes EXCEPT !["notes"] = Box(bottom)] /\ y' = bottom
    BY DEF DrawParagraphBox
  <1>5. PICK m \in 0 .. Len(lines) :
            /\ \A i \in 1 .. m : BelowHeading - 18 - 15 * (i - 1) >= bottom + 14
            /\ shown' = [shown EXCEPT !.notes = m]
    BY DEF DrawParagraphBox
  <1> HIDE DEF bottom, n
  <1>6. m = 0
    <2> SUFFICES ASSUME 1 \in 1 .. m PROVE FALSE
      BY <1>1
    <2>1. BelowHeading - 18 - 15 * (1 - 1) >= bottom + 14
      BY <1>5
    <2> QED
      BY <1>1, <1>2, <1>3, <2>1
  <1>7. Box(bottom) = NotesBox(n)
    BY <1>1, <1>2, <1>3 DEF Box, NotesBox
  <1> QED
    BY <1>3, <1>4, <1>5, <1>6, <1>7 DEF n

LEMMA DrawParagraphBoxKeeps == ASSUME IInv, DrawParagraphBox, UNCHANGED file PROVE IInv'
  <1>1. /\ step = "notes" /\ step' = "footer" /\ y' = 170
        /\ UNCHANGED <<record, title, next, lines, image>>
        /\ boxes' = [boxes EXCEPT !["notes"] = NotesBox(shown.products)]
        /\ shown' = [shown EXCEPT !.notes = 0]
    BY NotesAreBoxed DEF DrawParagraphBox
  <1>2. /\ shown \in [products : Nat, notes : Nat] /\ shown' \in [products : Nat, notes : Nat]
        /\ shown'.products = shown.products
    BY <1>1 DEF IInv, IWrap, TypeOK
  <1>3. "notes" \in Parts /\ NotesBox(shown.products) \in [heading : Int, top : Int, bottom : Int]
    BY <1>2 DEF Parts, NotesBox
  <1>4. /\ boxes' \in [Parts -> [heading : Int, top : Int, bottom : Int]]
        /\ boxes'["notes"] = NotesBox(shown.products)
        /\ \A p \in Parts \ {"notes"} : boxes'[p] = boxes[p]
    BY <1>1, <1>3, NewBox
  <1>5. IWrap' /\ NotBegun'
    BY <1>1, <1>2, <1>4 DEF IInv, IWrap, NotBegun, TypeOK, Given, NextIsAWord, NoWordIsLost,
       LinesFit, Wrapping, Steps, Early
  <1>6. Heights'
    <2>1. /\ boxes'["customer"] = boxes["customer"] /\ boxes'["job"] = boxes["job"]
          /\ boxes'["products"] = boxes["products"]
      BY <1>4 DEF Parts
    <2> QED
      BY <1>1, <1>2, <1>4, <2>1 DEF IInv, Heights
  <1>7. Scaled'
    BY <1>1 DEF IInv, Scaled, SignatureFits
  <1> QED
    BY <1>1, <1>5, <1>6, <1>7, LayoutOnly DEF IInv

LEMMA DrawSignatureKeeps == ASSUME IInv, DrawSignature, UNCHANGED file PROVE IInv'
  <1> DEFINE s == record.signature
  <1>1. /\ step = "footer" /\ step' = "built" /\ UNCHANGED <<record, title, y, next, lines, boxes, shown>>
        /\ image' = [width |-> s.width, height |-> s.height, num |-> Scale(s)[1], den |-> Scale(s)[2]]
    BY DEF DrawSignature
  <1>2. s.width \in Nat /\ s.height \in Nat
    <2>1. IsRecord(record)
      BY RecordsAreNormal DEF IInv, IWrap, Given
    <2>2. s # NoImage
      BY <1>1 DEF IInv, Scaled
    <2> QED
      BY <2>1, <2>2 DEF IsRecord
  <1>3. /\ image'.num <= image'.den /\ image'.width * image'.num <= 176 * image'.den
        /\ image'.height * image'.num <= 44 * image'.den
    <2>0. /\ image'.width = s.width /\ image'.height = s.height
          /\ image'.num = Scale(s)[1] /\ image'.den = Scale(s)[2]
      BY <1>1
    <2>1. CASE 176 * s.height < 44 * s.width /\ s.width > 176
      <3>1. Scale(s) = <<176, s.width>>
        BY <2>1 DEF Scale
      <3> QED
        BY <1>2, <2>0, <2>1, <3>1
    <2>2. CASE ~(176 * s.height < 44 * s.width) /\ s.height > 44
      <3>1. Scale(s) = <<44, s.height>>
        BY <2>2 DEF Scale
      <3> QED
        BY <1>2, <2>0, <2>2, <3>1
    <2>3. CASE 176 * s.height < 44 * s.width /\ ~(s.width > 176)
      <3>1. Scale(s) = <<1, 1>>
        BY <2>3 DEF Scale
      <3> QED
        BY <1>2, <2>0, <2>3, <3>1
    <2>4. CASE ~(176 * s.height < 44 * s.width) /\ ~(s.height > 44)
      <3>1. Scale(s) = <<1, 1>>
        BY <2>4 DEF Scale
      <3> QED
        BY <1>2, <2>0, <2>4, <3>1
    <2> QED
      BY <2>1, <2>2, <2>3, <2>4
  <1>4. IWrap' /\ NotBegun'
    BY <1>1 DEF IInv, IWrap, NotBegun, TypeOK, Given, NextIsAWord, NoWordIsLost,
       LinesFit, Wrapping, Steps, Early
  <1>5. Heights'
    BY <1>1 DEF IInv, Heights
  <1>6. Scaled'
    BY <1>1, <1>3 DEF IInv, Scaled, SignatureFits
  <1>7. Collected' /\ Written'
    BY <1>1 DEF file, IInv, Collected, Written, OffsetsFindObjects, Begins
  <1> QED
    BY <1>4, <1>5, <1>6, <1>7 DEF IInv

-----------------------------------------------------------------------------
(* The steps of the file.                                                  *)

\* They leave the layout alone, but for the step.
LEMMA FileOnly ==
    ASSUME IInv, step \in {"built", "write"}, step' \in {"built", "write", "done"},
           UNCHANGED <<record, title, y, next, lines, boxes, shown, image>>
    PROVE  IWrap' /\ NotBegun' /\ Heights' /\ Scaled'
  <1>1. IWrap' /\ NotBegun'
    BY DEF IInv, IWrap, NotBegun, TypeOK, Given, NextIsAWord, NoWordIsLost, LinesFit, Wrapping,
       Steps, Early
  <1>2. Heights' /\ Scaled'
    BY DEF IInv, Heights, Scaled, SignatureFits
  <1> QED
    BY <1>1, <1>2

LEMMA AddObjectKeeps == ASSUME IInv, AddObject PROVE IInv'
  <1> DEFINE id == Len(objects)
  <1>1. /\ step = "built" /\ step' = IF id = 6 THEN "write" ELSE "built"
        /\ UNCHANGED <<record, title, y, next, lines, boxes, shown, image, out, offsets, trailer>>
    BY DEF AddObject
  <1>2. objects \in Seq(Objects) /\ id \in 0 .. 6 /\ \A i \in 1 .. id : objects[i] = Object(i)
    <2>1. /\ objects \in Seq(Objects) /\ Len(objects) < 7
          /\ \A i \in 1 .. Len(objects) : objects[i] = Object(i)
      BY <1>1 DEF IInv, Collected
    <2>2. Len(objects) \in Nat
      BY <2>1
    <2>3. Len(objects) \in 0 .. 6
      <3>1. Len(objects) < 7
        BY <2>1
      <3>2. \A k \in Nat : k < 7 => k \in 0 .. 6
        OBVIOUS
      <3> QED
        BY <2>2, <3>1, <3>2
    <2> QED
      BY <2>1, <2>3
  <1>3. objects' = Append(objects, Object(id + 1))
    <2>1. CASE id = 0
      BY <2>1 DEF AddObject, Add, Object, Kinds, References
    <2>2. CASE id = 1
      BY <2>2 DEF AddObject, Add, Object, Kinds, References
    <2>3. CASE id = 2
      BY <2>3 DEF AddObject, Add, Object, Kinds, References
    <2>4. CASE id = 3
      BY <2>4 DEF AddObject, Add, Object, Kinds, References
    <2>5. CASE id = 4
      BY <2>5 DEF AddObject, Add, Object, Kinds, References, Parent
    <2>6. CASE id = 5
      BY <2>6 DEF AddObject, Add, Object, Kinds, References
    <2>7. CASE id = 6
      BY <2>7 DEF AddObject, Add, Object, Kinds, References
    <2> QED
      BY <1>2, <2>1, <2>2, <2>3, <2>4, <2>5, <2>6, <2>7
  <1>4. Object(id + 1) \in Objects
    BY <1>2, SMTT(30) DEF Objects
  <1>5. objects' \in Seq(Objects) /\ Len(objects') = id + 1
            /\ \A i \in 1 .. id + 1 : objects'[i] = Object(i)
    BY <1>2, <1>3, <1>4
  <1>6. Collected'
    BY <1>1, <1>2, <1>5, SMTT(30) DEF Collected
  <1>7. Written'
    <2>1. step \notin {"write", "done"} => out = <<>> /\ offsets = <<>>
      BY DEF IInv, Written
    <2>2. out' = <<>> /\ offsets' = <<>> /\ out' = out /\ offsets' = offsets /\ trailer' = trailer
      BY <1>1, <2>1
    <2>3. step' # "done"
      BY <1>1
    <2> QED
      BY <2>2, <2>3 DEF IInv, Written, OffsetsFindObjects, Begins
  <1> QED
    BY <1>1, <1>6, <1>7, FileOnly DEF IInv

\* A sequence goes on as another with n more bytes of one part.
GoesOn(more, bytes, what, id, n) ==
    /\ more \in Seq(Labels)
    /\ Len(more) = Len(bytes) + n
    /\ \A i \in 1 .. Len(bytes) : more[i] = bytes[i]
    /\ \A i \in Len(bytes) + 1 .. Len(bytes) + n : more[i] = <<what, id>>

\* Bytes already written stay where they are.
LEMMA Appending ==
    ASSUME NEW what \in {"head", "object", "xref", "trailer"}, NEW id \in Nat, NEW n \in Nat,
           NEW bytes \in Seq(Labels), n > 0, NEW more, more = bytes \o Bytes(what, id, n)
    PROVE  GoesOn(more, bytes, what, id, n)
  <1>1. Bytes(what, id, n) \in Seq(Labels) /\ Len(Bytes(what, id, n)) = n
    BY DEF Bytes, Labels
  <1>2. \A i \in 1 .. n : Bytes(what, id, n)[i] = <<what, id>>
    BY DEF Bytes
  <1>3. Len(bytes) \in Nat
    OBVIOUS
  <1>4. /\ more \in Seq(Labels)
        /\ Len(more) = Len(bytes) + n
        /\ \A i \in 1 .. Len(bytes) + n :
              more[i] = IF i <= Len(bytes) THEN bytes[i] ELSE Bytes(what, id, n)[i - Len(bytes)]
    BY <1>1, ConcatProperties
  <1>5. ASSUME NEW i \in Len(bytes) + 1 .. Len(bytes) + n
        PROVE  more[i] = <<what, id>>
    <2>1. i - Len(bytes) \in 1 .. n /\ ~(i <= Len(bytes)) /\ i \in 1 .. Len(bytes) + n
      BY <1>3
    <2> QED
      BY <1>2, <1>4, <2>1
  <1>6. ASSUME NEW i \in 1 .. Len(bytes)
        PROVE  more[i] = bytes[i]
    <2>1. i <= Len(bytes) /\ i \in 1 .. Len(bytes) + n
      BY <1>3
    <2> QED
      BY <1>4, <2>1
  <1> QED
    BY <1>4, <1>5, <1>6 DEF GoesOn

LEMMA WriteHeadKeeps == ASSUME IInv, WriteHead PROVE IInv'
  <1>1. /\ step = "write" /\ step' = step /\ out = <<>> /\ out' = Bytes("head", 0, 2)
        /\ UNCHANGED <<record, title, y, next, lines, boxes, shown, image, objects, offsets, trailer>>
    BY DEF WriteHead, layout
  <1>2. /\ out' \in Seq(Labels) /\ Len(out') = 2 /\ out'[2] = <<"head", 0>>
    BY <1>1 DEF Bytes, Labels
  <1>3. offsets = <<>> /\ offsets \in Seq(Nat)
    BY <1>1 DEF IInv, Written
  <1>4. Written'
    BY <1>1, <1>2, <1>3 DEF Written, OffsetsFindObjects
  <1>5. Collected'
    BY <1>1 DEF IInv, Collected
  <1> QED
    BY <1>1, <1>4, <1>5, FileOnly DEF IInv

\* An offset keeps its meaning when more is written behind it.
LEMMA StillBegins ==
    ASSUME NEW bytes \in Seq(Labels), NEW more \in Seq(Labels), Len(more) >= Len(bytes),
           \A i \in 1 .. Len(bytes) : more[i] = bytes[i],
           NEW offset \in Nat, NEW what, Begins(bytes, offset, what)
    PROVE  Begins(more, offset, what)
  <1>1. Len(bytes) \in Nat /\ Len(more) \in Nat /\ offset < Len(bytes)
    BY DEF Begins
  <1>2. offset + 1 \in 1 .. Len(bytes) /\ (offset > 0 => offset \in 1 .. Len(bytes))
    BY <1>1
  <1> QED
    BY <1>1, <1>2 DEF Begins

LEMMA WriteObjectKeeps == ASSUME IInv, WriteObject PROVE IInv'
  <1> DEFINE k == Len(offsets) + 1
  <1>1. /\ step = "write" /\ step' = step /\ out # <<>> /\ Len(offsets) < Len(objects)
        /\ offsets' = Append(offsets, Len(out))
        /\ UNCHANGED <<record, title, y, next, lines, boxes, shown, image, objects, trailer>>
    BY DEF WriteObject, layout
  <1>2. PICK n \in Nat : n > 0 /\ out' = out \o Bytes("object", k, n)
    <2>1. PICK m \in Nat : out' = out \o Bytes("object", k, 1 + m)
      BY SizesArePositive DEF WriteObject
    <2>2. 1 + m \in Nat /\ 1 + m > 0
      OBVIOUS
    <2> QED
      BY <2>1, <2>2
  <1>3. /\ out \in Seq(Labels) /\ offsets \in Seq(Nat) /\ k \in Nat /\ k > 0
        /\ Len(out) \in Nat /\ Len(out) > 0
        /\ out[Len(out)] \in {<<"head", 0>>, <<"object", Len(offsets)>>}
    <2>1. out \in Seq(Labels) /\ offsets \in Seq(Nat)
              /\ out[Len(out)] \in {<<"head", 0>>, <<"object", Len(offsets)>>}
      BY <1>1 DEF IInv, Written
    <2>2. Len(out) # 0
      BY <1>1, <2>1, EmptySeq
    <2> QED
      BY <2>1, <2>2
  <1>4. /\ out' \in Seq(Labels) /\ Len(out') = Len(out) + n
        /\ \A i \in 1 .. Len(out) : out'[i] = out[i]
        /\ \A i \in Len(out) + 1 .. Len(out) + n : out'[i] = <<"object", k>>
    <2>1. n > 0 /\ n \in Nat /\ k \in Nat /\ out \in Seq(Labels)
      BY <1>2, <1>3
    <2> HIDE DEF k
    <2>2. GoesOn(out', out, "object", k, n)
      BY <1>2, <2>1, Appending
    <2> QED
      BY <2>2 DEF GoesOn
  <1>5. /\ offsets' \in Seq(Nat) /\ Len(offsets') = k /\ offsets'[k] = Len(out)
        /\ \A i \in 1 .. Len(offsets) : offsets'[i] = offsets[i]
    BY <1>1, <1>3
  <1>6. \A i \in DOMAIN offsets' : Begins(out', offsets'[i], <<"object", i>>)
    <2>1. ASSUME NEW i \in 1 .. Len(offsets) PROVE Begins(out', offsets'[i], <<"object", i>>)
      <3>1. Begins(out, offsets[i], <<"object", i>>) /\ offsets[i] \in Nat /\ offsets'[i] = offsets[i]
        BY <1>3, <1>5, SMTT(30) DEF IInv, Written, OffsetsFindObjects
      <3>2. Len(out') >= Len(out)
        BY <1>3, <1>4
      <3> QED
        BY <1>3, <1>4, <3>1, <3>2, StillBegins
    <2>2. Begins(out', offsets'[k], <<"object", k>>)
      <3>1. Len(out) < Len(out') /\ out'[Len(out) + 1] = <<"object", k>>
        <4>1. Len(out) + 1 \in Len(out) + 1 .. Len(out) + n
          BY <1>2, <1>3
        <4>2. out'[Len(out) + 1] = <<"object", k>>
          BY <1>4, <4>1
        <4>3. Len(out) < Len(out')
          <5>1. n > 0 /\ n \in Nat /\ Len(out) \in Nat /\ Len(out') = Len(out) + n
            BY <1>2, <1>3, <1>4
          <5> QED
            BY <5>1
        <4> QED
          BY <4>2, <4>3
      <3>2. out'[Len(out)] = out[Len(out)]
        <4>1. Len(out) \in 1 .. Len(out)
          BY <1>3
        <4> QED
          BY <1>4, <4>1
      <3>3. out[Len(out)] # <<"object", k>>
        BY <1>3
      <3> QED
        BY <1>5, <3>1, <3>2, <3>3 DEF Begins
    <2>3. DOMAIN offsets' = 1 .. k
      BY <1>5
    <2>4. \A i \in 1 .. k : i \in 1 .. Len(offsets) \/ i = k
      BY <1>3
    <2> QED
      BY <2>1, <2>2, <2>3, <2>4
  <1>7. out' # <<>> /\ out'[Len(out')] = <<"object", Len(offsets')>>
    <2>1. Len(out') \in Len(out) + 1 .. Len(out) + n
      BY <1>2, <1>3, <1>4
    <2>2. out' # <<>>
      BY <1>3, <1>4, EmptySeq
    <2> QED
      BY <1>4, <1>5, <2>1, <2>2
  <1>8. Written'
    BY <1>1, <1>4, <1>5, <1>6, <1>7 DEF Written, OffsetsFindObjects
  <1>9. Collected'
    BY <1>1 DEF IInv, Collected
  <1> QED
    BY <1>1, <1>8, <1>9, FileOnly DEF IInv

LEMMA WriteTableKeeps == ASSUME IInv, WriteTable PROVE IInv'
  <1> DEFINE table == out \o Bytes("xref", 0, 1 + Len(offsets))
  <1>1. /\ step = "write" /\ step' = "done" /\ out # <<>>
        /\ out' = table \o Bytes("trailer", 0, 1)
        /\ trailer' = [size |-> Len(objects) + 1, root |-> Len(objects), xref |-> Len(out)]
        /\ UNCHANGED <<record, title, y, next, lines, boxes, shown, image, objects, offsets>>
    BY DEF WriteTable
  <1>2. /\ out \in Seq(Labels) /\ offsets \in Seq(Nat) /\ Len(offsets) \in Nat
        /\ Len(out) \in Nat /\ Len(out) > 0
        /\ out[Len(out)] \in {<<"head", 0>>, <<"object", Len(offsets)>>}
    <2>1. out \in Seq(Labels) /\ offsets \in Seq(Nat)
              /\ out[Len(out)] \in {<<"head", 0>>, <<"object", Len(offsets)>>}
      BY <1>1 DEF IInv, Written
    <2>2. Len(out) # 0
      BY <1>1, <2>1, EmptySeq
    <2> QED
      BY <2>1, <2>2
  <1>3. /\ table \in Seq(Labels) /\ Len(table) = Len(out) + (1 + Len(offsets))
        /\ \A i \in 1 .. Len(out) : table[i] = out[i]
        /\ \A i \in Len(out) + 1 .. Len(out) + (1 + Len(offsets)) : table[i] = <<"xref", 0>>
    <2>1. PICK n \in Nat : n = 1 + Len(offsets)
      BY <1>2
    <2>2. n > 0 /\ 0 \in Nat /\ "xref" \in {"head", "object", "xref", "trailer"}
      BY <1>2, <2>1
    <2>3. table = out \o Bytes("xref", 0, n) /\ out \in Seq(Labels)
      BY <1>2, <2>1
    <2> HIDE DEF table
    <2>4. GoesOn(table, out, "xref", 0, n)
      BY <2>2, <2>3, Appending
    <2> QED
      BY <2>1, <2>4 DEF GoesOn
  <1> HIDE DEF table
  <1>4. /\ out' \in Seq(Labels) /\ Len(out') = Len(table) + 1
        /\ \A i \in 1 .. Len(table) : out'[i] = table[i]
    <2>1. PICK n \in Nat : n = 1
      OBVIOUS
    <2>2. n > 0 /\ 0 \in Nat /\ "trailer" \in {"head", "object", "xref", "trailer"}
      BY <2>1
    <2>3. out' = table \o Bytes("trailer", 0, n) /\ table \in Seq(Labels)
      BY <1>1, <1>3, <2>1
    <2>4. GoesOn(out', table, "trailer", 0, n)
      BY <2>2, <2>3, Appending
    <2> QED
      BY <2>1, <2>4 DEF GoesOn
  <1>5. Len(out') >= Len(out) /\ \A i \in 1 .. Len(out) : out'[i] = out[i]
    BY <1>2, <1>3, <1>4
  <1>6. \A i \in DOMAIN offsets' : Begins(out', offsets'[i], <<"object", i>>)
    <2>1. SUFFICES ASSUME NEW i \in 1 .. Len(offsets) PROVE Begins(out', offsets'[i], <<"object", i>>)
      <3>1. DOMAIN offsets' = 1 .. Len(offsets)
        BY <1>1, <1>2
      <3> QED
        BY <3>1
    <2>2. Begins(out, offsets[i], <<"object", i>>) /\ offsets[i] \in Nat /\ offsets'[i] = offsets[i]
      BY <1>1, <1>2 DEF IInv, Written, OffsetsFindObjects
    <2> QED
      BY <1>2, <1>4, <1>5, <2>2, StillBegins
  <1>7. Begins(out', trailer'.xref, <<"xref", 0>>)
    <2>1. trailer'.xref = Len(out)
      BY <1>1
    <2>2. Len(out) < Len(out') /\ out'[Len(out) + 1] = <<"xref", 0>>
      BY <1>2, <1>3, <1>4, SMTT(30)
    <2>3. out'[Len(out)] # <<"xref", 0>>
      BY <1>2, <1>5
    <2> QED
      BY <2>1, <2>2, <2>3 DEF Begins
  <1>8. trailer'.size = 8 /\ trailer'.root = 7
    <2>1. Len(objects) = 7
      BY <1>1 DEF IInv, Collected
    <2> QED
      BY <1>1, <2>1
  <1>9. Written'
    BY <1>1, <1>2, <1>4, <1>6, <1>7, <1>8 DEF Written, OffsetsFindObjects
  <1>10. Collected'
    BY <1>1 DEF IInv, Collected
  <1> QED
    BY <1>1, <1>9, <1>10, FileOnly DEF IInv

LEMMA NextKeeps == ASSUME IInv, [Next]_vars PROVE IInv'
  <1>1. CASE Layout
    BY <1>1, DecodeSignatureKeeps, DrawHeaderKeeps, DrawCustomerKeeps, DrawJobKeeps, WrapKeeps,
       DrawListBoxKeeps, DrawParagraphBoxKeeps, DrawSignatureKeeps DEF Layout, LayoutNext
  <1>2. CASE UNCHANGED vars
    <2>1. UNCHANGED <<record, step, title, y, next, lines, boxes, shown, image>>
              /\ UNCHANGED <<objects, out, offsets, trailer>>
      BY <1>2 DEF vars, layout, file
    <2>2. IWrap' /\ NotBegun'
      BY <2>1 DEF IInv, IWrap, NotBegun, TypeOK, Given, NextIsAWord, NoWordIsLost, LinesFit,
         Wrapping, Texts, Width, LastLine, Follows
    <2>3. Heights' /\ Scaled'
      BY <2>1 DEF IInv, Heights, Scaled, SignatureFits
    <2>4. Collected' /\ Written'
      BY <2>1 DEF IInv, Collected, Written, OffsetsFindObjects, Begins
    <2> QED
      BY <2>2, <2>3, <2>4 DEF IInv
  <1> QED
    BY <1>1, <1>2, AddObjectKeeps, WriteHeadKeeps, WriteObjectKeeps, WriteTableKeeps DEF Next

LEMMA Invariance == Spec => []IInv
  BY Initially, NextKeeps, PTL DEF Spec

-----------------------------------------------------------------------------
\* Cursor, lines and boxes keep their types, and lines consist of words that exist.
THEOREM TypeCorrectness == Spec => []TypeOK
  BY Invariance, PTL DEF IInv, IWrap

\* Wrapping puts every word on exactly one line, in order, whatever their lengths, and
\* no line of several words is wider than its box.
THEOREM WrappingIsRight == Spec => []WrappingIsSound
  BY Invariance, PTL DEF IInv, IWrap, WrappingIsSound

\* What lies where at the end, by the number of the list's lines: only the notes' box is
\* painted over anything, and over exactly what OnlyNotesPaintOver says.
LEMMA NotesBoxPaintsOver ==
    ASSUME NEW n \in Nat, n > 0
    PROVE  LET list == ListBox(n) notes == NotesBox(n) IN
           /\ list # NoBox /\ notes # NoBox /\ CustomerBox # NoBox /\ JobBox # NoBox
           /\ \A box \in {CustomerBox, JobBox, list} :
                 \A height \in {box.heading, box.heading - 9} : ~Covers(box, height)
           /\ \A height \in {notes.heading, notes.heading - 9} : Covers(notes, height) <=> n > 2
           /\ ~(High(JobBox) > Low(CustomerBox))
           /\ \A above \in {CustomerBox, JobBox} :
                 ~(High(list) > Low(above)) /\ ~(High(notes) > Low(above))
           /\ High(notes) > Low(list) <=> n > 4
           /\ \A k \in 1 .. n : Covers(notes, list.top - 18 - 16 * (k - 1)) <=> k > 5
  BY DEF ListBox, NotesBox, CustomerBox, JobBox, NoBox, Covers, Low, High

\* On no page is anything painted over what is drawn before it, but by the notes' box: it
\* hides the notes' heading behind a list of three lines or more, and from a longer one
\* all lines behind the fifth, however long the list is.
THEOREM NotesPaintOverTheList == Spec => []OnlyNotesPaintOver
  <1>1. IInv => OnlyNotesPaintOver
    <2> SUFFICES ASSUME IInv, NEW i \in 1 .. 4, boxes[Order[i]] # NoBox
                 PROVE  LET part == Order[i] box == boxes[part] IN
                        /\ \A height \in {box.heading, box.heading - 9} :
                              Covers(box, height) <=> part = "notes" /\ shown.products > 2
                        /\ \A j \in 1 .. i - 1 :
                              High(box) > Low(boxes[Order[j]]) <=>
                                  part = "notes" /\ Order[j] = "products" /\ shown.products > 4
                        /\ part = "notes" =>
                              \A k \in 1 .. shown.products :
                                  Covers(box, boxes["products"].top - 18 - 16 * (k - 1)) <=> k > 5
      BY DEF OnlyNotesPaintOver
    <2>1. /\ Order[1] = "customer" /\ Order[2] = "job" /\ Order[3] = "products"
          /\ Order[4] = "notes"
      BY DEF Order
    <2>2. step \in Steps /\ Heights /\ shown.products \in Nat
      BY DEF IInv, IWrap, TypeOK
    <2>3. /\ ~(High(JobBox) > Low(CustomerBox))
          /\ \A box \in {CustomerBox, JobBox} : \A height \in {box.heading, box.heading - 9} :
                ~Covers(box, height)
      BY DEF CustomerBox, JobBox, Covers, Low, High
    <2>4. CASE step \in {"signature", "refused", "header", "customer"}
      BY <2>1, <2>2, <2>4 DEF Heights, Parts
    <2>5. CASE step = "job"
      <3>1. i = 1 /\ boxes[Order[i]] = CustomerBox
        BY <2>1, <2>2, <2>5 DEF Heights, Parts
      <3> QED
        BY <2>1, <2>3, <3>1
    <2>6. CASE step = "products"
      <3>1. /\ i \in {1, 2} /\ boxes["customer"] = CustomerBox /\ boxes["job"] = JobBox
        BY <2>1, <2>2, <2>6 DEF Heights
      <3> QED
        BY <2>1, <2>3, <3>1
    <2>7. CASE step \in {"notes", "footer", "built", "write", "done"}
      <3> DEFINE n == shown.products
      <3>1. /\ boxes["customer"] = CustomerBox /\ boxes["job"] = JobBox
            /\ boxes["products"] = ListBox(n) /\ n \in Nat /\ n > 0
            /\ i = 4 => boxes["notes"] = NotesBox(n)
        BY <2>1, <2>2, <2>7 DEF Heights
      <3> HIDE DEF n
      <3>2. i = 1 \/ i = 2 \/ i = 3 \/ i = 4
        OBVIOUS
      <3>3. CASE i \in {1, 2, 3}
        BY <2>1, <3>1, <3>3, NotesBoxPaintsOver
      <3>4. CASE i = 4
        BY <2>1, <3>1, <3>4, NotesBoxPaintsOver DEF n
      <3> QED
        BY <3>2, <3>3, <3>4
    <2> QED
      BY <2>2, <2>4, <2>5, <2>6, <2>7 DEF Steps, Parts
  <1> QED
    BY <1>1, Invariance, PTL

\* A signature of any size is scaled into its place.
THEOREM SignaturesFit == Spec => []SignatureFits
  BY Invariance, PTL DEF IInv, Scaled

\* The table of the file finds its objects, whatever their lengths, and the references
\* lead from the trailer to the page and its content.
THEOREM TheFileIsReadable == Spec => []FileIsReadable
  <1>1. IInv => ReferencesResolve
    <2> SUFFICES ASSUME IInv, step = "done" PROVE ReferencesResolve
      BY DEF ReferencesResolve
    <2>1. trailer.size = 8 /\ trailer.root = 7 /\ Len(objects) = 7
              /\ \A i \in 1 .. 7 : objects[i] = Object(i)
      BY DEF IInv, Written, Collected
    <2>2. /\ objects[7] = [kind |-> "catalog", refs |-> [Pages |-> 6]]
          /\ objects[6] = [kind |-> "pages", refs |-> [Kids |-> 5]]
          /\ objects[5] = [kind |-> "page",
                refs |-> [F1 |-> 1, F2 |-> 2, Im1 |-> 3, Contents |-> 4, Parent |-> 6]]
          /\ objects[4].kind = "content" /\ objects[3].kind = "image"
          /\ objects[2].kind = "bold" /\ objects[1].kind = "font"
      BY <2>1 DEF Object, Kinds, References
    <2>3. objects[7].kind = "catalog" /\ objects[7].refs.Pages = 6
      BY <2>2
    <2>4. objects[6].kind = "pages" /\ objects[6].refs.Kids = 5
      BY <2>2
    <2>5. /\ objects[5].kind = "page" /\ objects[5].refs.Parent = 6
          /\ objects[5].refs.Contents = 4 /\ objects[5].refs.F1 = 1
          /\ objects[5].refs.F2 = 2 /\ objects[5].refs.Im1 = 3
      BY <2>2
    <2>6. objects[4].kind = "content" /\ objects[3].kind = "image"
              /\ objects[2].kind = "bold" /\ objects[1].kind = "font"
      BY <2>2
    <2> DEFINE pages == objects[trailer.root].refs.Pages
               page == objects[pages].refs.Kids
    <2>7. pages = 6 /\ objects[trailer.root].kind = "catalog" /\ trailer.size = Len(objects) + 1
      BY <2>1, <2>3
    <2>8. page = 5 /\ objects[pages].kind = "pages"
      BY <2>4, <2>7
    <2> HIDE DEF pages, page
    <2>9. /\ objects[page].kind = "page" /\ objects[page].refs.Parent = pages
          /\ objects[objects[page].refs.Contents].kind = "content"
          /\ objects[objects[page].refs.F1].kind = "font"
          /\ objects[objects[page].refs.F2].kind = "bold"
          /\ objects[objects[page].refs.Im1].kind = "image"
      BY <2>5, <2>6, <2>7, <2>8
    <2> QED
      BY <2>7, <2>8, <2>9, ZenonT(40) DEF ReferencesResolve, pages, page
  <1>2. IInv => FileIsReadable
    BY <1>1 DEF IInv, Written, FileIsReadable
  <1> QED
    BY <1>2, Invariance, PTL

-----------------------------------------------------------------------------
\* Only the list's own step touches the list's box.
LEMMA OnlyTheList ==
    ASSUME IInv, [Next]_vars, boxes'["products"] # boxes["products"]
    PROVE  DrawListBox
  <1>1. \A part \in {"customer", "job", "notes"} : \A box :
            boxes' = [boxes EXCEPT ![part] = box] => boxes'["products"] = boxes["products"]
    BY DEF IInv, IWrap, TypeOK, Parts
  <1>2. ~DrawCustomer /\ ~DrawJob /\ ~DrawParagraphBox
    BY <1>1 DEF DrawCustomer, DrawJob, DrawDetails, DrawParagraphBox
  <1> QED
    BY <1>2 DEF Next, Layout, LayoutNext, DecodeSignature, DrawHeader, WrapText, DrawSignature,
       AddObject, WriteHead, WriteObject, WriteTable, vars, layout

\* The list's box holds each of its lines, for any number of them, and five leave the
\* footer free.
THEOREM ListsFitTheirBox == Spec => ListFits
  <1> DEFINE Fitting == boxes'["products"] # boxes["products"] =>
                LET box == boxes'["products"]
                    baseline(i) == box.top - 18 - 16 * (i - 1)
                IN  /\ \A i \in DOMAIN lines : box.bottom < baseline(i) /\ baseline(i) < box.top
                    /\ Len(lines) > 5 \/ box.bottom > FooterHeight
  <1>1. ASSUME IInv, [Next]_vars PROVE Fitting
    <2> SUFFICES ASSUME boxes'["products"] # boxes["products"]
                 PROVE  /\ \A i \in DOMAIN lines :
                              /\ boxes'["products"].bottom < boxes'["products"].top - 18 - 16 * (i - 1)
                              /\ boxes'["products"].top - 18 - 16 * (i - 1) < boxes'["products"].top
                        /\ Len(lines) > 5 \/ boxes'["products"].bottom > FooterHeight
      BY DEF Fitting
    <2>1. DrawListBox
      BY <1>1, OnlyTheList
    <2>2. /\ boxes'["products"].top = 254 /\ boxes'["products"].bottom = 234 - 16 * ListLines
          /\ ListLines \in Nat /\ ListLines >= Len(lines) /\ Len(lines) \in Nat
          /\ Len(lines) <= 5 => ListLines <= 5
      <3>1. /\ ListLines \in Nat /\ ListLines >= Len(lines) /\ Len(lines) \in Nat
            /\ Len(lines) <= 5 => ListLines <= 5
            /\ boxes'["products"] = ListBox(shown'.products) /\ shown'.products = ListLines
        BY <1>1, <2>1, ListIsBoxed
      <3> QED
        BY <3>1 DEF ListBox
    <2>3. \A i \in DOMAIN lines : i \in 1 .. Len(lines)
      BY <1>1 DEF IInv, IWrap, TypeOK
    <2>4. \A i \in DOMAIN lines :
             /\ boxes'["products"].bottom < boxes'["products"].top - 18 - 16 * (i - 1)
             /\ boxes'["products"].top - 18 - 16 * (i - 1) < boxes'["products"].top
      BY <2>2, <2>3
    <2> QED
      BY <2>2, <2>4 DEF FooterHeight
  <1>2. IInv /\ [Next]_vars => [Fitting]_vars
    BY <1>1
  <1> QED
    BY <1>2, Invariance, PTL DEF Spec, ListFits

-----------------------------------------------------------------------------
(* The title, which is drawn once and stays.                               *)

Titled == title = <<>> \/ title = Literal(record.title)

LEMMA TitleKeeps == ASSUME Titled, [Next]_vars PROVE Titled'
  <1>1. record' = record
    BY DEF Next, Layout, LayoutNext, DecodeSignature, DrawHeader, DrawCustomer, DrawJob,
       DrawDetails, WrapText, DrawListBox, DrawParagraphBox, DrawSignature, AddObject,
       WriteHead, WriteObject, WriteTable, vars, layout
  <1>2. title' = title \/ title' = Literal(record.title)
    BY DEF Next, Layout, LayoutNext, DecodeSignature, DrawHeader, DrawCustomer, DrawJob,
       DrawDetails, WrapText, DrawListBox, DrawParagraphBox, DrawSignature, AddObject,
       WriteHead, WriteObject, WriteTable, vars, layout
  <1> QED
    BY <1>1, <1>2 DEF Titled

\* A reader gets every printable ASCII character of the title in its place, whatever
\* else it is made of and however long it is.
THEOREM TextsAreReadBack == Spec => []TextsReadBack
  <1>1. Init => Titled
    BY DEF Init, LayoutInit, Titled
  <1>2. IInv /\ Titled => TextsReadBack
    <2> SUFFICES ASSUME IInv, Titled, title # <<>> PROVE TextsReadBack
      BY DEF TextsReadBack
    <2>1. record.title \in Seq(Runes) /\ Trim(record.title) = record.title
      BY RecordsAreNormal DEF IInv, IWrap, Given, IsRecord
    <2>2. title = Literal(record.title)
      BY DEF Titled
    <2> QED
      BY <2>1, <2>2, ReadingKeepsPrintableText DEF TextsReadBack
  <1> QED
    BY <1>1, <1>2, TitleKeeps, Invariance, PTL DEF Spec

-----------------------------------------------------------------------------
(***************************************************************************)
(* Wrapping needs the fewest lines.  Each line is full: the word that      *)
(* begins the next one of its text would not have fitted.  So each line of *)
(* a text holds an end of a line of any other cut of it, and no two lines  *)
(* the same.                                                               *)
(***************************************************************************)

Behind ==
    Wrapping => \A i \in 1 .. Len(lines) :
        /\ lines[i].from <= lines[i].to
        /\ \/ lines[i].item < next.item
           \/ lines[i].item = next.item /\ lines[i].to < next.word

Before(a, b) == a.item < b.item \/ (a.item = b.item /\ a.to < b.from)

Ordered ==
    Wrapping => \A i, j \in 1 .. Len(lines) : i < j => Before(lines[i], lines[j])

\* With the first word of the line after it the line would be too long.
FullBefore(a, b) ==
    b.item = a.item => Length(Texts[a.item], a.from, b.from) > Width

Full == Wrapping => \A i \in 1 .. Len(lines) - 1 : FullBefore(lines[i], lines[i + 1])

IFull == Behind /\ Ordered /\ Full

LEMMA LaterWordsStartLater ==
    ASSUME NEW text \in Seq(Words), IsText(text), NEW a \in 1 .. Len(text),
           NEW b \in 1 .. Len(text), a <= b
    PROVE  text[a].start <= text[b].start
  <1> DEFINE S == {d \in Nat : a + d <= Len(text) => text[a].start <= text[a + d].start}
  <1>1. Len(text) \in Nat /\ \A i \in 1 .. Len(text) : text[i].start \in Nat /\ text[i].end \in Nat
    <2>1. Len(text) \in Nat /\ \A i \in 1 .. Len(text) : text[i] \in Words
      OBVIOUS
    <2> QED
      BY <2>1 DEF Words
  <1>2. 0 \in S
    <2>1. a + 0 = a /\ text[a].start \in Nat
      BY <1>1
    <2> QED
      BY <2>1
  <1>3. ASSUME NEW d \in Nat, d \in S PROVE d + 1 \in S
    <2> SUFFICES ASSUME a + (d + 1) <= Len(text) PROVE text[a].start <= text[a + (d + 1)].start
      OBVIOUS
    <2>1. PICK w \in 1 .. Len(text) - 1 : w = a + d
      BY <1>1
    <2>2. text[a].start <= text[w].start
      BY <1>1, <1>3, <2>1
    <2>3. a + (d + 1) = w + 1 /\ w \in 1 .. Len(text) /\ w + 1 \in 1 .. Len(text)
      BY <1>1, <2>1
    <2>4. text[w].start < text[w].end
      BY <2>3 DEF IsText
    <2>5. text[w + 1].start = text[w].end + 1
      BY DEF IsText
    <2>6. text[a].start \in Nat /\ text[w].start \in Nat /\ text[w].end \in Nat
      BY <1>1, <2>3
    <2> QED
      BY <2>2, <2>3, <2>4, <2>5, <2>6, SMTT(30)
  <1> HIDE DEF S
  <1>4. b - a \in S /\ a + (b - a) = b
    <2>1. Nat \subseteq S
      BY <1>2, <1>3, SetInduction, Zenon
    <2>2. a \in Nat /\ b \in Nat
      BY <1>1
    <2>3. b - a \in Nat /\ a + (b - a) = b
      BY <2>2
    <2> QED
      BY <2>1, <2>3, Zenon
  <1> QED
    BY <1>1, <1>4 DEF S

LEMMA LaterWordsEndLater ==
    ASSUME NEW text \in Seq(Words), IsText(text), NEW a \in 1 .. Len(text),
           NEW b \in 1 .. Len(text), a <= b
    PROVE  text[a].end <= text[b].end
  <1>1. Len(text) \in Nat /\ \A i \in 1 .. Len(text) : text[i] \in Words
    OBVIOUS
  <1>2. \A i \in 1 .. Len(text) : text[i].start \in Nat /\ text[i].end \in Nat
    BY <1>1 DEF Words
  <1>3. CASE a = b
    BY <1>2, <1>3
  <1>4. CASE a # b
    <2>1. a \in 1 .. Len(text) - 1 /\ a + 1 \in 1 .. Len(text) /\ a + 1 <= b
      BY <1>1, <1>4
    <2>2. text[a + 1].start = text[a].end + 1 /\ text[b].start < text[b].end
      BY <2>1 DEF IsText
    <2>3. text[a + 1].start <= text[b].start
      BY <2>1, LaterWordsStartLater
    <2>4. /\ text[a].end \in Nat /\ text[a + 1].start \in Nat
          /\ text[b].start \in Nat /\ text[b].end \in Nat
      BY <1>2, <2>1
    <2> QED
      BY <2>2, <2>3, <2>4, SMTT(30)
  <1> QED
    BY <1>3, <1>4

\* A text that is wrapped, and where wrapping is in it.
LEMMA WrappedText ==
    ASSUME IWrap, Wrapping, NEW item \in 1 .. Len(Texts)
    PROVE  /\ Texts[item] \in Seq(Words) /\ IsText(Texts[item]) /\ Len(Texts[item]) \in Nat
           /\ \A w \in 1 .. Len(Texts[item]) :
                 Texts[item][w].start \in Nat /\ Texts[item][w].end \in Nat
  <1>1. Texts \in Seq(Seq(Words)) /\ \A i \in 1 .. Len(Texts) : IsText(Texts[i])
    BY TextsAreTexts DEF IWrap
  <1>2. PICK text \in Seq(Words) : text = Texts[item]
    BY <1>1
  <1>3. Len(text) \in Nat /\ \A w \in 1 .. Len(text) : text[w] \in Words
    BY <1>2
  <1>4. \A w \in 1 .. Len(text) : text[w].start \in Nat /\ text[w].end \in Nat
    BY <1>3 DEF Words
  <1> QED
    BY <1>1, <1>2, <1>3, <1>4

LEMMA LinesAreTyped ==
    ASSUME IWrap, Wrapping, NEW i \in 1 .. Len(lines)
    PROVE  /\ lines[i].item \in 1 .. Len(Texts) /\ lines[i].item \in Nat
           /\ lines[i].from \in 1 .. Len(Texts[lines[i].item]) /\ lines[i].from \in Nat
           /\ lines[i].to \in 1 .. Len(Texts[lines[i].item]) /\ lines[i].to \in Nat
  <1>1. lines \in Seq(Lines) /\ lines[i] \in Lines
    BY DEF IWrap, TypeOK
  <1>2. /\ lines[i].item \in DOMAIN Texts
        /\ lines[i].from \in DOMAIN Texts[lines[i].item]
        /\ lines[i].to \in DOMAIN Texts[lines[i].item]
    BY <1>1 DEF IWrap, TypeOK, Wrapping
  <1>3. Texts \in Seq(Seq(Words))
    BY TextsAreTexts DEF IWrap
  <1>4. Texts[lines[i].item] \in Seq(Words)
    BY <1>2, <1>3
  <1> QED
    BY <1>1, <1>2, <1>3, <1>4, SMTT(30) DEF Lines

LEMMA TooWide ==
    \A from, before, start, end, width \in Nat :
        start = before + 1 /\ ~((before - from) + 1 + (end - start) <= width)
            => end - from > width
  OBVIOUS

LEMMA WrapTextKeepsFull == ASSUME IWrap, IFull, WrapText PROVE IFull'
  <1> DEFINE text == Texts[next.item]
             joins == next.word > 1 /\ Fits(text)
             n == Len(lines)
             m == Len(lines')
  <1>1. /\ Wrapping /\ ~Wrapped /\ Texts' = Texts /\ Width' = Width /\ Wrapping'
    BY DEF WrapText, Wrapping, Texts, Width
  <1>2. lines \in Seq(Lines) /\ n \in Nat /\ next.item \in Nat /\ next.word \in Nat /\ next.word > 0
    BY DEF IWrap, TypeOK
  <1>3. next.item \in 1 .. Len(Texts) /\ next.word \in 1 .. Len(text)
    <2>1. Texts \in Seq(Seq(Words))
      BY <1>1, TextsAreTexts DEF IWrap
    <2> QED
      BY <1>1, <1>2, <2>1 DEF IWrap, NextIsAWord, Wrapped
  <1>4. /\ next'.item \in Nat /\ next'.word \in Nat
        /\ \/ next'.item = next.item /\ next'.word = next.word + 1
           \/ next'.item = next.item + 1 /\ next'.word = 1
    BY <1>2 DEF WrapText, IWrap, TypeOK
  <1>5. /\ joins => m = n /\ \A i \in 1 .. n - 1 : lines'[i] = lines[i]
        /\ joins => /\ lines'[n].item = next.item /\ lines'[n].from = LastLine.from
                    /\ lines'[n].to = next.word
        /\ ~joins => m = n + 1 /\ \A i \in 1 .. n : lines'[i] = lines[i]
        /\ ~joins => /\ lines'[n + 1].item = next.item /\ lines'[n + 1].from = next.word
                     /\ lines'[n + 1].to = next.word
        /\ m \in Nat
    BY <1>2, NewLines
  <1>6. joins => /\ n > 0 /\ LastLine.item = next.item
                 /\ LastLine.to = next.word - 1
    BY <1>1, JoinedLine
  <1>7. \A i \in 1 .. n : /\ lines[i].item \in Nat /\ lines[i].from \in Nat /\ lines[i].to \in Nat
                          /\ lines[i].from > 0
    BY <1>1, LinesAreTyped
  <1>8. \A i \in 1 .. n : /\ lines[i].from <= lines[i].to
                          /\ \/ lines[i].item < next.item
                             \/ lines[i].item = next.item /\ lines[i].to < next.word
    BY <1>1 DEF IFull, Behind
  <1> HIDE DEF joins
  \* Every line but the last is an old one; the last ends with the word that was next.
  <1>9. \A i \in 1 .. m - 1 : i \in 1 .. n /\ lines'[i] = lines[i]
    BY <1>2, <1>5
  <1>10. m > 0 /\ lines'[m].item = next.item /\ lines'[m].to = next.word
    BY <1>2, <1>5, <1>6
  <1>11. lines'[m].from \in Nat /\ lines'[m].from <= lines'[m].to
    <2>1. CASE joins
      <3>1. n \in 1 .. n /\ LastLine = lines[n]
        BY <1>2, <1>6, <2>1 DEF LastLine
      <3> QED
        BY <1>2, <1>5, <1>6, <1>7, <1>8, <2>1, <3>1
    <2>2. CASE ~joins
      BY <1>2, <1>5, <2>2
    <2> QED
      BY <2>1, <2>2
  <1>12. Behind'
    <2> SUFFICES ASSUME NEW i \in 1 .. m
                 PROVE  /\ lines'[i].from <= lines'[i].to
                        /\ \/ lines'[i].item < next'.item
                           \/ lines'[i].item = next'.item /\ lines'[i].to < next'.word
      BY DEF Behind
    <2>1. CASE i = m
      BY <1>2, <1>4, <1>10, <1>11, <2>1
    <2>2. CASE i # m
      <3>1. i \in 1 .. n /\ lines'[i] = lines[i]
        BY <1>5, <1>9, <2>2
      <3>2. /\ lines[i].item \in Nat /\ lines[i].to \in Nat /\ lines[i].from <= lines[i].to
            /\ \/ lines[i].item < next.item
               \/ lines[i].item = next.item /\ lines[i].to < next.word
        BY <1>7, <1>8, <3>1
      <3>3. \/ lines[i].item < next'.item
            \/ lines[i].item = next'.item /\ lines[i].to < next'.word
        BY <1>2, <1>4, <3>2
      <3> QED
        BY <3>1, <3>2, <3>3
    <2> QED
      BY <2>1, <2>2
  <1>13. Ordered'
    <2> SUFFICES ASSUME NEW i \in 1 .. m, NEW j \in 1 .. m, i < j
                 PROVE  Before(lines'[i], lines'[j])
      BY DEF Ordered, Before
    <2>1. i \in 1 .. m - 1 /\ i \in 1 .. n /\ lines'[i] = lines[i]
      BY <1>5, <1>9
    <2>2. CASE j # m
      <3>1. j \in 1 .. n /\ lines'[j] = lines[j]
        BY <1>5, <1>9, <2>2
      <3> QED
        BY <1>1, <2>1, <3>1 DEF IFull, Ordered
    <2>3. CASE j = m /\ ~joins
      BY <1>2, <1>5, <1>8, <2>1, <2>3 DEF Before
    <2>4. CASE j = m /\ joins
      <3>1. j = n /\ n \in 1 .. n /\ LastLine = lines[n]
        BY <1>2, <1>5, <1>6, <2>4 DEF LastLine
      <3>2. Before(lines[i], lines[n])
        BY <1>1, <2>1, <3>1 DEF IFull, Ordered
      <3> QED
        BY <1>5, <1>6, <2>1, <2>4, <3>1, <3>2 DEF Before
    <2> QED
      BY <2>2, <2>3, <2>4
  <1>14. Full'
    <2> SUFFICES ASSUME NEW i \in 1 .. m - 1, lines'[i + 1].item = lines'[i].item
                 PROVE  Length(Texts[lines'[i].item], lines'[i].from, lines'[i + 1].from) > Width
      BY <1>1 DEF Full, FullBefore, Length
    <2>1. i \in 1 .. n /\ lines'[i] = lines[i]
      BY <1>9
    <2>2. \A j \in 1 .. n - 1 : lines[j + 1].item = lines[j].item =>
              Length(Texts[lines[j].item], lines[j].from, lines[j + 1].from) > Width
      BY <1>1 DEF IFull, Full, FullBefore
    <2>3. CASE i + 1 < m
      <3>1. i + 1 \in 1 .. m - 1
        BY <1>5, <2>3
      <3>2. i + 1 \in 1 .. n /\ lines'[i + 1] = lines[i + 1]
        BY <1>9, <3>1
      <3>3. i \in 1 .. n - 1 /\ lines'[i + 1] = lines[i + 1]
        BY <1>2, <1>5, <2>1, <3>2
      <3> QED
        BY <2>1, <2>2, <3>3
    <2>4. CASE i + 1 = m /\ joins
      <3>1. i + 1 = n /\ i \in 1 .. n - 1 /\ LastLine = lines[i + 1]
        BY <1>2, <1>5, <2>4 DEF LastLine
      <3>2. lines'[i + 1].from = lines[i + 1].from /\ lines'[i + 1].item = lines[i + 1].item
        BY <1>5, <1>6, <2>4, <3>1
      <3> QED
        BY <2>1, <2>2, <3>1, <3>2
    <2>5. CASE i + 1 = m /\ ~joins
      <3>1. i = n /\ LastLine = lines[i] /\ lines'[i + 1].from = next.word
              /\ lines[i].item = next.item
        BY <1>2, <1>5, <2>1, <2>5 DEF LastLine
      <3>2. next.word > 1
        BY <1>2, <1>7, <1>8, <2>1, <3>1
      <3>3. LastLine.to = next.word - 1
        BY <1>1, <3>2, JoinedLine
      <3>4. ~Fits(text)
        BY <2>5, <3>2 DEF joins
      <3> DEFINE w == next.word
                 a == LastLine.from
      <3>5. w \in 1 .. Len(text) /\ w - 1 \in 1 .. Len(text) - 1 /\ w - 1 \in 1 .. Len(text)
        BY <1>1, <1>2, <1>3, <3>2, WrappedText, SMTT(30)
      <3>6. a \in 1 .. Len(text)
        BY <1>1, <2>1, <3>1, LinesAreTyped
      <3>7. text[w].start = text[w - 1].end + 1
        <4>1. IsText(text) /\ (w - 1) + 1 = w
          BY <1>1, <1>2, <1>3, WrappedText
        <4>2. text[(w - 1) + 1].start = text[w - 1].end + 1
          BY <3>5, <4>1 DEF IsText
        <4> QED
          BY <4>1, <4>2
      <3>8. ~((text[w - 1].end - text[a].start) + 1 + (text[w].end - text[w].start) <= Width)
        BY <3>3, <3>4 DEF Fits, Length
      <3>9. /\ text[w].end \in Nat /\ text[w].start \in Nat /\ text[w - 1].end \in Nat
            /\ text[a].start \in Nat
        BY <1>1, <1>3, <3>5, <3>6, WrappedText
      <3>10. Width \in Nat
        BY DEF Width, NotesWidth, ProductWidth
      <3>11. text[w].end - text[a].start > Width
        BY <3>7, <3>8, <3>9, <3>10, TooWide
      <3> QED
        BY <2>1, <3>1, <3>11 DEF Length
    <2> QED
      BY <1>5, <2>3, <2>4, <2>5
  <1> QED
    BY <1>12, <1>13, <1>14 DEF IFull

LEMMA NextKeepsFull == ASSUME IInv, IFull, [Next]_vars PROVE IFull'
  <1>1. CASE Wrapping' /\ lines' = <<>>
    BY <1>1 DEF IFull, Behind, Ordered, Full
  <1>2. CASE ~Wrapping'
    BY <1>2, SMTT(30) DEF IFull, Behind, Ordered, Full
  <1>3. CASE UNCHANGED layout
    BY <1>3 DEF IFull, Behind, Ordered, Full, FullBefore, Before, Wrapping, Texts, Width, Length,
       layout
  <1>4. CASE WrapText
    BY <1>4, WrapTextKeepsFull DEF IInv
  <1>5. CASE DrawJob \/ DrawListBox
    BY <1>1, <1>5 DEF DrawJob, DrawDetails, DrawListBox, IInv, NotBegun, Early, Wrapping
  <1>6. CASE \/ DecodeSignature \/ DrawHeader \/ DrawCustomer \/ DrawParagraphBox \/ DrawSignature
             \/ AddObject \/ WriteTable
    <2>1. step' \notin {"products", "notes"}
      BY <1>6 DEF DecodeSignature, DrawHeader, DrawCustomer, DrawDetails, DrawParagraphBox,
         DrawSignature, AddObject, WriteTable
    <2> QED
      BY <1>2, <2>1 DEF Wrapping
  <1>7. CASE WriteHead \/ WriteObject
    BY <1>3, <1>7 DEF WriteHead, WriteObject
  <1> QED
    BY <1>3, <1>4, <1>5, <1>6, <1>7 DEF Next, Layout, LayoutNext, vars

LEMMA StartsLater ==
    \A from, start, end, width \in Nat : end - from <= width /\ from <= start => end - start <= width
  OBVIOUS

LEMMA EndsLater ==
    \A start, sooner, later, width \in Nat :
        sooner - start > width /\ later - start <= width => ~(sooner <= later)
  OBVIOUS

\* Every line of a text holds an end of a line of any other cut of the text.
LEMMA LineHoldsACut ==
    ASSUME IWrap, IFull, Wrapping, NEW i \in 1 .. Len(lines),
           NEW S \in Cuts(Texts[lines[i].item])
    PROVE  \E b \in S : /\ lines[i].from <= b
                        /\ \A j \in 1 .. Len(lines) :
                              j = i + 1 /\ lines[j].item = lines[i].item => b < lines[j].from
  <1> DEFINE text == Texts[lines[i].item]
             n == Len(text)
             a == lines[i].from
             Beyond == {b \in S : a <= b}
             Earlier(b) == {c \in S : c < b}
             From(b) == IF Earlier(b) = {} THEN 1
                        ELSE 1 + CHOOSE c \in Earlier(b) : \A d \in Earlier(b) : d <= c
  <1>1. /\ text \in Seq(Words) /\ IsText(text) /\ n \in Nat
        /\ \A w \in 1 .. n : text[w].start \in Nat /\ text[w].end \in Nat
    BY LinesAreTyped, WrappedText
  <1>2. a \in 1 .. n /\ a \in Nat /\ Width \in Nat
    BY LinesAreTyped DEF Width, ProductWidth, NotesWidth
  <1>3. /\ S \in SUBSET (1 .. n) /\ n \in S
        /\ \A b \in S : From(b) = b \/ Length(text, From(b), b) <= Width
    <2>1. DOMAIN text = 1 .. n
      BY <1>1
    <2> QED
      BY <2>1 DEF Cuts
  <1> HIDE DEF text, n, a
  <1>4. PICK b \in Beyond : \A c \in Beyond : b <= c
    <2>1. Beyond \in SUBSET Nat
      <3>1. S \in SUBSET Nat
        BY <1>1, <1>3
      <3> QED
        BY <3>1
    <2>2. n \in S /\ a <= n
      BY <1>2, <1>3
    <2>3. Beyond # {}
      BY <2>2
    <2> HIDE DEF Beyond
    <2> QED
      BY <2>1, <2>3, LeastNatural
  <1>5. b \in S /\ a <= b /\ b \in 1 .. n
    BY <1>3
  \* The line of the cut that ends with b begins no later than this one.
  <1>6. From(b) \in 1 .. n /\ From(b) <= a
    <2> DEFINE E == Earlier(b)
    <2>1. ASSUME NEW c \in E PROVE c \in Nat /\ c < a /\ c <= a
      <3>1. c \in S /\ c < b /\ c \in Nat /\ b \in Nat
        BY <1>3, <1>5
      <3>2. ~(b <= c)
        BY <3>1
      <3>3. c \notin Beyond
        BY <1>4, <3>2
      <3>4. ~(a <= c)
        BY <3>1, <3>3
      <3> QED
        BY <1>2, <3>1, <3>4
    <2>2. E \in SUBSET Nat
      BY <1>3
    <2>3. CASE E = {}
      BY <1>1, <1>2, <2>3
    <2>4. CASE E # {}
      <3> DEFINE last == CHOOSE c \in E : \A d \in E : d <= c
      <3>1. From(b) = 1 + last
        BY <2>4
      <3> HIDE DEF E
      <3>2. \E c \in E : \A d \in E : d <= c
        <4>1. \A c \in E : c <= a
          BY <2>1
        <4> QED
          BY <1>2, <2>4, <2>2, <4>1, GreatestNatural
      <3>3. last \in E
        BY <3>2
      <3> HIDE DEF last
      <3>4. last < a /\ last \in Nat
        BY <2>1, <3>3
      <3> HIDE DEF From
      <3> QED
        BY <1>1, <1>2, <3>1, <3>4
    <2> QED
      BY <2>3, <2>4
  <1>7. From(b) = b \/ Length(text, From(b), b) <= Width
    BY <1>3, <1>5
  <1> HIDE DEF From, Beyond
  <1>8. b = a \/ Length(text, a, b) <= Width
    <2>1. CASE From(b) = b
      BY <1>2, <1>5, <1>6, <2>1
    <2>2. CASE Length(text, From(b), b) <= Width
      <3>1. text[From(b)].start <= text[a].start
        BY <1>1, <1>2, <1>6, LaterWordsStartLater DEF n
      <3>2. text[b].end - text[From(b)].start <= Width
        BY <2>2 DEF Length
      <3>3. text[From(b)].start \in Nat /\ text[a].start \in Nat /\ text[b].end \in Nat
        BY <1>1, <1>2, <1>5, <1>6
      <3>4. text[b].end - text[a].start <= Width
        BY <1>2, <3>1, <3>2, <3>3, StartsLater
      <3> QED
        BY <3>4 DEF Length
    <2> QED
      BY <1>7, <2>1, <2>2
  <1>9. ASSUME NEW j \in 1 .. Len(lines), j = i + 1, lines[j].item = lines[i].item
        PROVE  b < lines[j].from
    <2> DEFINE z == lines[j].from
    <2>1. z \in 1 .. n /\ z \in Nat /\ Len(lines) \in Nat
      <3>1. Len(lines) \in Nat
        BY DEF IWrap, TypeOK
      <3> QED
        BY <1>9, <3>1, LinesAreTyped DEF n, text
    <2>2. a < z
      <3>1. Before(lines[i], lines[j]) /\ lines[i].from <= lines[i].to
        BY <1>9 DEF IFull, Ordered, Behind
      <3>2. lines[i].item \in Nat /\ lines[i].to \in Nat
        BY LinesAreTyped
      <3>3. lines[i].to < z
        BY <1>9, <3>1, <3>2 DEF Before
      <3> QED
        BY <1>2, <2>1, <3>1, <3>2, <3>3 DEF a
    <2>3. Length(text, a, z) > Width
      <3>1. i \in 1 .. Len(lines) - 1
        BY <1>9, <2>1
      <3>2. FullBefore(lines[i], lines[i + 1])
        BY <3>1 DEF IFull, Full
      <3> QED
        BY <1>9, <3>2 DEF FullBefore, text, a
    <2> HIDE DEF z
    <2> SUFFICES ASSUME z <= b PROVE FALSE
      BY <1>5, <2>1 DEF z
    <2>4. Length(text, a, b) <= Width
      BY <1>2, <1>5, <1>8, <2>1, <2>2
    <2>5. text[z].end <= text[b].end
      BY <1>1, <1>5, <2>1, LaterWordsEndLater DEF n
    <2>6. /\ text[z].end \in Nat /\ text[b].end \in Nat /\ text[a].start \in Nat
      BY <1>1, <1>2, <1>5, <2>1
    <2>7. text[z].end - text[a].start > Width /\ text[b].end - text[a].start <= Width
      BY <2>3, <2>4 DEF Length
    <2> QED
      BY <1>2, <2>5, <2>6, <2>7, EndsLater
  <1> QED
    BY <1>5, <1>9 DEF a

\* Wrapping is optimal: no way to cut a text, of any number of words of any lengths, into
\* lines that fit has fewer lines.
THEOREM WrappingIsOptimal == Spec => []LinesAreFewest
  <1>1. Init => IFull
    BY DEF Init, LayoutInit, IFull, Behind, Ordered, Full, Wrapping
  <1>2. IInv /\ IFull => LinesAreFewest
    <2> SUFFICES ASSUME IInv, IFull, Wrapping, NEW item \in 1 .. next.item - 1,
                        NEW S \in Cuts(Texts[item])
                 PROVE  Cardinality(LinesOf(item)) <= Cardinality(S)
      BY DEF LinesAreFewest, Wrapping
    <2>1. IWrap /\ lines \in Seq(Lines) /\ Len(lines) \in Nat /\ DOMAIN lines = 1 .. Len(lines)
      BY DEF IInv, IWrap, TypeOK
    <2>2. item \in 1 .. Len(Texts)
      <3>1. next.item \in 1 .. Len(Texts) + 1 /\ Texts \in Seq(Seq(Words))
        BY <2>1, TextsAreTexts DEF IWrap, NextIsAWord
      <3> QED
        BY <3>1
    <2>3. S \in SUBSET (1 .. Len(Texts[item])) /\ Len(Texts[item]) \in Nat
      BY <2>1, <2>2, WrappedText DEF Cuts
    <2>4. IsFiniteSet(S)
      <3>1. IsFiniteSet(1 .. Len(Texts[item]))
        BY <2>3, FS_Interval
      <3> QED
        BY <2>3, <3>1, FS_Subset
    <2> DEFINE Held(i, b) == /\ lines[i].from <= b
                             /\ \A j \in 1 .. Len(lines) :
                                   j = i + 1 /\ lines[j].item = lines[i].item => b < lines[j].from
               f == [i \in LinesOf(item) |-> CHOOSE b \in S : Held(i, b)]
    <2>5. ASSUME NEW i \in LinesOf(item) PROVE f[i] \in S /\ Held(i, f[i])
      <3>1. i \in 1 .. Len(lines) /\ lines[i].item = item
        BY <2>1 DEF LinesOf
      <3>2. \E b \in S : Held(i, b)
        BY <2>1, <3>1, LineHoldsACut
      <3> HIDE DEF Held
      <3> QED
        BY <3>2
    <2>6. f \in [LinesOf(item) -> S]
      BY <2>5
    <2> HIDE DEF f
    <2>7. ASSUME NEW i \in LinesOf(item), NEW j \in LinesOf(item), i < j PROVE f[i] < f[j]
      <3>1. /\ i \in 1 .. Len(lines) /\ lines[i].item = item
            /\ j \in 1 .. Len(lines) /\ lines[j].item = item
        BY <2>1 DEF LinesOf
      <3> DEFINE k == i + 1
      <3>2. k \in 1 .. Len(lines) /\ i < k /\ (k = j \/ k < j)
        BY <2>1, <2>7, <3>1
      <3> HIDE DEF k
      <3>3. Before(lines[i], lines[k]) /\ (k < j => Before(lines[k], lines[j]))
              /\ lines[k].from <= lines[k].to
        BY <3>1, <3>2 DEF IFull, Ordered, Behind
      <3>4. /\ lines[i].item \in Nat /\ lines[k].item \in Nat /\ lines[j].item \in Nat
            /\ lines[k].from \in Nat /\ lines[k].to \in Nat /\ lines[j].from \in Nat
        BY <2>1, <3>1, <3>2, LinesAreTyped
      <3>5. lines[k].item = item /\ lines[k].from <= lines[j].from
        BY <3>1, <3>2, <3>3, <3>4, SMTT(30) DEF Before
      <3>6. f[i] < lines[k].from
        BY <2>5, <3>1, <3>2, <3>5 DEF k
      <3>7. lines[j].from <= f[j] /\ f[i] \in S /\ f[j] \in S
        BY <2>5
      <3>8. f[i] \in Nat /\ f[j] \in Nat
        <4>1. \A b \in S : b \in Nat
          BY <2>3
        <4> QED
          BY <3>7, <4>1, Zenon
      <3>9. \A from \in Nat : f[i] < from /\ from <= f[j] => f[i] < f[j]
        BY <3>8
      <3>10. lines[k].from <= f[j]
        BY <3>4, <3>5, <3>7, <3>8
      <3> QED
        BY <3>4, <3>6, <3>9, <3>10, Zenon
    <2>8. f \in Injection(LinesOf(item), S)
      <3>1. ASSUME NEW i \in LinesOf(item), NEW j \in LinesOf(item), f[i] = f[j] PROVE i = j
        <4>1. f[i] \in S /\ f[j] \in S /\ i \in 1 .. Len(lines) /\ j \in 1 .. Len(lines)
          BY <2>1, <2>5 DEF LinesOf
        <4>2. i \in Nat /\ j \in Nat /\ f[i] \in Nat /\ f[j] \in Nat
          <5>1. i \in Nat /\ j \in Nat
            BY <2>1, <4>1
          <5>2. \A b \in S : b \in Nat
            BY <2>3
          <5> QED
            BY <4>1, <5>1, <5>2, Zenon
        <4>3. ~(i < j) /\ ~(j < i)
          BY <2>7, <3>1, <4>2
        <4> QED
          BY <4>2, <4>3
      <3> QED
        BY <2>6, <3>1 DEF Injection, IsInjective
    <2> QED
      BY <2>4, <2>8, FS_Injection
  <1> QED
    BY <1>1, <1>2, NextKeepsFull, Invariance, PTL DEF Spec

-----------------------------------------------------------------------------
(* The notes have no room on the page, however short they and the list     *)
(* above them are: the box begins at 180 at the most, its first line would *)
(* stand at 162, and no line may stand lower than 184.                     *)

NoRoom == shown.notes = 0

LEMMA NoRoomIsKept == ASSUME IInv, NoRoom, [Next]_vars PROVE NoRoom'
  <1>1. CASE DrawListBox
    BY <1>1, ListIsBoxed DEF NoRoom
  <1>2. CASE DrawParagraphBox
    BY <1>2, NotesAreBoxed DEF NoRoom, IInv, IWrap, TypeOK
  <1>3. CASE UNCHANGED shown
    BY <1>3 DEF NoRoom
  <1>4. DrawListBox \/ DrawParagraphBox \/ UNCHANGED shown
    BY DEF Next, Layout, LayoutNext, DecodeSignature, DrawHeader, DrawCustomer, DrawJob, DrawDetails,
       WrapText, DrawSignature, AddObject, WriteHead, WriteObject, WriteTable, vars, layout
  <1> QED
    BY <1>1, <1>2, <1>3, <1>4

\* No document shows a line of its notes, whatever the record: what NotesAreShown denies of
\* one record holds of all.
THEOREM NotesAreNeverShown == Spec => [](step = "done" => shown.notes = 0)
  <1>1. Init => NoRoom
    BY DEF Init, LayoutInit, NoRoom
  <1>2. NoRoom => (step = "done" => shown.notes = 0)
    BY DEF NoRoom
  <1> QED
    BY <1>1, <1>2, NoRoomIsKept, Invariance, PTL DEF Spec
=============================================================================
