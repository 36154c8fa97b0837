--------------------------- MODULE PDFTextProofs ---------------------------
(***************************************************************************)
(* What a reader sees of texts of any length, and the facts about natural  *)
(* numbers and recursive functions that this and the proofs of the         *)
(* renderer need.  Induction is stated with sets instead of predicates.    *)
(***************************************************************************)
EXTENDS PDFText, SequenceTheorems, WellFoundedInduction, TLAPS

LEMMA LeastNatural ==
    ASSUME NEW S \in SUBSET Nat, S # {}
    PROVE  \E m \in S : \A n \in S : m <= n
  <1> DEFINE Below == OpToRel(<, Nat)
  <1>1. IsWellFoundedOn(Below, Nat)
    BY NatLessThanWellFounded
  <1>2. \A m, n \in Nat : m < n => <<m, n>> \in Below
    BY DEF OpToRel
  <1> HIDE DEF Below
  <1>3. PICK m \in S : \A n \in S : ~ (<<n, m>> \in Below)
    BY <1>1, WFMin
  <1>4. ASSUME NEW n \in S PROVE m <= n
    <2>1. n \in Nat /\ m \in Nat /\ <<n, m>> \notin Below
      BY <1>3
    <2>2. ~ (n < m)
      BY <1>2, <2>1, Zenon
    <2> QED
      BY <2>1, <2>2
  <1> QED
    BY <1>4

LEMMA GreatestNatural ==
    ASSUME NEW S \in SUBSET Nat, S # {}, NEW bound \in Nat, \A n \in S : n <= bound
    PROVE  \E m \in S : \A n \in S : n <= m
  <1> DEFINE Bounds == {b \in Nat : \A n \in S : n <= b}
  <1>1. PICK b \in Bounds : \A c \in Bounds : b <= c
    <2>1. Bounds \in SUBSET Nat /\ Bounds # {}
      OBVIOUS
    <2> HIDE DEF Bounds
    <2> QED
      BY <2>1, LeastNatural
  <1>2. b \in Nat /\ \A n \in S : n <= b
    OBVIOUS
  <1>3. CASE b \in S
    BY <1>2, <1>3
  <1>4. CASE b \notin S
    <2>1. PICK k \in S : TRUE
      OBVIOUS
    <2>2. \A n \in S : n <= b - 1
      BY <1>2, <1>4
    <2>3. k \in Nat /\ k <= b - 1
      BY <2>2
    <2>4. b - 1 \in Nat
      BY <1>2, <2>3
    <2>5. b - 1 \in Bounds
      BY <2>2, <2>4
    <2>6. b <= b - 1
      BY <1>1, <2>5
    <2> QED
      BY <1>2, <2>6
  <1> QED
    BY <1>3, <1>4

LEMMA SetInduction ==
    ASSUME NEW S, 0 \in S, \A n \in Nat : n \in S => n + 1 \in S
    PROVE  Nat \subseteq S
  <1> SUFFICES ASSUME Nat \ S # {} PROVE FALSE
    OBVIOUS
  <1>1. PICK m \in Nat \ S : \A n \in Nat \ S : m <= n
    <2> DEFINE Missing == Nat \ S
    <2>1. Missing \in SUBSET Nat /\ Missing # {}
      OBVIOUS
    <2> HIDE DEF Missing
    <2>2. \E m \in Missing : \A n \in Missing : m <= n
      BY <2>1, LeastNatural
    <2> QED
      BY <2>2 DEF Missing
  <1>2. m # 0 /\ m - 1 \in Nat
    BY <1>1
  <1>3. m - 1 \in S
    BY <1>1, <1>2
  <1>4. (m - 1) + 1 \in S
    BY <1>2, <1>3
  <1> QED
    BY <1>1, <1>4

-----------------------------------------------------------------------------
(* The recursive functions satisfy their equations.                        *)

\* A sequence of sequences and its prefixes, each put together.
LEMMA FlattenStepwise ==
    ASSUME NEW T, NEW s \in Seq(Seq(T))
    PROVE  \E p \in [0 .. Len(s) -> Seq(T)] :
               /\ p[0] = <<>>
               /\ \A k \in 1 .. Len(s) : p[k] = p[k - 1] \o s[k]
               /\ SX!FlattenSeq(s) = p[Len(s)]
  <1> DEFINE n == Len(s)
             Body(f, i) == IF i = 1 THEN s[i] ELSE f[i - 1] \o s[i]
             Solves(f, k) == \A i \in 1 .. k : f[i] = Body(f, i)
             Solved == {k \in Nat : \E f : Solves(f, k)}
             g == CHOOSE f : f = [i \in 1 .. n |-> Body(f, i)]
             Typed == {k \in Nat : k \in 1 .. n => g[k] \in Seq(T)}
             p == [k \in 0 .. n |-> IF k = 0 THEN <<>> ELSE g[k]]
  <1>1. n \in Nat /\ \A k \in 1 .. n : s[k] \in Seq(T)
    OBVIOUS
  <1>2. g = [i \in 1 .. n |-> Body(g, i)]
    <2>1. 0 \in Solved
      OBVIOUS
    <2>2. ASSUME NEW k \in Nat, k \in Solved PROVE k + 1 \in Solved
      <3>1. PICK f : Solves(f, k)
        BY <2>2
      <3> DEFINE h == [i \in 1 .. k + 1 |-> IF i = k + 1 THEN Body(f, i) ELSE f[i]]
      <3>2. \A i \in 1 .. k : h[i] = f[i]
        OBVIOUS
      <3>3. h[k + 1] = Body(f, k + 1)
        <4>1. k + 1 \in 1 .. k + 1
          OBVIOUS
        <4> HIDE DEF Body
        <4> QED
          BY <4>1
      <3> HIDE DEF h
      <3>4. ASSUME NEW i \in 1 .. k + 1 PROVE Body(h, i) = Body(f, i)
        <4>1. CASE i = 1
          BY <4>1
        <4>2. CASE i # 1
          <5>1. i - 1 \in 1 .. k
            BY <4>2
          <5>2. h[i - 1] = f[i - 1]
            BY <3>2, <5>1
          <5> QED
            BY <4>2, <5>2
        <4> QED
          BY <4>1, <4>2
      <3>5. \A i \in 1 .. k : f[i] = Body(f, i)
        BY <3>1
      <3> HIDE DEF Body
      <3>6. ASSUME NEW i \in 1 .. k + 1 PROVE h[i] = Body(h, i)
        <4>1. CASE i = k + 1
          BY <3>3, <3>4, <4>1
        <4>2. CASE i # k + 1
          <5>1. i \in 1 .. k
            BY <4>2
          <5> QED
            BY <3>2, <3>4, <3>5, <5>1
        <4> QED
          BY <4>1, <4>2
      <3>7. Solves(h, k + 1)
        BY <3>6
      <3> HIDE DEF Solves
      <3> QED
        BY <3>7
    <2> HIDE DEF Solved
    <2>3. n \in Solved
      BY <1>1, <2>1, <2>2, SetInduction
    <2>4. PICK f : Solves(f, n)
      BY <2>3 DEF Solved
    <2> DEFINE h == [i \in 1 .. n |-> f[i]]
    <2>5. ASSUME NEW i \in 1 .. n PROVE h[i] = Body(h, i)
      <3>1. h[i] = f[i] /\ f[i] = Body(f, i)
        BY <2>4
      <3>2. i # 1 => i - 1 \in 1 .. n
        BY <1>1
      <3>3. i # 1 => h[i - 1] = f[i - 1]
        BY <3>2
      <3> HIDE DEF h
      <3> QED
        BY <3>1, <3>3
    <2>6. h = [i \in 1 .. n |-> h[i]]
      OBVIOUS
    <2> HIDE DEF h, Body
    <2>7. h = [i \in 1 .. n |-> Body(h, i)]
      BY <2>5, <2>6
    <2> QED
      BY <2>7, Zenon DEF g
  <1> HIDE DEF g
  <1>3. \A i \in 1 .. n : g[i] = IF i = 1 THEN s[i] ELSE g[i - 1] \o s[i]
    BY <1>2
  <1>4. \A k \in 1 .. n : g[k] \in Seq(T)
    <2>1. 0 \in Typed
      OBVIOUS
    <2>2. ASSUME NEW k \in Nat, k \in Typed PROVE k + 1 \in Typed
      <3> SUFFICES ASSUME k + 1 \in 1 .. n PROVE g[k + 1] \in Seq(T)
        OBVIOUS
      <3>1. CASE k = 0
        BY <1>1, <1>3, <3>1
      <3>2. CASE k # 0
        <4>1. k \in 1 .. n /\ g[k] \in Seq(T) /\ s[k + 1] \in Seq(T)
          BY <1>1, <2>2, <3>2
        <4>2. g[k + 1] = g[k] \o s[k + 1]
          <5>1. k + 1 # 1 /\ (k + 1) - 1 = k
            BY <3>2
          <5> QED
            BY <1>3, <5>1
        <4> QED
          BY <4>1, <4>2
      <3> QED
        BY <3>1, <3>2
    <2> HIDE DEF Typed
    <2>3. Nat \subseteq Typed
      BY <2>1, <2>2, SetInduction
    <2> QED
      BY <2>3 DEF Typed
  <1>5. p \in [0 .. n -> Seq(T)]
    BY <1>1, <1>4
  <1>6. \A k \in 1 .. n : p[k] = p[k - 1] \o s[k]
    <2> SUFFICES ASSUME NEW k \in 1 .. n PROVE p[k] = p[k - 1] \o s[k]
      OBVIOUS
    <2>1. s[k] \in Seq(T)
      BY <1>1
    <2>2. CASE k = 1
      <3>1. g[1] = s[1] /\ p[1] = g[1] /\ p[0] = <<>>
        BY <1>3, <2>2
      <3>2. <<>> \o s[1] = s[1]
        BY <2>1, <2>2
      <3> QED
        BY <2>2, <3>1, <3>2, SMTT(30)
    <2>3. CASE k # 1
      <3>1. p[k] = g[k] /\ p[k - 1] = g[k - 1]
        BY <2>3
      <3> QED
        BY <1>3, <2>3, <3>1
    <2> QED
      BY <2>2, <2>3
  <1>7. SX!FlattenSeq(s) = p[n]
    <2>1. CASE n = 0
      <3>1. s = <<>>
        BY <2>1
      <3> QED
        BY <2>1, <3>1 DEF SX!FlattenSeq
    <2>2. CASE n # 0
      <3>1. SX!FlattenSeq(s) = g[n]
        BY <2>2 DEF SX!FlattenSeq, g
      <3> QED
        BY <1>1, <2>2, <3>1
    <2> QED
      BY <2>1, <2>2
  <1> QED
    BY <1>5, <1>6, <1>7

\* The reader's function is one: what it makes of a byte depends on later bytes only.
LEMMA ReadingIsDefined ==
    ASSUME NEW T, NEW bytes \in Seq(T)
    PROVE  \E read : /\ ReadLiteral(bytes) = read[1]
                     /\ \A i \in 1 .. Len(bytes) + 1 : read[i] = ReadFrom(i, bytes, read)
  <1> DEFINE n == Len(bytes)
             Solves(f, k) == \A i \in n + 2 - k .. n + 1 : f[i] = ReadFrom(i, bytes, f)
             Solved == {k \in Nat : k <= n + 1 => \E f : Solves(f, k)}
             read == CHOOSE f : f = [i \in 1 .. n + 1 |-> ReadFrom(i, bytes, f)]
  <1>1. n \in Nat
    OBVIOUS
  \* The later bytes that matter are those up to the end.
  <1>2. ASSUME NEW f, NEW h, NEW i \in 1 .. n + 1, \A j \in i + 1 .. n + 1 : f[j] = h[j]
        PROVE  ReadFrom(i, bytes, f) = ReadFrom(i, bytes, h)
    <2>1. i < n + 1 => i + 1 \in i + 1 .. n + 1
      BY <1>1
    <2>2. i < n + 1 /\ i # n => i + 2 \in i + 1 .. n + 1
      BY <1>1
    <2>3. i + 3 <= n => i + 4 \in i + 1 .. n + 1
      BY <1>1
    <2>4. i < n + 1 => f[i + 1] = h[i + 1]
      BY <1>2, <2>1
    <2>5. i < n + 1 /\ i # n => f[i + 2] = h[i + 2]
      BY <1>2, <2>2
    <2>6. i + 3 <= n => f[i + 4] = h[i + 4]
      BY <1>2, <2>3
    <2>7. i > n \/ i < n + 1
      BY <1>1
    <2> QED
      BY <2>4, <2>5, <2>6, <2>7 DEF ReadFrom
  <1>3. \E f : Solves(f, n + 1)
    <2>1. 0 \in Solved
      <3>1. n + 2 - 0 .. n + 1 = {}
        BY <1>1
      <3> QED
        BY <3>1
    <2>2. ASSUME NEW k \in Nat, k \in Solved PROVE k + 1 \in Solved
      <3> SUFFICES ASSUME k + 1 <= n + 1 PROVE \E f : Solves(f, k + 1)
        OBVIOUS
      <3> DEFINE m == n + 1 - k
      <3>1. PICK f : Solves(f, k)
        BY <1>1, <2>2
      <3>2. m \in 1 .. n + 1 /\ n + 2 - k = m + 1 /\ n + 2 - (k + 1) = m
        BY <1>1
      <3> HIDE DEF m
      <3>3. \A i \in m + 1 .. n + 1 : f[i] = ReadFrom(i, bytes, f)
        BY <3>1, <3>2
      <3> DEFINE h == [i \in m .. n + 1 |-> IF i = m THEN ReadFrom(i, bytes, f) ELSE f[i]]
      <3>4. h[m] = ReadFrom(m, bytes, f)
        BY <1>1, <3>2
      <3>5. \A i \in m + 1 .. n + 1 : h[i] = f[i]
        BY <1>1, <3>2
      <3> HIDE DEF h
      <3>6. ASSUME NEW i \in m .. n + 1 PROVE h[i] = ReadFrom(i, bytes, h)
        <4>1. i \in 1 .. n + 1 /\ \A j \in i + 1 .. n + 1 : j \in m + 1 .. n + 1
          BY <1>1, <3>2
        <4>2. \A j \in i + 1 .. n + 1 : f[j] = h[j]
          BY <3>5, <4>1
        <4>3. ReadFrom(i, bytes, f) = ReadFrom(i, bytes, h)
          BY <1>2, <4>1, <4>2
        <4>4. CASE i = m
          BY <3>4, <4>3, <4>4
        <4>5. CASE i # m
          <5>1. i \in m + 1 .. n + 1
            BY <1>1, <3>2, <4>5
          <5> QED
            BY <3>3, <3>5, <4>3, <5>1
        <4> QED
          BY <4>4, <4>5
      <3>7. Solves(h, k + 1)
        BY <3>2, <3>6
      <3> HIDE DEF Solves
      <3> QED
        BY <3>7
    <2> HIDE DEF Solved
    <2>3. n + 1 \in Solved
      BY <1>1, <2>1, <2>2, SetInduction
    <2> QED
      BY <1>1, <2>3 DEF Solved
  <1>4. PICK f : \A i \in 1 .. n + 1 : f[i] = ReadFrom(i, bytes, f)
    <2>1. n + 2 - (n + 1) = 1
      BY <1>1
    <2> QED
      BY <1>3, <2>1
  <1> DEFINE h == [i \in 1 .. n + 1 |-> f[i]]
  <1>5. \A i \in 1 .. n + 1 : h[i] = f[i]
    OBVIOUS
  <1>6. h = [i \in 1 .. n + 1 |-> h[i]]
    OBVIOUS
  <1> HIDE DEF h
  <1>7. ASSUME NEW i \in 1 .. n + 1 PROVE h[i] = ReadFrom(i, bytes, h)
    <2>1. \A j \in i + 1 .. n + 1 : j \in 1 .. n + 1
      BY <1>1
    <2>2. ReadFrom(i, bytes, f) = ReadFrom(i, bytes, h)
      BY <1>2, <1>5, <2>1
    <2> QED
      BY <1>4, <1>5, <2>2
  <1>8. h = [i \in 1 .. n + 1 |-> ReadFrom(i, bytes, h)]
    BY <1>6, <1>7
  <1>9. read = [i \in 1 .. n + 1 |-> ReadFrom(i, bytes, read)]
    BY <1>8, Zenon
  <1>10. ReadLiteral(bytes) = read[1]
    BY DEF ReadLiteral
  <1> HIDE DEF read
  <1>11. \A i \in 1 .. n + 1 : read[i] = ReadFrom(i, bytes, read)
    BY <1>9
  <1> QED
    BY <1>10, <1>11

-----------------------------------------------------------------------------
(* Writing.                                                                *)

Tokens == Runes \cup {"-", "2", "5"}

LEMMA TrimIsText ==
    ASSUME NEW text \in Seq(Runes)
    PROVE  Trim(text) \in Seq(Runes)
  <1> DEFINE kept == {i \in DOMAIN text : text[i] \notin Blanks}
             first == CHOOSE i \in kept : \A j \in kept : i <= j
             last == CHOOSE i \in kept : \A j \in kept : j <= i
  <1>1. CASE kept = {}
    BY <1>1 DEF Trim
  <1>2. CASE kept # {}
    <2>1. Len(text) \in Nat /\ kept \in SUBSET (1 .. Len(text))
      OBVIOUS
    <2>2. kept \in SUBSET Nat /\ \A i \in kept : i <= Len(text)
      BY <2>1
    <2> HIDE DEF kept
    <2>3. first \in kept
      <3>1. \E i \in kept : \A j \in kept : i <= j
        BY <1>2, <2>2, LeastNatural
      <3> QED
        BY <3>1
    <2>4. last \in kept
      <3>1. \E i \in kept : \A j \in kept : j <= i
        BY <1>2, <2>1, <2>2, GreatestNatural
      <3> QED
        BY <3>1
    <2>5. Trim(text) = SubSeq(text, first, last)
      BY <1>2 DEF Trim, kept
    <2> HIDE DEF first, last
    <2>6. first \in 1 .. Len(text) /\ last \in 1 .. Len(text)
      BY <2>1, <2>3, <2>4
    <2>7. SubSeq(text, first, last) \in Seq(Runes)
      BY <2>6
    <2> QED
      BY <2>5, <2>7
  <1> QED
    BY <1>1, <1>2

LEMMA OneElement ==
    ASSUME NEW T, NEW t \in T
    PROVE  <<t>> \in Seq(T) /\ Len(<<t>>) = 1 /\ <<t>>[1] = t
  OBVIOUS

LEMMA ConcatParts ==
    ASSUME NEW T, NEW a \in Seq(T), NEW b \in Seq(T)
    PROVE  /\ a \o b \in Seq(T)
           /\ Len(a) \in Nat /\ Len(b) \in Nat
           /\ Len(a \o b) = Len(a) + Len(b)
           /\ \A i \in 1 .. Len(a) : (a \o b)[i] = a[i]
           /\ \A i \in 1 .. Len(b) : (a \o b)[Len(a) + i] = b[i]
  OBVIOUS

LEMMA ConcatIsFunction ==
    ASSUME NEW T, NEW a \in Seq(T), NEW b \in Seq(T)
    PROVE  a \o b = [i \in DOMAIN (a \o b) |-> (a \o b)[i]]
  <1> DEFINE c == a \o b
  <1>1. c \in Seq(T)
    OBVIOUS
  <1> HIDE DEF c
  <1>2. c = [i \in DOMAIN c |-> c[i]]
    BY <1>1
  <1> QED
    BY <1>2 DEF c

LEMMA EscapeIsWritten ==
    ASSUME NEW r \in Runes
    PROVE  Escape(r) \in Seq(Tokens) /\ Len(Escape(r)) \in {1, 2, 4}
  <1>1. CASE r \in {"\\", "(", ")"}
    <2>1. Escape(r) = <<"\\", r>>
      BY <1>1 DEF Escape
    <2>2. "\\" \in Tokens /\ r \in Tokens
      BY <1>1 DEF Tokens, Runes
    <2> QED
      BY <2>1, <2>2
  <1>2. CASE r = "bullet"
    <2>1. Escape(r) = <<"\\", "2", "2", "5">>
      BY <1>2 DEF Escape
    <2>2. "\\" \in Tokens /\ "2" \in Tokens /\ "5" \in Tokens
      BY DEF Tokens, Runes
    <2> QED
      BY <2>1, <2>2
  <1>3. CASE r \in {"letter", " ", "newline", "other"}
    <2>1. PICK t : t \in {"letter", " ", "-"} /\ Escape(r) = <<t>>
      BY <1>3 DEF Escape
    <2>2. t \in Tokens
      BY <2>1 DEF Tokens, Runes, Blanks
    <2>3. Escape(r) \in Seq(Tokens) /\ Len(Escape(r)) = 1
      BY <2>1, <2>2, OneElement, Zenon
    <2> QED
      BY <2>3
  <1> QED
    BY <1>1, <1>2, <1>3 DEF Runes, Blanks

\* What is written first stays a prefix of the rest.
Opens(a, b) == Len(a) <= Len(b) /\ \A i \in 1 .. Len(a) : b[i] = a[i]

LEMMA PrefixesStay ==
    ASSUME NEW T, NEW n \in Nat, NEW p \in [0 .. n -> Seq(T)], NEW s \in [1 .. n -> Seq(T)],
           \A k \in 1 .. n : p[k] = p[k - 1] \o s[k]
    PROVE  \A m \in 0 .. n : Opens(p[m], p[n])
  <1> DEFINE Stays(k) == /\ Len(p[k]) <= Len(p[n])
                         /\ \A i \in 1 .. Len(p[k]) : p[n][i] = p[k][i]
             S == {d \in Nat : d <= n => Stays(n - d)}
  <1>1. 0 \in S
    <2>1. n - 0 = n /\ Len(p[n]) \in Nat
      OBVIOUS
    <2> QED
      BY <2>1
  <1>2. ASSUME NEW d \in Nat, d \in S PROVE d + 1 \in S
    <2> SUFFICES ASSUME d + 1 <= n PROVE Stays(n - (d + 1))
      OBVIOUS
    <2> DEFINE k == n - d
    <2>1. k \in 1 .. n /\ k - 1 \in 0 .. n /\ n - (d + 1) = k - 1
      OBVIOUS
    <2>2. Stays(k)
      BY <1>2
    <2> HIDE DEF k
    <2>3. p[k - 1] \in Seq(T) /\ s[k] \in Seq(T) /\ p[n] \in Seq(T)
      BY <2>1
    <2>4. p[k] = p[k - 1] \o s[k]
      BY <2>1
    <2>5. /\ Len(p[k]) >= Len(p[k - 1]) /\ Len(p[k]) \in Nat /\ Len(p[k - 1]) \in Nat
          /\ \A i \in 1 .. Len(p[k - 1]) : p[k][i] = p[k - 1][i]
      <3> DEFINE a == p[k - 1]
                 b == s[k]
                 c == p[k]
      <3>1. a \in Seq(T) /\ b \in Seq(T) /\ c = a \o b
        BY <2>3, <2>4
      <3> HIDE DEF a, b, c
      <3>2. /\ Len(c) >= Len(a) /\ Len(c) \in Nat /\ Len(a) \in Nat
            /\ \A i \in 1 .. Len(a) : c[i] = a[i]
        BY <3>1
      <3> QED
        BY <3>2 DEF a, b, c
    <2>6. Len(p[n]) \in Nat
      BY <2>3
    <2>7. Stays(k - 1)
      BY <2>2, <2>5, <2>6, SMTT(30)
    <2> QED
      BY <2>1, <2>7
  <1> HIDE DEF S, Stays
  <1>3. Nat \subseteq S
    BY <1>1, <1>2, SetInduction
  <1>4. ASSUME NEW m \in 0 .. n PROVE Stays(m)
    <2>1. n - m \in Nat /\ n - m <= n /\ n - (n - m) = m
      OBVIOUS
    <2>2. n - m \in S
      BY <1>3, <2>1
    <2> QED
      BY <2>1, <2>2 DEF S
  <1> QED
    BY <1>4 DEF Stays, Opens

-----------------------------------------------------------------------------
(* Reading.                                                                *)

\* What a reader sees of a rune: the losses are those of escapePDFText and of the font.
Seen(r) ==
    CASE r = "newline" -> " "
      [] r = "other"   -> "-"
      [] r = "bullet"  -> ".notdef"
      [] r \in Printable -> r

SeenText(text) == [i \in DOMAIN Trim(text) |-> Seen(Trim(text)[i])]

\* The bytes of one rune are read as what is seen of it, and reading goes on behind them.
LEMMA OneRune ==
    ASSUME NEW bytes \in Seq(Tokens), NEW later, NEW r \in Runes, NEW i \in Nat, i > 0,
           i + Len(Escape(r)) <= Len(bytes),
           \A j \in 1 .. Len(Escape(r)) : bytes[i + j - 1] = Escape(r)[j]
    PROVE  ReadFrom(i, bytes, later) = <<Seen(r)>> \o later[i + Len(Escape(r))]
  <1>1. Len(bytes) \in Nat
    OBVIOUS
  <1>2. CASE r \in {"\\", "(", ")"}
    <2>1. Escape(r) = <<"\\", r>> /\ Seen(r) = r
      BY <1>2 DEF Escape, Seen, Printable
    <2>2. Len(Escape(r)) = 2 /\ Escape(r)[1] = "\\" /\ Escape(r)[2] = r
      BY <2>1
    <2>3. i + 1 - 1 = i /\ i + 2 - 1 = i + 1 /\ 1 \in 1 .. 2 /\ 2 \in 1 .. 2
      OBVIOUS
    <2>4. bytes[i] = "\\" /\ bytes[i + 1] = r
      BY <2>2, <2>3
    <2>5. i + 2 <= Len(bytes)
      BY <2>2
    <2>6. ~(i > Len(bytes)) /\ i # Len(bytes)
      BY <1>1, <2>5
    <2> QED
      BY <1>2, <2>1, <2>2, <2>4, <2>6 DEF ReadFrom
  <1>3. CASE r = "bullet"
    <2>1. Escape(r) = <<"\\", "2", "2", "5">> /\ Seen(r) = ".notdef"
      BY <1>3 DEF Escape, Seen, Printable
    <2>2. Len(Escape(r)) = 4 /\ Escape(r)[1] = "\\" /\ Escape(r)[2] = "2"
      BY <2>1
    <2>3. i + 1 - 1 = i /\ i + 2 - 1 = i + 1 /\ 1 \in 1 .. 4 /\ 2 \in 1 .. 4
      OBVIOUS
    <2>4. bytes[i] = "\\" /\ bytes[i + 1] = "2"
      BY <2>2, <2>3
    <2>5. i + 4 <= Len(bytes)
      BY <2>2
    <2>6. ~(i > Len(bytes)) /\ i # Len(bytes) /\ i + 3 <= Len(bytes)
      BY <1>1, <2>5
    <2> QED
      BY <2>1, <2>2, <2>4, <2>6 DEF ReadFrom
  <1>4. CASE r \in {"letter", " ", "newline", "other"}
    <2> DEFINE g == Seen(r)
    <2>1. Escape(r) = <<g>> /\ g \in {"letter", " ", "-"}
      BY <1>4 DEF Escape, Seen, Printable
    <2> HIDE DEF g
    <2>2. Len(Escape(r)) = 1 /\ Escape(r)[1] = g
      BY <2>1, OneElement, Zenon
    <2>3. i + 1 - 1 = i /\ 1 \in 1 .. 1
      OBVIOUS
    <2>4. bytes[i] = g
      BY <2>2, <2>3
    <2>5. i + 1 <= Len(bytes)
      BY <2>2
    <2>6. ~(i > Len(bytes))
      BY <1>1, <2>5
    <2>7. ReadFrom(i, bytes, later) = <<g>> \o later[i + 1]
      BY <2>1, <2>4, <2>6 DEF ReadFrom
    <2> QED
      BY <2>2, <2>7 DEF g
  <1> QED
    BY <1>2, <1>3, <1>4 DEF Runes, Blanks

\* Reading undoes writing, but for those losses.
LEMMA ReadingWhatIsWritten ==
    ASSUME NEW text \in Seq(Runes)
    PROVE  ReadLiteral(Literal(text)) = SeenText(text)
  <1> DEFINE s == Trim(text)
             n == Len(s)
             written == [i \in DOMAIN s |-> Escape(s[i])]
             bytes == Literal(text)
  <1>1. s \in Seq(Runes) /\ n \in Nat /\ DOMAIN s = 1 .. n /\ \A i \in 1 .. n : s[i] \in Runes
    BY TrimIsText
  <1>2. \A r \in Runes : Escape(r) \in Seq(Tokens) /\ Len(Escape(r)) \in Nat
    BY EscapeIsWritten
  <1>3. /\ written \in Seq(Seq(Tokens)) /\ Len(written) = n
        /\ written \in [1 .. n -> Seq(Tokens)]
        /\ \A i \in 1 .. n : written[i] = Escape(s[i])
    BY <1>1, <1>2
  <1>4. bytes = SX!FlattenSeq(written) \o <<")">>
    BY DEF Literal
  <1>5. SeenText(text) = [i \in 1 .. n |-> Seen(s[i])]
    BY <1>1 DEF SeenText
  <1> HIDE DEF s, n, written, bytes
  <1>6. PICK p \in [0 .. n -> Seq(Tokens)] :
            /\ p[0] = <<>>
            /\ \A k \in 1 .. n : p[k] = p[k - 1] \o written[k]
            /\ SX!FlattenSeq(written) = p[n]
    BY <1>3, FlattenStepwise
  <1>7. /\ p[n] \in Seq(Tokens) /\ bytes = p[n] \o <<")">> /\ bytes \in Seq(Tokens)
        /\ Len(bytes) = Len(p[n]) + 1 /\ bytes[Len(bytes)] = ")"
        /\ \A i \in 1 .. Len(p[n]) : bytes[i] = p[n][i]
    <2>1. p[n] \in Seq(Tokens) /\ bytes = p[n] \o <<")">>
      BY <1>1, <1>4, <1>6
    <2>2. ")" \in Tokens
      BY DEF Tokens, Runes
    <2> QED
      BY <2>1, <2>2
  <1>8. \A k \in 0 .. n : Opens(p[k], p[n])
    <2>1. written \in [1 .. n -> Seq(Tokens)]
      BY <1>3
    <2>2. \A k \in 1 .. n : p[k] = p[k - 1] \o written[k]
      BY <1>6
    <2>3. n \in Nat
      BY <1>1
    <2>4. p \in [0 .. n -> Seq(Tokens)]
      OBVIOUS
    <2> QED
      BY <2>1, <2>2, <2>3, <2>4, PrefixesStay
  <1>9. PICK read : /\ ReadLiteral(bytes) = read[1]
                    /\ \A i \in 1 .. Len(bytes) + 1 : read[i] = ReadFrom(i, bytes, read)
    <2>1. bytes \in Seq(Tokens)
      BY <1>7
    <2> QED
      BY <2>1, ReadingIsDefined
  \* What is left to read when so many runes are.
  <1> DEFINE Rest(k) == [j \in 1 .. n - k |-> Seen(s[k + j])]
             Read(k) == read[Len(p[k]) + 1] = Rest(k)
             S == {d \in Nat : d <= n => Read(n - d)}
  <1>10. 0 \in S
    <2>1. n - 0 = n /\ Rest(n) = <<>>
      BY <1>1
    <2>2. Len(p[n]) + 1 = Len(bytes) /\ Len(bytes) \in 1 .. Len(bytes) + 1
      BY <1>7
    <2>3. ReadFrom(Len(bytes), bytes, read) = <<>>
      BY <1>7, <2>2 DEF ReadFrom
    <2>4. read[Len(p[n]) + 1] = <<>>
      BY <1>9, <2>2, <2>3
    <2> QED
      BY <2>1, <2>4
  <1>11. ASSUME NEW d \in Nat, d \in S PROVE d + 1 \in S
    <2> SUFFICES ASSUME d + 1 <= n PROVE Read(n - (d + 1))
      OBVIOUS
    <2> DEFINE k == n - d
               i == Len(p[k - 1]) + 1
               r == s[k]
    <2>1. k \in 1 .. n /\ k - 1 \in 0 .. n /\ k \in 0 .. n /\ n - (d + 1) = k - 1
      BY <1>1
    <2>2. Read(k)
      BY <1>1, <1>11
    <2> HIDE DEF k
    <2>3. r \in Runes /\ written[k] = Escape(r) /\ Escape(r) \in Seq(Tokens)
              /\ Len(Escape(r)) \in Nat
      BY <1>1, <1>2, <1>3, <2>1
    <2>4. /\ p[k - 1] \in Seq(Tokens) /\ p[k] = p[k - 1] \o Escape(r) /\ p[k] \in Seq(Tokens)
          /\ Len(p[k - 1]) \in Nat
      <3>1. p[k - 1] \in Seq(Tokens) /\ p[k] \in Seq(Tokens)
        BY <2>1
      <3>2. p[k] = p[k - 1] \o written[k]
        BY <1>6, <2>1
      <3>3. p[k] = p[k - 1] \o Escape(r)
        BY <2>3, <3>2
      <3>4. Len(p[k - 1]) \in Nat
        BY <3>1
      <3> QED
        BY <3>1, <3>3, <3>4
    <2> HIDE DEF r
    <2>5. /\ Len(p[k]) = Len(p[k - 1]) + Len(Escape(r))
          /\ \A j \in 1 .. Len(Escape(r)) : p[k][Len(p[k - 1]) + j] = Escape(r)[j]
      BY <2>3, <2>4
    <2>6. i \in Nat /\ i > 0 /\ i + Len(Escape(r)) = Len(p[k]) + 1
      BY <2>3, <2>4, <2>5
    <2>7. Len(p[k]) <= Len(p[n]) /\ \A j \in 1 .. Len(p[k]) : p[n][j] = p[k][j]
      BY <1>8, <2>1 DEF Opens
    <2>8. Len(p[n]) \in Nat
      BY <1>7
    <2>9. i + Len(Escape(r)) <= Len(bytes) /\ i \in 1 .. Len(bytes) + 1
      BY <1>7, <2>3, <2>4, <2>6, <2>7, <2>8, SMTT(30)
    <2>10. ASSUME NEW j \in 1 .. Len(Escape(r)) PROVE bytes[i + j - 1] = Escape(r)[j]
      <3>1. i + j - 1 = Len(p[k - 1]) + j
        BY <2>4
      <3>2. Len(p[k - 1]) + j \in 1 .. Len(p[k])
        BY <2>3, <2>4, <2>5
      <3>3. Len(p[k - 1]) + j \in 1 .. Len(p[n])
        BY <2>4, <2>7, <2>8, <3>2
      <3> QED
        BY <1>7, <2>5, <2>7, <3>1, <3>2, <3>3
    <2> HIDE DEF i
    <2>11. read[i] = <<Seen(r)>> \o read[Len(p[k]) + 1]
      <3>1. ReadFrom(i, bytes, read) = <<Seen(r)>> \o read[i + Len(Escape(r))]
        BY <1>7, <2>3, <2>6, <2>9, <2>10, OneRune
      <3> QED
        BY <1>9, <2>6, <2>9, <3>1
    <2>12. <<Seen(r)>> \o Rest(k) = Rest(k - 1)
      <3> DEFINE one == <<Seen(r)>>
                 more == one \o Rest(k)
      <3>1. n - k \in Nat /\ n - (k - 1) = (n - k) + 1
        BY <1>1, <2>1
      <3>2. Len(Rest(k)) = n - k /\ DOMAIN Rest(k) = 1 .. n - k
        BY <3>1
      <3>3. DOMAIN more = 1 .. (n - k) + 1 /\ Len(one) = 1
        BY <3>1, <3>2
      <3>4. ASSUME NEW j \in 1 .. (n - k) + 1 PROVE more[j] = Seen(s[k - 1 + j])
        <4>1. CASE j = 1
          BY <3>1, <3>2, <2>1, <4>1 DEF r
        <4>2. CASE j # 1
          <5>1. j - 1 \in 1 .. n - k /\ k - 1 + j = k + (j - 1)
            BY <2>1, <3>1, <4>2
          <5>2. more[j] = Rest(k)[j - 1]
            BY <3>1, <3>2, <3>3, <4>2
          <5>3. Rest(k)[j - 1] = Seen(s[k + (j - 1)])
            BY <5>1
          <5> QED
            BY <5>1, <5>2, <5>3
        <4> QED
          BY <4>1, <4>2
      <3>5. more = [j \in 1 .. (n - k) + 1 |-> more[j]]
        <4> DEFINE G == {Seen(s[e]) : e \in Nat} \cup {Seen(r)}
                   rest == Rest(k)
        <4>1. one \in Seq(G)
          BY OneElement
        <4>2. rest \in Seq(G)
          <5> DEFINE m == n - k
          <5>1. m \in Nat /\ \A j \in 1 .. m : k + j \in Nat
            BY <2>1, <3>1
          <5>2. rest = [j \in 1 .. m |-> Seen(s[k + j])]
            OBVIOUS
          <5> HIDE DEF m, rest
          <5>3. \A j \in 1 .. m : Seen(s[k + j]) \in G
            BY <5>1
          <5> HIDE DEF G
          <5> QED
            BY <5>1, <5>2, <5>3
        <4>3. more = one \o rest
          OBVIOUS
        <4> HIDE DEF G, rest, one, more
        <4>4. more = [j \in DOMAIN more |-> more[j]]
          BY <4>1, <4>2, <4>3, ConcatIsFunction
        <4> QED
          BY <3>3, <4>4
      <3>6. Rest(k - 1) = [j \in 1 .. (n - k) + 1 |-> Seen(s[k - 1 + j])]
        BY <3>1
      <3> HIDE DEF more
      <3>7. more = Rest(k - 1)
        BY <3>4, <3>5, <3>6
      <3> QED
        BY <3>7 DEF more
    <2>13. Read(k - 1)
      BY <2>2, <2>11, <2>12 DEF i
    <2> QED
      BY <2>1, <2>13
  <1>12. n \in S
    <2> HIDE DEF S
    <2> QED
      BY <1>1, <1>10, <1>11, SetInduction
  <1>13. read[Len(p[0]) + 1] = Rest(0)
    <2>1. n - n = 0
      BY <1>1
    <2> QED
      BY <1>1, <1>12, <2>1
  <1>14. Len(p[0]) + 1 = 1 /\ Rest(0) = [j \in 1 .. n |-> Seen(s[j])]
    BY <1>1, <1>6
  <1> QED
    BY <1>5, <1>9, <1>13, <1>14 DEF bytes

\* Of a text that writeText writes, a reader sees as many characters as it has, each of
\* the ASCII ones that print in its place and as it was, and its literal ends where it
\* should, whatever parentheses, backslashes and bullets it has and however long it is.
\* Of the others it sees a hyphen, a blank or nothing.
THEOREM ReadingKeepsPrintableText ==
    ASSUME NEW text \in Seq(Runes)
    PROVE  LET read == ReadLiteral(Literal(text)) IN
           /\ Len(read) = Len(Trim(text))
           /\ \A i \in DOMAIN Trim(text) :
                 Trim(text)[i] \in Printable => read[i] = Trim(text)[i]
  <1> DEFINE s == Trim(text)
             read == ReadLiteral(Literal(text))
  <1>1. s \in Seq(Runes) /\ Len(s) \in Nat /\ DOMAIN s = 1 .. Len(s)
    BY TrimIsText
  <1>2. read = [i \in 1 .. Len(s) |-> Seen(s[i])]
    BY <1>1, ReadingWhatIsWritten DEF SeenText
  <1> HIDE DEF read, s
  <1>3. Len(read) = Len(s)
    BY <1>1, <1>2
  <1>4. ASSUME NEW i \in 1 .. Len(s), s[i] \in Printable PROVE read[i] = s[i]
    <2> DEFINE r == s[i]
    <2>1. Seen(r) = r
      <3>1. r \in Printable /\ r \notin {"newline", "other", "bullet"}
        BY <1>4 DEF Printable
      <3> HIDE DEF r
      <3> QED
        BY <3>1 DEF Seen
    <2> QED
      BY <1>2, <2>1
  <1> QED
    BY <1>1, <1>3, <1>4 DEF read, s
=============================================================================
