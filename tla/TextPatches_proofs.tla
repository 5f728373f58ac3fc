------------------------- MODULE TextPatches_proofs -------------------------
(* Proofs about the patch arithmetic below the review session, for any     *)
(* letters, documents, replacements and patches: the splice of bytes is    *)
(* the patch of lines that the session takes it for.                       *)
EXTENDS TextPatches, ReviewAnchors_proofs

-----------------------------------------------------------------------------
(* Sequences. *)

LEMMA SequenceInduction ==
    ASSUME NEW T, NEW S, <<>> \in S, \A s \in Seq(T), x \in T : s \in S => Append(s, x) \in S
    PROVE  Seq(T) \subseteq S
  <1> DEFINE N == {n \in Nat : \A s \in Seq(T) : Len(s) = n => s \in S}
  <1>1. 0 \in N
    <2>1. \A s \in Seq(T) : Len(s) = 0 => s = <<>>
      BY EmptySeq
    <2> QED BY <2>1
  <1>2. ASSUME NEW n \in Nat, n \in N PROVE n + 1 \in N
    <2> SUFFICES ASSUME NEW s \in Seq(T), Len(s) = n + 1 PROVE s \in S
      OBVIOUS
    <2>1. s # <<>>
      BY EmptySeq
    <2>2. PICK front \in Seq(T), x \in T : s = Append(front, x)
      BY <2>1, SequenceEmptyOrAppend
    <2>3. Len(front) = n
      BY <2>2, AppendProperties, LenProperties
    <2> QED BY <1>2, <2>2, <2>3
  <1>3. Nat \subseteq N
    <2> HIDE DEF N
    <2> QED BY <1>1, <1>2, CountUp
  <1> QED BY <1>3, LenProperties

LEMMA SliceType ==
    ASSUME NEW T, NEW s \in Seq(T), NEW from \in Nat, NEW to \in Nat, from <= to, to <= Len(s)
    PROVE  /\ Slice(s, from, to) \in Seq(T) /\ Len(Slice(s, from, to)) = to - from
           /\ \A p \in 1 .. to - from : Slice(s, from, to)[p] = s[from + p]
  <1>1. \A i \in from + 1 .. to : s[i] \in T
    BY ElementOfSeq, LenProperties
  <1>2. /\ SubSeq(s, from + 1, to) \in Seq(T)
        /\ Len(SubSeq(s, from + 1, to)) = IF from + 1 <= to THEN to - (from + 1) + 1 ELSE 0
        /\ \A i \in 1 .. to - (from + 1) + 1 : SubSeq(s, from + 1, to)[i] = s[from + 1 + i - 1]
    BY <1>1, SubSeqProperties
  <1> DEFINE part == SubSeq(s, from + 1, to)
  <1> HIDE DEF part
  <1>3. part \in Seq(T) /\ Len(part) = to - from /\ \A p \in 1 .. to - from : part[p] = s[from + p]
    <2>1. to - (from + 1) + 1 = to - from
      OBVIOUS
    <2>2. Len(part) = to - from
      BY <1>2, <2>1 DEF part
    <2>3. ASSUME NEW p \in 1 .. to - from PROVE part[p] = s[from + p]
      <3>1. from + 1 + p - 1 = from + p
        OBVIOUS
      <3> QED BY <1>2, <2>1, <3>1 DEF part
    <2> QED BY <1>2, <2>2, <2>3 DEF part
  <1> QED BY <1>3 DEF part, Slice

(* The part of a text between two offsets is the sequence that has its symbols. *)
LEMMA SliceIs ==
    ASSUME NEW T, NEW s \in Seq(T), NEW part \in Seq(T), NEW from \in Nat, NEW to \in Nat,
           from + Len(part) = to, to <= Len(s), \A p \in 1 .. Len(part) : s[from + p] = part[p]
    PROVE  Slice(s, from, to) = part
  <1>1. Len(part) \in Nat
    BY LenProperties
  <1>2. from <= to /\ to - from = Len(part)
    BY <1>1
  <1>3. /\ Slice(s, from, to) \in Seq(T) /\ Len(Slice(s, from, to)) = Len(part)
        /\ \A p \in 1 .. Len(part) : Slice(s, from, to)[p] = s[from + p]
    <2>1. /\ Slice(s, from, to) \in Seq(T) /\ Len(Slice(s, from, to)) = to - from
          /\ \A p \in 1 .. to - from : Slice(s, from, to)[p] = s[from + p]
      BY SMTT(30), <1>2, SliceType
    <2> HIDE DEF Slice
    <2> QED BY <1>2, <2>1
  <1> DEFINE slice == Slice(s, from, to)
  <1>4. \A p \in 1 .. Len(slice) : slice[p] = part[p]
    BY <1>3
  <1>5. slice \in Seq(T) /\ Len(slice) = Len(part)
    BY <1>3
  <1> HIDE DEF slice
  <1>6. slice = part
    BY <1>4, <1>5, SeqEqual
  <1> QED BY <1>6 DEF slice

(* A text that is put together of three parts. *)
MadeOf(T, s, x, y, z) ==
    /\ s \in Seq(T) /\ Len(s) = Len(x) + Len(y) + Len(z)
    /\ \A p \in 1 .. Len(x) : s[p] = x[p]
    /\ \A p \in 1 .. Len(y) : s[Len(x) + p] = y[p]
    /\ \A p \in 1 .. Len(z) : s[Len(x) + Len(y) + p] = z[p]
    /\ Slice(s, 0, Len(x)) = x
    /\ Slice(s, Len(x), Len(x) + Len(y)) = y
    /\ Slice(s, Len(x) + Len(y), Len(s)) = z

LEMMA Parts ==
    ASSUME NEW T, NEW x \in Seq(T), NEW y \in Seq(T), NEW z \in Seq(T)
    PROVE  MadeOf(T, x \o y \o z, x, y, z)
  <1> DEFINE xy == x \o y
             s  == xy \o z
  <1>1. Len(x) \in Nat /\ Len(y) \in Nat /\ Len(z) \in Nat
    BY LenProperties
  <1>2. /\ xy \in Seq(T) /\ Len(xy) = Len(x) + Len(y)
        /\ \A i \in 1 .. Len(x) + Len(y) : xy[i] = IF i <= Len(x) THEN x[i] ELSE y[i - Len(x)]
    BY ConcatProperties
  <1> HIDE DEF xy
  <1>3. /\ s \in Seq(T) /\ Len(s) = Len(xy) + Len(z)
        /\ \A i \in 1 .. Len(xy) + Len(z) : s[i] = IF i <= Len(xy) THEN xy[i] ELSE z[i - Len(xy)]
    <2>1. xy \in Seq(T)
      BY <1>2
    <2> QED BY <2>1, ConcatProperties
  <1> HIDE DEF s
  <1>4. ASSUME NEW p \in 1 .. Len(x) PROVE s[p] = x[p]
    BY <1>1, <1>2, <1>3
  <1>5. ASSUME NEW p \in 1 .. Len(y) PROVE s[Len(x) + p] = y[p]
    <2>1. /\ Len(x) + p \in 1 .. Len(x) + Len(y) /\ Len(x) + p \in 1 .. Len(xy) + Len(z)
          /\ ~ (Len(x) + p <= Len(x)) /\ Len(x) + p <= Len(xy) /\ (Len(x) + p) - Len(x) = p
      BY <1>1, <1>2
    <2> QED BY <1>2, <1>3, <2>1
  <1>6. ASSUME NEW p \in 1 .. Len(z) PROVE s[Len(x) + Len(y) + p] = z[p]
    <2>1. /\ Len(x) + Len(y) + p \in 1 .. Len(xy) + Len(z)
          /\ ~ (Len(x) + Len(y) + p <= Len(xy)) /\ (Len(x) + Len(y) + p) - Len(xy) = p
      BY <1>1, <1>2
    <2> QED BY <1>2, <1>3, <2>1
  <1>7. Len(s) = Len(x) + Len(y) + Len(z) /\ s \in Seq(T)
    BY <1>1, <1>2, <1>3
  <1>8. Slice(s, 0, Len(x)) = x
    <2>1. 0 + Len(x) = Len(x) /\ Len(x) <= Len(s) /\ \A p \in 1 .. Len(x) : s[0 + p] = x[p]
      BY <1>1, <1>4, <1>7
    <2> QED BY <1>1, <1>7, <2>1, SliceIs
  <1>9. Slice(s, Len(x), Len(x) + Len(y)) = y
    <2>1. Len(x) + Len(y) \in Nat /\ Len(x) + Len(y) <= Len(s)
      BY <1>1, <1>7
    <2> QED BY <1>1, <1>5, <1>7, <2>1, SliceIs
  <1>10. Slice(s, Len(x) + Len(y), Len(s)) = z
    <2>1. /\ Len(x) + Len(y) \in Nat /\ Len(s) \in Nat /\ Len(s) <= Len(s)
          /\ Len(x) + Len(y) + Len(z) = Len(s)
      BY <1>1, <1>7
    <2> QED BY <1>6, <1>7, <2>1, SliceIs
  <1> QED BY <1>4, <1>5, <1>6, <1>7, <1>8, <1>9, <1>10 DEF s, xy, MadeOf

-----------------------------------------------------------------------------
(* Documents of lines and their texts.  A body is a text in which the last *)
(* line has its delimiter too: bodies add up where documents do.           *)

Delimiter(D) == D \in {<<LF>>, <<CR, LF>>}

Symbols(D) == Letters \union {D[i] : i \in 1 .. Len(D)}

TextFrom(lines, D) ==
    CHOOSE text : text = [i \in 1 .. Len(lines) |->
                            IF i = 1 THEN lines[1] ELSE text[i - 1] \o D \o lines[i]]

Body(lines, D) == IF lines = <<>> THEN <<>> ELSE Text(lines, D) \o D

LEMMA DelimiterType ==
    ASSUME NEW D, Delimiter(D)
    PROVE  /\ D \in Seq(Symbols(D)) /\ Len(D) \in {1, 2} /\ D[Len(D)] = LF
           /\ Letters \subseteq Symbols(D) /\ LF \in Symbols(D)
  BY DEF Delimiter, Symbols

LEMMA LineType ==
    ASSUME NEW D, NEW x \in TextLines
    PROVE  x \in Seq(Symbols(D))
  BY SeqMonotonic DEF TextLines, Symbols

LEMMA TextEquations ==
    ASSUME NEW D, NEW Items, NEW lines \in Seq(Items)
    PROVE  \A i \in 1 .. Len(lines) :
              TextFrom(lines, D)[i] = IF i = 1 THEN lines[1] ELSE TextFrom(lines, D)[i - 1] \o D \o lines[i]
  <1> DEFINE n == Len(lines)
             Good(k, f) == f = [i \in 1 .. k |-> IF i = 1 THEN lines[1] ELSE f[i - 1] \o D \o lines[i]]
             S == {k \in Nat : \E f : Good(k, f)}
  <1>1. n \in Nat
    OBVIOUS
  <1>2. TextFrom(lines, D) = CHOOSE f : Good(n, f)
    BY DEF TextFrom
  <1> HIDE DEF n
  <1>3. 0 \in S
    <2> DEFINE f == [i \in 1 .. 0 |-> <<>>]
    <2>1. Good(0, f)
      OBVIOUS
    <2> HIDE DEF Good, f
    <2> QED BY <2>1
  <1>4. ASSUME NEW k \in Nat, k \in S PROVE k + 1 \in S
    <2>1. PICK f : Good(k, f)
      BY <1>4
    <2> DEFINE g == [i \in 1 .. k + 1 |->
                       IF i <= k THEN f[i] ELSE IF i = 1 THEN lines[1] ELSE f[i - 1] \o D \o lines[i]]
    <2>2. \A i \in 1 .. k : g[i] = f[i]
      OBVIOUS
    <2>3. ASSUME NEW i \in 1 .. k + 1
          PROVE  g[i] = IF i = 1 THEN lines[1] ELSE g[i - 1] \o D \o lines[i]
      <3>1. i # 1 => i - 1 \in 1 .. k
        OBVIOUS
      <3>2. i # 1 => g[i - 1] = f[i - 1]
        BY <2>2, <3>1
      <3>3. CASE i <= k
        <4>0. i \in 1 .. k
          BY <3>3
        <4>1. f[i] = IF i = 1 THEN lines[1] ELSE f[i - 1] \o D \o lines[i]
          BY <2>1, <4>0
        <4>2. g[i] = f[i]
          BY <2>2, <3>3
        <4> HIDE DEF g
        <4> QED BY <3>2, <4>1, <4>2
      <3>4. CASE ~ (i <= k)
        <4>1. g[i] = IF i = 1 THEN lines[1] ELSE f[i - 1] \o D \o lines[i]
          BY <3>4
        <4> HIDE DEF g
        <4> QED BY <3>2, <4>1
      <3> QED BY <3>3, <3>4
    <2>4. Good(k + 1, g)
      BY <2>3
    <2> HIDE DEF Good, g
    <2> QED BY <2>4
  <1>5. n \in S
    <2> HIDE DEF S
    <2> QED BY <1>1, <1>3, <1>4, CountUp
  <1> DEFINE text == TextFrom(lines, D)
  <1>6. Good(n, text)
    <2>1. \E f : Good(n, f)
      BY <1>5
    <2> HIDE DEF Good
    <2> QED BY <1>2, <2>1
  <1> HIDE DEF text
  <1>7. \A i \in 1 .. n : text[i] = IF i = 1 THEN lines[1] ELSE text[i - 1] \o D \o lines[i]
    BY <1>6
  <1> QED BY <1>7 DEF n, text

LEMMA TextAppend ==
    ASSUME NEW D, NEW Items, NEW lines \in Seq(Items), NEW x \in Items
    PROVE  /\ Text(<<>>, D) = <<>>
           /\ Text(Append(lines, x), D) = IF lines = <<>> THEN x ELSE Text(lines, D) \o D \o x
  <1> DEFINE n == Len(lines)
             longer == Append(lines, x)
             old == TextFrom(lines, D)
             new == TextFrom(longer, D)
             S == {i \in Nat : i \in 1 .. n => new[i] = old[i]}
  <1>1. n \in Nat /\ (lines = <<>> <=> n = 0)
    BY EmptySeq
  <1>2. /\ longer \in Seq(Items) /\ longer # <<>> /\ Len(longer) = n + 1
        /\ \A i \in 1 .. n : longer[i] = lines[i]
        /\ longer[n + 1] = x
    BY AppendProperties
  <1> HIDE DEF n, longer
  <1>3. \A i \in 1 .. n : old[i] = IF i = 1 THEN lines[1] ELSE old[i - 1] \o D \o lines[i]
    BY TextEquations DEF n
  <1>4. \A i \in 1 .. n + 1 : new[i] = IF i = 1 THEN longer[1] ELSE new[i - 1] \o D \o longer[i]
    BY <1>2, TextEquations
  <1> HIDE DEF old, new
  <1>5. 0 \in S
    OBVIOUS
  <1>6. ASSUME NEW k \in Nat, k \in S PROVE k + 1 \in S
    <2> SUFFICES ASSUME k + 1 \in 1 .. n PROVE new[k + 1] = old[k + 1]
      OBVIOUS
    <2>1. k + 1 \in 1 .. n + 1 /\ longer[k + 1] = lines[k + 1] /\ (k + 1) - 1 = k
      BY <1>1, <1>2
    <2>2. CASE k = 0
      BY <1>2, <1>3, <1>4, <2>1, <2>2
    <2>3. CASE k # 0
      <3>1. k \in 1 .. n /\ k + 1 # 1
        BY <1>1, <2>3
      <3>2. new[k] = old[k]
        BY <1>6, <3>1
      <3>3. new[k + 1] = new[k] \o D \o longer[k + 1] /\ old[k + 1] = old[k] \o D \o lines[k + 1]
        BY <1>3, <1>4, <2>1, <3>1
      <3> QED BY <2>1, <3>2, <3>3
    <2> QED BY <2>2, <2>3
  <1>7. Nat \subseteq S
    <2> HIDE DEF S
    <2> QED BY <1>5, <1>6, CountUp
  <1>8. Text(longer, D) = new[n + 1]
    BY <1>2 DEF Text, TextFrom, new
  <1>9. lines # <<>> => Text(lines, D) = old[n]
    BY DEF Text, TextFrom, old, n
  <1>10. Text(<<>>, D) = <<>>
    BY DEF Text
  <1>11. CASE lines = <<>>
    <2>1. new[n + 1] = x
      BY <1>1, <1>2, <1>4, <1>11
    <2> QED BY <1>8, <1>10, <1>11, <2>1 DEF longer
  <1>12. CASE lines # <<>>
    <2>1. n + 1 \in 1 .. n + 1 /\ n + 1 # 1 /\ (n + 1) - 1 = n /\ n \in 1 .. n
      BY <1>1, <1>12
    <2>2. new[n + 1] = new[n] \o D \o x
      BY <1>2, <1>4, <2>1
    <2>3. new[n] = old[n]
      BY <1>7, <2>1
    <2> QED BY <1>8, <1>9, <1>10, <1>12, <2>2, <2>3 DEF longer
  <1> QED BY <1>11, <1>12

LEMMA BodyAppend ==
    ASSUME NEW D, NEW lines \in Seq(TextLines), NEW x \in TextLines
    PROVE  /\ Text(Append(lines, x), D) = Body(lines, D) \o x
           /\ Body(Append(lines, x), D) = Body(lines, D) \o x \o D
           /\ Body(<<>>, D) = <<>>
  <1>1. Text(Append(lines, x), D) = IF lines = <<>> THEN x ELSE Text(lines, D) \o D \o x
    BY TextAppend
  <1>2. Body(<<>>, D) = <<>>
    BY DEF Body
  <1>3. <<>> \o x = x
    BY ConcatEmptySeq DEF TextLines
  <1>4. Text(Append(lines, x), D) = Body(lines, D) \o x
    BY <1>1, <1>3 DEF Body
  <1>5. Append(lines, x) # <<>>
    BY AppendProperties
  <1>6. Body(Append(lines, x), D) = Text(Append(lines, x), D) \o D
    BY <1>5 DEF Body
  <1> QED BY <1>2, <1>4, <1>6

LEMMA TextSymbols ==
    ASSUME NEW D, Delimiter(D), NEW lines \in Seq(TextLines)
    PROVE  Text(lines, D) \in Seq(Symbols(D)) /\ Body(lines, D) \in Seq(Symbols(D))
  <1> DEFINE T == Seq(Symbols(D))
             S == {s \in Seq(TextLines) : Text(s, D) \in T /\ Body(s, D) \in T}
  <1>1. D \in T /\ <<>> \in T
    BY DelimiterType, EmptySeq
  <1>2. <<>> \in S
    <2>1. Text(<<>>, D) = <<>> /\ Body(<<>>, D) = <<>>
      BY DEF Text, Body
    <2> QED BY <1>1, <2>1, EmptySeq
  <1>3. ASSUME NEW s \in Seq(TextLines), NEW x \in TextLines, s \in S PROVE Append(s, x) \in S
    <2>1. Append(s, x) \in Seq(TextLines)
      BY AppendProperties
    <2>2. Body(s, D) \in T /\ x \in T
      BY <1>3, LineType
    <2>3. Body(s, D) \o x \in T
      BY <2>2, ConcatProperties
    <2>4. Body(s, D) \o x \o D \in T
      BY <1>1, <2>3, ConcatProperties
    <2> HIDE DEF T
    <2> QED BY <2>1, <2>3, <2>4, BodyAppend
  <1>4. Seq(TextLines) \subseteq S
    <2> HIDE DEF S
    <2> QED BY <1>2, <1>3, SequenceInduction
  <1>5. lines \in S
    BY <1>4
  <1> QED BY <1>5

LEMMA TextJoin ==
    ASSUME NEW D, Delimiter(D), NEW upper \in Seq(TextLines), NEW lower \in Seq(TextLines)
    PROVE  /\ upper \o lower \in Seq(TextLines)
           /\ Body(upper \o lower, D) = Body(upper, D) \o Body(lower, D)
           /\ lower # <<>> => Text(upper \o lower, D) = Body(upper, D) \o Text(lower, D)
  <1> DEFINE T == Seq(Symbols(D))
             S == {s \in Seq(TextLines) :
                     /\ Body(upper \o s, D) = Body(upper, D) \o Body(s, D)
                     /\ s # <<>> => Text(upper \o s, D) = Body(upper, D) \o Text(s, D)}
  <1>1. Body(upper, D) \in T /\ D \in T
    <2>1. Body(upper, D) \in T
      BY TextSymbols
    <2>2. D \in T
      BY DelimiterType
    <2> QED BY <2>1, <2>2
  <1>2. <<>> \in S
    <2>1. upper \o <<>> = upper /\ Body(upper, D) \o <<>> = Body(upper, D)
      BY <1>1, ConcatEmptySeq
    <2>2. Body(<<>>, D) = <<>> /\ <<>> \in Seq(TextLines)
      BY EmptySeq DEF Body
    <2> QED BY <2>1, <2>2
  <1>3. ASSUME NEW s \in Seq(TextLines), NEW x \in TextLines, s \in S PROVE Append(s, x) \in S
    <2> DEFINE b == Body(upper, D)
               c == Body(s, D)
    <2>1. upper \o s \in Seq(TextLines) /\ Append(s, x) \in Seq(TextLines) /\ x \in T /\ c \in T /\ b \in T
      <3>1. upper \o s \in Seq(TextLines) /\ Append(s, x) \in Seq(TextLines)
        BY ConcatProperties, AppendProperties
      <3>2. x \in T
        BY LineType
      <3>3. c \in T
        BY TextSymbols
      <3> QED BY <1>1, <3>1, <3>2, <3>3
    <2>2. upper \o Append(s, x) = Append(upper \o s, x)
      <3>1. <<x>> \in Seq(TextLines)
        OBVIOUS
      <3>2. Append(s, x) = s \o <<x>> /\ Append(upper \o s, x) = (upper \o s) \o <<x>>
        BY <2>1, AppendIsConcat
      <3>3. (upper \o s) \o <<x>> = upper \o (s \o <<x>>)
        BY SMTT(30), <3>1, ConcatAssociative
      <3> QED BY <3>2, <3>3
    <2>3. Text(Append(upper \o s, x), D) = Body(upper \o s, D) \o x
      BY <2>1, BodyAppend
    <2>4. Body(Append(upper \o s, x), D) = Body(upper \o s, D) \o x \o D
      BY <2>1, BodyAppend
    <2>5. Text(Append(s, x), D) = c \o x /\ Body(Append(s, x), D) = c \o x \o D
      BY BodyAppend
    <2>6. Body(upper \o s, D) = b \o c
      BY <1>3
    <2> HIDE DEF b, c, T
    <2>7. (b \o c) \o x = b \o (c \o x)
      BY SMTT(30), <2>1, ConcatAssociative DEF T
    <2>8. (b \o (c \o x)) \o D = b \o ((c \o x) \o D)
      <3> DEFINE cx == c \o x
      <3>1. cx \in Seq(Symbols(D)) /\ b \in Seq(Symbols(D)) /\ D \in Seq(Symbols(D))
        BY <1>1, <2>1, ConcatProperties DEF T
      <3> HIDE DEF cx
      <3>2. (b \o cx) \o D = b \o (cx \o D)
        BY SMTT(30), <3>1, ConcatAssociative
      <3> QED BY <3>2 DEF cx
    <2>9. Text(upper \o Append(s, x), D) = b \o Text(Append(s, x), D)
      BY <2>2, <2>3, <2>5, <2>6, <2>7
    <2>10. Body(upper \o Append(s, x), D) = b \o Body(Append(s, x), D)
      BY <2>2, <2>4, <2>5, <2>6, <2>7, <2>8
    <2> QED BY <2>1, <2>9, <2>10 DEF b
  <1>4. Seq(TextLines) \subseteq S
    <2> HIDE DEF S
    <2> QED BY <1>2, <1>3, SequenceInduction
  <1>5. upper \o lower \in Seq(TextLines)
    BY ConcatProperties
  <1> QED BY <1>4, <1>5

-----------------------------------------------------------------------------
(* Counting line feeds. *)

LEMMA LineFeedsOfNone ==
    ASSUME NEW T, NEW text \in Seq(T), \A i \in 1 .. Len(text) : text[i] # LF
    PROVE  LineFeeds(text) = 0
  <1>1. {i \in DOMAIN text : text[i] = LF} = {}
    BY LenProperties
  <1> QED BY <1>1, FS_EmptySet DEF LineFeeds

LEMMA NoLineFeeds == LineFeeds(<<>>) = 0
  <1>1. <<>> \in Seq(Letters) /\ Len(<<>>) = 0
    BY EmptySeq
  <1>2. \A i \in 1 .. Len(<<>>) : <<>>[i] # LF
    BY <1>1
  <1> QED BY <1>1, <1>2, LineFeedsOfNone

LEMMA LineFeedsAppend ==
    ASSUME NEW T, NEW text \in Seq(T), NEW x \in T
    PROVE  /\ LineFeeds(text) \in Nat
           /\ LineFeeds(Append(text, x)) = LineFeeds(text) + IF x = LF THEN 1 ELSE 0
  <1> DEFINE n == Len(text)
             longer == Append(text, x)
             old == {i \in 1 .. n : text[i] = LF}
             new == {i \in 1 .. n + 1 : longer[i] = LF}
  <1>1. n \in Nat /\ DOMAIN text = 1 .. n
    BY LenProperties
  <1>2. /\ longer \in Seq(T) /\ Len(longer) = n + 1
        /\ \A i \in 1 .. n : longer[i] = text[i]
        /\ longer[n + 1] = x
    BY AppendProperties
  <1>3. DOMAIN longer = 1 .. n + 1
    <2> HIDE DEF longer
    <2> QED BY <1>2, LenProperties
  <1> HIDE DEF n, longer
  <1>4. IsFiniteSet(old) /\ n + 1 \notin old
    <2>1. IsFiniteSet(1 .. n) /\ old \in SUBSET (1 .. n)
      BY <1>1, FS_Interval
    <2> QED BY <1>1, <2>1, FS_Subset
  <1>5. new = IF x = LF THEN old \union {n + 1} ELSE old
    <2>1. \A i : i \in 1 .. n + 1 <=> (i \in 1 .. n \/ i = n + 1)
      BY <1>1
    <2> QED BY <1>1, <1>2, <2>1
  <1>6. LineFeeds(text) = Cardinality(old) /\ LineFeeds(longer) = Cardinality(new)
    BY <1>1, <1>3 DEF LineFeeds
  <1> HIDE DEF old, new
  <1>7. Cardinality(old) \in Nat
    BY <1>4, FS_CardinalityType
  <1>8. Cardinality(new) = Cardinality(old) + IF x = LF THEN 1 ELSE 0
    <2>1. Cardinality(old \union {n + 1}) = Cardinality(old) + 1
      BY <1>4, FS_AddElement
    <2> QED BY <1>5, <1>7, <2>1
  <1> QED BY <1>6, <1>7, <1>8 DEF longer

LEMMA LineFeedsJoin ==
    ASSUME NEW T, NEW upper \in Seq(T), NEW lower \in Seq(T)
    PROVE  /\ LineFeeds(lower) \in Nat
           /\ LineFeeds(upper \o lower) = LineFeeds(upper) + LineFeeds(lower)
  <1> DEFINE S == {s \in Seq(T) : /\ LineFeeds(s) \in Nat
                                  /\ LineFeeds(upper \o s) = LineFeeds(upper) + LineFeeds(s)}
  <1>1. LineFeeds(<<>>) = 0
    BY NoLineFeeds
  <1>2. LineFeeds(upper) \in Nat
    <2>1. CASE upper = <<>>
      BY <1>1, <2>1
    <2>2. CASE upper # <<>>
      <3>1. upper[1] \in T
        BY <2>2, EmptySeq, ElementOfSeq
      <3> QED BY <3>1, LineFeedsAppend
    <2> QED BY <2>1, <2>2
  <1>3. <<>> \in S
    <2>1. upper \o <<>> = upper
      BY ConcatEmptySeq
    <2> QED BY <1>1, <1>2, <2>1, EmptySeq
  <1>4. ASSUME NEW s \in Seq(T), NEW x \in T, s \in S PROVE Append(s, x) \in S
    <2>1. upper \o s \in Seq(T) /\ Append(s, x) \in Seq(T)
      BY ConcatProperties, AppendProperties
    <2>2. upper \o Append(s, x) = Append(upper \o s, x)
      <3>1. <<x>> \in Seq(T)
        OBVIOUS
      <3>2. Append(s, x) = s \o <<x>> /\ Append(upper \o s, x) = (upper \o s) \o <<x>>
        BY <2>1, AppendIsConcat
      <3>3. (upper \o s) \o <<x>> = upper \o (s \o <<x>>)
        BY <3>1, ConcatAssociative
      <3> QED BY <3>2, <3>3
    <2>3. LineFeeds(Append(upper \o s, x)) = LineFeeds(upper \o s) + IF x = LF THEN 1 ELSE 0
      BY <2>1, LineFeedsAppend
    <2>4. LineFeeds(s) \in Nat /\ LineFeeds(Append(s, x)) = LineFeeds(s) + IF x = LF THEN 1 ELSE 0
      BY LineFeedsAppend
    <2>5. LineFeeds(upper \o s) = LineFeeds(upper) + LineFeeds(s)
      BY <1>4
    <2>6. LineFeeds(Append(s, x)) \in Nat
      BY <2>4
    <2>7. LineFeeds(upper \o Append(s, x)) = LineFeeds(upper) + LineFeeds(Append(s, x))
      BY <1>2, <2>2, <2>3, <2>4, <2>5
    <2> QED BY <2>1, <2>6, <2>7
  <1>5. Seq(T) \subseteq S
    <2> HIDE DEF S
    <2> QED BY <1>3, <1>4, SequenceInduction
  <1> QED BY <1>5

LEMMA LineFeedsOfDelimiter ==
    ASSUME NEW D, Delimiter(D)
    PROVE  LineFeeds(D) = 1
  <1>1. CASE D = <<LF>>
    <2>1. {i \in DOMAIN D : D[i] = LF} = {1}
      BY <1>1
    <2> QED BY <2>1, FS_Singleton DEF LineFeeds
  <1>2. CASE D = <<CR, LF>>
    <2>1. {i \in DOMAIN D : D[i] = LF} = {2}
      BY <1>2 DEF CR, LF
    <2> QED BY <2>1, FS_Singleton DEF LineFeeds
  <1> QED BY <1>1, <1>2 DEF Delimiter

LEMMA LineFeedsOfLine ==
    ASSUME NEW x \in TextLines
    PROVE  LineFeeds(x) = 0
  <1>1. x \in Seq(Letters)
    BY DEF TextLines
  <1>2. \A i \in 1 .. Len(x) : x[i] # LF
    BY <1>1, TextAssumption, ElementOfSeq
  <1> QED BY <1>1, <1>2, LineFeedsOfNone

(* A text has one line feed less than lines. *)
LEMMA LineFeedsOfText ==
    ASSUME NEW D, Delimiter(D), NEW lines \in Seq(TextLines)
    PROVE  /\ LineFeeds(Body(lines, D)) = Len(lines)
           /\ lines # <<>> => LineFeeds(Text(lines, D)) = Len(lines) - 1
  <1> DEFINE T == Symbols(D)
             S == {s \in Seq(TextLines) :
                     /\ LineFeeds(Body(s, D)) = Len(s)
                     /\ s # <<>> => LineFeeds(Text(s, D)) = Len(s) - 1}
  <1>1. <<>> \in S
    <2>1. LineFeeds(<<>>) = 0
      BY NoLineFeeds
    <2>2. Body(<<>>, D) = <<>> /\ <<>> \in Seq(TextLines) /\ Len(<<>>) = 0
      BY EmptySeq DEF Body
    <2> QED BY <2>1, <2>2
  <1>2. ASSUME NEW s \in Seq(TextLines), NEW x \in TextLines, s \in S PROVE Append(s, x) \in S
    <2> DEFINE b == Body(s, D)
    <2>1. Append(s, x) \in Seq(TextLines) /\ Len(Append(s, x)) = Len(s) + 1 /\ Len(s) \in Nat
      BY AppendProperties, LenProperties
    <2>2. b \in Seq(T) /\ x \in Seq(T) /\ D \in Seq(T)
      <3>1. b \in Seq(T)
        BY TextSymbols
      <3>2. x \in Seq(T)
        BY LineType
      <3>3. D \in Seq(T)
        BY DelimiterType
      <3> QED BY <3>1, <3>2, <3>3
    <2>3. Text(Append(s, x), D) = b \o x /\ Body(Append(s, x), D) = b \o x \o D
      BY BodyAppend
    <2>4. LineFeeds(b) = Len(s)
      BY <1>2
    <2> HIDE DEF b, T
    <2> DEFINE bx == b \o x
    <2>5. bx \in Seq(T) /\ LineFeeds(bx) = Len(s) + 0
      BY <2>2, <2>4, ConcatProperties, LineFeedsJoin, LineFeedsOfLine
    <2> HIDE DEF bx
    <2>6. LineFeeds(bx \o D) = Len(s) + 0 + 1
      <3>1. LineFeeds(bx \o D) = LineFeeds(bx) + LineFeeds(D)
        BY <2>2, <2>5, LineFeedsJoin
      <3> QED BY <2>5, <3>1, LineFeedsOfDelimiter
    <2>7. Len(s) + 0 = Len(Append(s, x)) - 1 /\ Len(s) + 0 + 1 = Len(Append(s, x))
      BY <2>1
    <2>8. LineFeeds(Text(Append(s, x), D)) = Len(Append(s, x)) - 1
      BY <2>3, <2>5, <2>7 DEF bx
    <2>9. LineFeeds(Body(Append(s, x), D)) = Len(Append(s, x))
      BY <2>3, <2>6, <2>7 DEF bx
    <2> QED BY <2>1, <2>8, <2>9
  <1>3. Seq(TextLines) \subseteq S
    <2> HIDE DEF S
    <2> QED BY <1>1, <1>2, SequenceInduction
  <1> QED BY <1>3

-----------------------------------------------------------------------------
(* Where the lines of a document are in its text. *)

(* What follows a line: the other lines, after a delimiter. *)
Rest(lines, D) == IF lines = <<>> THEN <<>> ELSE D \o Text(lines, D)

(* The offset at which the line after line i starts. *)
Offset(lines, D, i) == Len(Body(SubSeq(lines, 1, i), D))

LEMMA RestSymbols ==
    ASSUME NEW D, Delimiter(D), NEW lines \in Seq(TextLines)
    PROVE  Rest(lines, D) \in Seq(Symbols(D))
  <1>1. <<>> \in Seq(Symbols(D))
    BY EmptySeq
  <1>2. D \o Text(lines, D) \in Seq(Symbols(D))
    BY DelimiterType, TextSymbols, ConcatProperties
  <1> QED BY <1>1, <1>2 DEF Rest

LEMMA TextSplit ==
    ASSUME NEW D, Delimiter(D), NEW upper \in Seq(TextLines), NEW lower \in Seq(TextLines), upper # <<>>
    PROVE  Text(upper \o lower, D) = Text(upper, D) \o Rest(lower, D)
  <1>1. Text(upper, D) \in Seq(Symbols(D)) /\ Text(lower, D) \in Seq(Symbols(D)) /\ D \in Seq(Symbols(D))
    <2>1. Text(upper, D) \in Seq(Symbols(D)) /\ Text(lower, D) \in Seq(Symbols(D))
      BY TextSymbols
    <2> QED BY <2>1, DelimiterType
  <1>2. CASE lower = <<>>
    <2>1. upper \o <<>> = upper /\ Text(upper, D) \o <<>> = Text(upper, D)
      BY <1>1, ConcatEmptySeq
    <2> QED BY <1>2, <2>1 DEF Rest
  <1>3. CASE lower # <<>>
    <2>1. Text(upper \o lower, D) = Body(upper, D) \o Text(lower, D)
      BY <1>3, TextJoin
    <2>2. (Text(upper, D) \o D) \o Text(lower, D) = Text(upper, D) \o (D \o Text(lower, D))
      BY <1>1, ConcatAssociative
    <2> QED BY <1>3, <2>1, <2>2 DEF Rest, Body
  <1> QED BY <1>2, <1>3

LEMMA TextCut ==
    ASSUME NEW D, Delimiter(D), NEW upper \in Seq(TextLines), NEW middle \in Seq(TextLines),
           NEW lower \in Seq(TextLines), middle # <<>>
    PROVE  Text(upper \o middle \o lower, D) = Body(upper, D) \o Text(middle, D) \o Rest(lower, D)
  <1>1. upper \o middle \in Seq(TextLines) /\ upper \o middle # <<>>
    BY ConcatProperties, ConcatSimplifications
  <1>2. Text(upper \o middle, D) = Body(upper, D) \o Text(middle, D)
    BY TextJoin
  <1>3. Text((upper \o middle) \o lower, D) = Text(upper \o middle, D) \o Rest(lower, D)
    BY <1>1, TextSplit
  <1> QED BY <1>2, <1>3

(* A document cut after lines a and b. *)
CutAt(Items, lines, a, b, upper, middle, lower) ==
    /\ upper \in Seq(Items) /\ middle \in Seq(Items) /\ lower \in Seq(Items)
    /\ Len(upper) = a /\ Len(middle) = b - a /\ Len(lower) = Len(lines) - b
    /\ (upper = <<>> <=> a = 0) /\ (middle = <<>> <=> a = b) /\ (lower = <<>> <=> b = Len(lines))
    /\ upper \o middle = SubSeq(lines, 1, b)
    /\ lines = upper \o middle \o lower

LEMMA CutLines ==
    ASSUME NEW Items, NEW lines \in Seq(Items), NEW a \in Nat, NEW b \in Nat, a <= b, b <= Len(lines)
    PROVE  CutAt(Items, lines, a, b, SubSeq(lines, 1, a), SubSeq(lines, a + 1, b), SubSeq(lines, b + 1, Len(lines)))
  <1> DEFINE n == Len(lines)
             upper  == SubSeq(lines, 1, a)
             middle == SubSeq(lines, a + 1, b)
             lower  == SubSeq(lines, b + 1, n)
  <1>1. n \in Nat /\ a \in 0 .. n /\ b \in a .. n /\ \A i \in 1 .. n : lines[i] \in Items
    BY LenProperties, ElementOfSeq
  <1>2. upper \in Seq(Items) /\ Len(upper) = a
    <2>1. \A i \in 1 .. a : lines[i] \in Items
      BY <1>1
    <2> QED BY <1>1, <2>1, SubSeqProperties
  <1>3. middle \in Seq(Items) /\ Len(middle) = b - a
    <2>1. \A i \in a + 1 .. b : lines[i] \in Items
      BY <1>1
    <2> QED BY <1>1, <2>1, SubSeqProperties
  <1>4. lower \in Seq(Items) /\ Len(lower) = n - b
    <2>1. \A i \in b + 1 .. n : lines[i] \in Items
      BY <1>1
    <2> QED BY <1>1, <2>1, SubSeqProperties
  <1>5. upper \o middle = SubSeq(lines, 1, b)
    <2>1. 1 \in 1 .. n + 1 /\ a \in 1 - 1 .. n /\ b \in a .. n
      BY <1>1
    <2> QED BY <2>1, ConcatAdjacentSubSeq
  <1>6. SubSeq(lines, 1, b) \o lower = lines
    <2>1. 1 \in 1 .. n + 1 /\ b \in 1 - 1 .. n /\ n \in b .. n
      BY <1>1
    <2>2. SubSeq(lines, 1, b) \o lower = SubSeq(lines, 1, n)
      BY <2>1, ConcatAdjacentSubSeq
    <2> QED BY <2>2, SubSeqFull
  <1>8. lines = upper \o middle \o lower
    BY <1>5, <1>6
  <1> HIDE DEF upper, middle, lower, n
  <1>7. (upper = <<>> <=> a = 0) /\ (middle = <<>> <=> a = b) /\ (lower = <<>> <=> b = n)
    <2>1. \A s \in Seq(Items) : s = <<>> <=> Len(s) = 0
      BY EmptySeq
    <2> QED BY <1>1, <1>2, <1>3, <1>4, <2>1
  <1>9. /\ upper \in Seq(Items) /\ middle \in Seq(Items) /\ lower \in Seq(Items)
        /\ Len(upper) = a /\ Len(middle) = b - a /\ Len(lower) = n - b
    BY <1>2, <1>3, <1>4
  <1> QED BY <1>5, <1>7, <1>8, <1>9 DEF n, upper, middle, lower, CutAt

LEMMA OffsetsGrow ==
    ASSUME NEW D, Delimiter(D), NEW lines \in Seq(TextLines), NEW a \in 0 .. Len(lines), NEW b \in a + 1 .. Len(lines)
    PROVE  /\ Len(Text(SubSeq(lines, a + 1, b), D)) \in Nat
           /\ Offset(lines, D, a) + Len(Text(SubSeq(lines, a + 1, b), D)) + Len(D) = Offset(lines, D, b)
           /\ Len(Body(SubSeq(lines, a + 1, b), D)) = Len(Text(SubSeq(lines, a + 1, b), D)) + Len(D)
  <1> DEFINE upper  == SubSeq(lines, 1, a)
             middle == SubSeq(lines, a + 1, b)
             text == Text(middle, D)
  <1>1. a \in Nat /\ b \in Nat /\ a <= b /\ b <= Len(lines) /\ a # b
    OBVIOUS
  <1>2. /\ upper \in Seq(TextLines) /\ middle \in Seq(TextLines) /\ middle # <<>>
        /\ upper \o middle = SubSeq(lines, 1, b)
    BY <1>1, CutLines DEF CutAt
  <1> HIDE DEF upper, middle
  <1>3. Body(upper \o middle, D) = Body(upper, D) \o Body(middle, D)
    BY <1>2, TextJoin
  <1>4. Body(upper, D) \in Seq(Symbols(D)) /\ Body(middle, D) \in Seq(Symbols(D)) /\ text \in Seq(Symbols(D))
    BY <1>2, TextSymbols
  <1>5. Body(middle, D) = text \o D
    BY <1>2 DEF Body
  <1> HIDE DEF text
  <1>6. Len(Body(upper \o middle, D)) = Len(Body(upper, D)) + Len(Body(middle, D))
    BY <1>3, <1>4, ConcatProperties
  <1>7. Len(Body(middle, D)) = Len(text) + Len(D)
    BY <1>4, <1>5, DelimiterType, ConcatProperties
  <1>8. Len(Body(upper, D)) \in Nat /\ Len(text) \in Nat /\ Len(D) \in Nat
    BY <1>4, DelimiterType, LenProperties
  <1>9. Offset(lines, D, a) = Len(Body(upper, D)) /\ Offset(lines, D, b) = Len(Body(upper \o middle, D))
    BY <1>2 DEF Offset, upper
  <1>10. Len(Body(upper, D)) + Len(text) + Len(D) = Len(Body(upper \o middle, D))
    BY <1>6, <1>7, <1>8
  <1> QED BY <1>7, <1>8, <1>9, <1>10 DEF text, middle

(* The offsets of a document, as far as the arithmetic below needs them. *)
LEMMA Offsets ==
    ASSUME NEW D, Delimiter(D), NEW lines \in Seq(TextLines)
    PROVE  /\ Len(D) \in {1, 2} /\ Len(lines) \in Nat
           /\ \A i \in 0 .. Len(lines) : Offset(lines, D, i) \in Nat
           /\ Offset(lines, D, 0) = 0
           /\ \A i \in 1 .. Len(lines) :
                 /\ lines[i] \in Seq(Symbols(D)) /\ Len(lines[i]) \in Nat
                 /\ Offset(lines, D, i) = Offset(lines, D, i - 1) + Len(lines[i]) + Len(D)
           /\ \A i, j \in 0 .. Len(lines) : i < j => Offset(lines, D, i) + Len(D) <= Offset(lines, D, j)
           /\ lines # <<>> => Len(Text(lines, D)) = Offset(lines, D, Len(lines)) - Len(D)
  <1> DEFINE n == Len(lines)
             off(i) == Offset(lines, D, i)
  <1>1. n \in Nat /\ Len(D) \in {1, 2}
    BY LenProperties, DelimiterType
  <1>2. ASSUME NEW i \in 0 .. n PROVE off(i) \in Nat
    <2>1. SubSeq(lines, 1, i) \in Seq(TextLines)
      <3>1. i \in Nat /\ i <= i /\ i <= Len(lines)
        BY <1>1
      <3> QED BY <3>1, CutLines DEF CutAt
    <2>2. Body(SubSeq(lines, 1, i), D) \in Seq(Symbols(D))
      BY <2>1, TextSymbols
    <2> QED BY <2>2, LenProperties DEF Offset
  <1>3. off(0) = 0
    <2>1. SubSeq(lines, 1, 0) = <<>>
      BY SubSeqEmpty
    <2> QED BY <2>1, EmptySeq DEF Offset, Body
  <1>4. ASSUME NEW i \in 1 .. n
        PROVE  /\ lines[i] \in Seq(Symbols(D)) /\ Len(lines[i]) \in Nat
               /\ off(i) = off(i - 1) + Len(lines[i]) + Len(D)
    <2>1. lines[i] \in TextLines
      BY ElementOfSeq
    <2>2. lines[i] \in Seq(Symbols(D))
      BY <2>1, LineType
    <2>3. SubSeq(lines, i, i) = Append(<<>>, lines[i])
      <3>1. i \in 1 .. Len(lines) /\ i \in i .. Len(lines) /\ i < i + 1 /\ i \in Int /\ i + 1 \in Int
        BY <1>1
      <3>2. SubSeq(lines, i, i) = <<lines[i]>> \o SubSeq(lines, i + 1, i)
        BY <3>1, SubSeqRecursiveFirst
      <3>3. SubSeq(lines, i + 1, i) = <<>>
        BY <3>1, SubSeqEmpty
      <3>4. <<lines[i]>> \in Seq(TextLines) /\ <<>> \in Seq(TextLines)
        BY <2>1
      <3>5. <<lines[i]>> \o <<>> = <<lines[i]>> /\ Append(<<>>, lines[i]) = <<>> \o <<lines[i]>> /\ <<>> \o <<lines[i]>> = <<lines[i]>>
        BY <2>1, <3>4, ConcatEmptySeq, AppendIsConcat
      <3> QED BY <3>2, <3>3, <3>5
    <2>4. Text(SubSeq(lines, i, i), D) = lines[i]
      BY <2>1, <2>3, TextAppend, EmptySeq
    <2>5. i - 1 \in 0 .. n /\ i \in (i - 1) + 1 .. n /\ (i - 1) + 1 = i
      BY <1>1
    <2>6. off(i - 1) + Len(Text(SubSeq(lines, (i - 1) + 1, i), D)) + Len(D) = off(i)
      BY <2>5, OffsetsGrow
    <2> QED BY <2>2, <2>4, <2>5, <2>6, LenProperties
  <1>5. ASSUME NEW i \in 0 .. n, NEW j \in 0 .. n, i < j
        PROVE  off(i) + Len(D) <= off(j)
    <2>1. j \in i + 1 .. n
      BY <1>1, <1>5
    <2>2. /\ Len(Text(SubSeq(lines, i + 1, j), D)) \in Nat
          /\ off(i) + Len(Text(SubSeq(lines, i + 1, j), D)) + Len(D) = off(j)
      BY <2>1, OffsetsGrow
    <2> HIDE DEF off
    <2> QED BY <1>1, <1>2, <2>2
  <1>6. ASSUME lines # <<>> PROVE Len(Text(lines, D)) = off(n) - Len(D)
    <2>1. 0 \in 0 .. n /\ n \in 0 + 1 .. n /\ n \in 0 .. n
      BY <1>1, <1>6, EmptySeq
    <2>2. /\ Len(Text(SubSeq(lines, 0 + 1, n), D)) \in Nat
          /\ off(0) + Len(Text(SubSeq(lines, 0 + 1, n), D)) + Len(D) = off(n)
      BY <2>1, OffsetsGrow
    <2>3. SubSeq(lines, 0 + 1, n) = lines
      BY SubSeqFull
    <2>4. Len(Text(lines, D)) \in Nat /\ 0 + Len(Text(lines, D)) + Len(D) = off(n)
      BY <1>3, <2>2, <2>3
    <2> HIDE DEF off, n
    <2>5. off(n) \in Nat
      BY <1>2, <2>1
    <2> QED BY <1>1, <2>4, <2>5
  <1>7. \A i \in 1 .. n : /\ lines[i] \in Seq(Symbols(D)) /\ Len(lines[i]) \in Nat
                          /\ off(i) = off(i - 1) + Len(lines[i]) + Len(D)
    BY <1>4
  <1>8. \A i, j \in 0 .. n : i < j => off(i) + Len(D) <= off(j)
    BY <1>5
  <1>9. \A i \in 0 .. n : off(i) \in Nat
    BY <1>2
  <1> HIDE DEF off, n
  <1>10. /\ Len(D) \in {1, 2} /\ n \in Nat
         /\ \A i \in 0 .. n : off(i) \in Nat
         /\ off(0) = 0
         /\ \A i \in 1 .. n : /\ lines[i] \in Seq(Symbols(D)) /\ Len(lines[i]) \in Nat
                            /\ off(i) = off(i - 1) + Len(lines[i]) + Len(D)
         /\ \A i, j \in 0 .. n : i < j => off(i) + Len(D) <= off(j)
         /\ lines # <<>> => Len(Text(lines, D)) = off(n) - Len(D)
    BY <1>1, <1>3, <1>6, <1>7, <1>8, <1>9
  <1> QED BY <1>10 DEF off, n

-----------------------------------------------------------------------------
(* What stands at those offsets. *)

LEMMA IsAtSymbols ==
    ASSUME NEW T, NEW base \in Seq(T), NEW part \in Seq(T), NEW o \in Int
    PROVE  IsAt(base, o, part) <=> /\ o \in Nat /\ o + Len(part) <= Len(base)
                                   /\ \A p \in 1 .. Len(part) : base[o + p] = part[p]
  <1>1. Len(base) \in Nat /\ Len(part) \in Nat
    BY LenProperties
  <1>2. ASSUME IsAt(base, o, part)
        PROVE  o \in Nat /\ o + Len(part) <= Len(base) /\ \A p \in 1 .. Len(part) : base[o + p] = part[p]
    <2>1. /\ o \in Nat /\ o + Len(part) <= Len(base)
          /\ Slice(base, o, o + Len(part)) = part
      BY <1>2 DEF IsAt
    <2> DEFINE to == o + Len(part)
    <2>2. to \in Nat /\ o <= to /\ to <= Len(base) /\ to - o = Len(part)
      BY <1>1, <2>1
    <2>3. Slice(base, o, to) = part
      BY <2>1
    <2> HIDE DEF to
    <2>4. \A p \in 1 .. to - o : Slice(base, o, to)[p] = base[o + p]
      BY <2>1, <2>2, SliceType
    <2> QED BY <2>1, <2>2, <2>3, <2>4
  <1>3. ASSUME o \in Nat, o + Len(part) <= Len(base), \A p \in 1 .. Len(part) : base[o + p] = part[p]
        PROVE  IsAt(base, o, part)
    <2>1. o + Len(part) \in Nat
      BY <1>1, <1>3
    <2>2. Slice(base, o, o + Len(part)) = part
      BY <1>3, <2>1, SliceIs
    <2> QED BY <1>3, <2>2 DEF IsAt
  <1> QED BY <1>2, <1>3

LEMMA DelimiterIsAt ==
    ASSUME NEW D, Delimiter(D), NEW base \in Seq(Symbols(D)), NEW o \in Int
    PROVE  /\ IsAt(base, o, <<LF>>) <=> o \in Nat /\ o + 1 <= Len(base) /\ base[o + 1] = LF
           /\ IsAt(base, o, <<CR, LF>>) <=> /\ o \in Nat /\ o + 2 <= Len(base)
                                           /\ base[o + 1] = CR /\ base[o + 2] = LF
           /\ D = <<LF>> => ~ IsAt(base, o, <<CR, LF>>)
  <1> DEFINE T == Symbols(D) \union {CR, LF}
  <1>1. base \in Seq(T) /\ <<LF>> \in Seq(T) /\ <<CR, LF>> \in Seq(T)
    BY SeqMonotonic
  <1>2. Len(<<LF>>) = 1 /\ <<LF>>[1] = LF /\ Len(<<CR, LF>>) = 2 /\ <<CR, LF>>[1] = CR /\ <<CR, LF>>[2] = LF
    OBVIOUS
  <1> DEFINE one == <<LF>>
             two == <<CR, LF>>
  <1>8. one \in Seq(T) /\ two \in Seq(T)
    BY <1>1
  <1> HIDE DEF T, one, two
  <1>3. IsAt(base, o, one) <=> /\ o \in Nat /\ o + Len(one) <= Len(base)
                               /\ \A p \in 1 .. Len(one) : base[o + p] = one[p]
    BY <1>1, <1>8, IsAtSymbols
  <1>4. IsAt(base, o, two) <=> /\ o \in Nat /\ o + Len(two) <= Len(base)
                               /\ \A p \in 1 .. Len(two) : base[o + p] = two[p]
    BY <1>1, <1>8, IsAtSymbols
  <1>5. IsAt(base, o, <<LF>>) <=> o \in Nat /\ o + 1 <= Len(base) /\ base[o + 1] = LF
    <2>1. 1 .. 1 = {1}
      OBVIOUS
    <2> QED BY <1>2, <1>3, <2>1 DEF one
  <1>6. IsAt(base, o, <<CR, LF>>) <=> /\ o \in Nat /\ o + 2 <= Len(base)
                                     /\ base[o + 1] = CR /\ base[o + 2] = LF
    <2>1. 1 .. 2 = {1, 2}
      OBVIOUS
    <2> QED BY <1>2, <1>4, <2>1 DEF two
  <1>7. ASSUME D = <<LF>>, IsAt(base, o, <<CR, LF>>) PROVE FALSE
    <2>1. o + 1 \in 1 .. Len(base) /\ base[o + 1] = CR
      BY <1>6, <1>7, LenProperties
    <2>2. CR \in Symbols(D)
      BY <2>1, ElementOfSeq
    <2> QED BY <1>7, <2>2, TextAssumption DEF Symbols, CR, LF
  <1> QED BY <1>5, <1>6, <1>7

(* The lines after line a and up to line b, in the text of all of them. *)
LEMMA LinesAt ==
    ASSUME NEW D, Delimiter(D), NEW lines \in Seq(TextLines), NEW a \in 0 .. Len(lines), NEW b \in a + 1 .. Len(lines)
    PROVE  LET base == Text(lines, D)
               part == Text(SubSeq(lines, a + 1, b), D)
           IN  /\ base \in Seq(Symbols(D)) /\ part \in Seq(Symbols(D))
               /\ IsAt(base, Offset(lines, D, a), part)
               /\ Offset(lines, D, a) + Len(part) = Offset(lines, D, b) - Len(D)
               /\ Offset(lines, D, b) - Len(D) <= Len(base)
               /\ Slice(base, 0, Offset(lines, D, a)) = Body(SubSeq(lines, 1, a), D)
               /\ Slice(base, Offset(lines, D, b) - Len(D), Len(base))
                    = Rest(SubSeq(lines, b + 1, Len(lines)), D)
               /\ \A p \in 1 .. Len(D) : b < Len(lines) => base[Offset(lines, D, b) - Len(D) + p] = D[p]
               /\ b < Len(lines) => Offset(lines, D, b) <= Len(base)
  <1> DEFINE n == Len(lines)
             base == Text(lines, D)
             upper == SubSeq(lines, 1, a)
             middle == SubSeq(lines, a + 1, b)
             lower == SubSeq(lines, b + 1, n)
             x == Body(upper, D)
             y == Text(middle, D)
             z == Rest(lower, D)
             T == Symbols(D)
  <1>1. n \in Nat /\ a \in Nat /\ b \in Nat /\ a <= b /\ b <= n /\ a # b
    BY LenProperties
  <1>2. /\ upper \in Seq(TextLines) /\ middle \in Seq(TextLines) /\ lower \in Seq(TextLines)
        /\ middle # <<>> /\ (lower = <<>> <=> b = n) /\ lines = upper \o middle \o lower
    <2>1. CutAt(TextLines, lines, a, b, upper, middle, lower)
      BY <1>1, CutLines
    <2> HIDE DEF upper, middle, lower
    <2> QED BY <1>1, <2>1 DEF CutAt
  <1>3. x = Body(upper, D) /\ Offset(lines, D, a) = Len(x)
    BY DEF Offset
  <1> HIDE DEF n, upper, middle, lower
  <1>4. base = x \o y \o z
    BY ZenonT(40), <1>2, TextCut
  <1>5. x \in Seq(T) /\ y \in Seq(T) /\ z \in Seq(T) /\ base \in Seq(T) /\ D \in Seq(T)
    BY <1>2, TextSymbols, RestSymbols, DelimiterType
  <1>6. Len(x) \in Nat /\ Len(y) \in Nat /\ Len(z) \in Nat /\ Len(D) \in Nat
    BY <1>5, LenProperties
  <1>7. b < n => Len(D) <= Len(z) /\ \A p \in 1 .. Len(D) : z[p] = D[p]
    <2> SUFFICES ASSUME b < n PROVE Len(D) <= Len(z) /\ \A p \in 1 .. Len(D) : z[p] = D[p]
      OBVIOUS
    <2> DEFINE t == Text(lower, D)
    <2>1. z = D \o t
      BY <1>1, <1>2 DEF Rest
    <2>2. t \in Seq(T) /\ Len(t) \in Nat
      BY <1>2, TextSymbols, LenProperties
    <2> HIDE DEF z, t, T
    <2>3. Len(z) = Len(D) + Len(t) /\ \A p \in 1 .. Len(D) + Len(t) : z[p] = IF p <= Len(D) THEN D[p] ELSE t[p - Len(D)]
      BY <1>5, <2>1, <2>2, ConcatProperties
    <2> QED BY <1>6, <2>2, <2>3
  <1>8. Offset(lines, D, a) + Len(y) + Len(D) = Offset(lines, D, b)
    BY OffsetsGrow DEF middle
  <1> HIDE DEF x, y, z, base, T
  <1>9. /\ Len(base) = Len(x) + Len(y) + Len(z)
        /\ \A p \in 1 .. Len(y) : base[Len(x) + p] = y[p]
        /\ \A p \in 1 .. Len(z) : base[Len(x) + Len(y) + p] = z[p]
        /\ Slice(base, 0, Len(x)) = x
        /\ Slice(base, Len(x) + Len(y), Len(base)) = z
    <2>1. MadeOf(T, base, x, y, z)
      BY <1>4, <1>5, Parts
    <2> QED BY <2>1 DEF MadeOf
  <1>10. Offset(lines, D, b) - Len(D) = Len(x) + Len(y)
    BY <1>3, <1>6, <1>8
  <1>11. IsAt(base, Len(x), y)
    <2>1. Len(x) \in Int /\ Len(x) \in Nat /\ Len(x) + Len(y) <= Len(base)
      BY <1>6, <1>9
    <2> QED BY <1>5, <1>9, <2>1, IsAtSymbols
  <1>12. ASSUME b < n, NEW p \in 1 .. Len(D) PROVE base[Offset(lines, D, b) - Len(D) + p] = D[p]
    <2>1. p \in 1 .. Len(z)
      BY <1>6, <1>7, <1>12
    <2>2. base[Len(x) + Len(y) + p] = z[p] /\ z[p] = D[p]
      BY <1>7, <1>9, <1>12, <2>1
    <2> QED BY <1>10, <2>2
  <1>13. ASSUME b < n PROVE Offset(lines, D, b) <= Len(base)
    BY <1>3, <1>6, <1>7, <1>8, <1>9, <1>13
  <1>14. Len(x) + Len(y) <= Len(base)
    BY <1>6, <1>9
  <1>15. /\ base \in Seq(T) /\ y \in Seq(T)
         /\ IsAt(base, Offset(lines, D, a), y)
         /\ Offset(lines, D, a) + Len(y) = Offset(lines, D, b) - Len(D)
         /\ Offset(lines, D, b) - Len(D) <= Len(base)
         /\ Slice(base, 0, Offset(lines, D, a)) = x
         /\ Slice(base, Offset(lines, D, b) - Len(D), Len(base)) = z
         /\ \A p \in 1 .. Len(D) : b < n => base[Offset(lines, D, b) - Len(D) + p] = D[p]
         /\ b < n => Offset(lines, D, b) <= Len(base)
    BY <1>3, <1>5, <1>9, <1>10, <1>11, <1>12, <1>13, <1>14
  <1> QED BY <1>15 DEF n, base, x, y, z, upper, middle, lower, T

(* The delimiters between the lines, as the widening looks for them. *)
LEMMA DelimitersAround ==
    ASSUME NEW D, Delimiter(D), NEW lines \in Seq(TextLines), lines # <<>>
    PROVE  LET base == Text(lines, D)
           IN  /\ base \in Seq(Symbols(D))
               /\ \A b \in 1 .. Len(lines) - 1 :
                     /\ Offset(lines, D, b) <= Len(base)
                     /\ DelimiterAfter(base, Offset(lines, D, b) - Len(D)) = Len(D)
                     /\ IsAt(base, Offset(lines, D, b) - 1, <<LF>>)
                     /\ \A bound \in Int : /\ bound <= Offset(lines, D, b) - Len(D) =>
                                                DelimiterBefore(base, Offset(lines, D, b), bound) = Len(D)
                                           /\ bound >= Offset(lines, D, b) =>
                                                DelimiterBefore(base, Offset(lines, D, b), bound) = 0
               /\ DelimiterAfter(base, Len(base)) = 0
               /\ \A bound \in Int : DelimiterBefore(base, 0, bound) = 0
  <1> DEFINE n == Len(lines)
             base == Text(lines, D)
  <1>1. n \in Nat /\ Len(D) \in {1, 2} /\ n \in 1 .. n /\ n >= 1
    BY LenProperties, DelimiterType, EmptySeq
  <1>2. base \in Seq(Symbols(D)) /\ Len(base) \in Nat
    BY TextSymbols, LenProperties
  <1>3. (D = <<LF>> /\ Len(D) = 1 /\ D[1] = LF) \/ (D = <<CR, LF>> /\ Len(D) = 2 /\ D[1] = CR /\ D[2] = LF)
    BY DEF Delimiter
  <1> DEFINE off(i) == Offset(lines, D, i)
  <1>4. \A i \in 0 .. n : off(i) \in Nat
    BY Offsets
  <1>5. ASSUME NEW b \in 1 .. n - 1
        PROVE  /\ off(b) <= Len(base) /\ off(b) - Len(D) \in Nat
               /\ \A p \in 1 .. Len(D) : base[off(b) - Len(D) + p] = D[p]
    <2>1. b - 1 \in 0 .. n /\ b \in (b - 1) + 1 .. n /\ b \in 0 .. n /\ b < n /\ 0 \in 0 .. n /\ 0 < b
      BY <1>1
    <2>2. off(0) + Len(D) <= off(b) /\ off(0) = 0
      BY <2>1, Offsets
    <2>3. off(b) <= Len(base) /\ \A p \in 1 .. Len(D) : base[off(b) - Len(D) + p] = D[p]
      BY <2>1, LinesAt
    <2>4. off(b) \in Nat
      BY <1>4, <2>1
    <2> HIDE DEF off, base
    <2> QED BY <1>1, <2>2, <2>3, <2>4
  <1> HIDE DEF off, base, n
  <1>6. /\ CR # LF
        /\ \A o \in Int : /\ IsAt(base, o, <<LF>>) <=> o \in Nat /\ o + 1 <= Len(base) /\ base[o + 1] = LF
                          /\ IsAt(base, o, <<CR, LF>>) <=> /\ o \in Nat /\ o + 2 <= Len(base)
                                                          /\ base[o + 1] = CR /\ base[o + 2] = LF
                          /\ D = <<LF>> => ~ IsAt(base, o, <<CR, LF>>)
    <2>1. CR # LF
      BY DEF CR, LF
    <2> QED BY <1>2, <2>1, DelimiterIsAt
  <1>7. ASSUME NEW b \in 1 .. n - 1
        PROVE  /\ IsAt(base, off(b) - 1, <<LF>>)
               /\ DelimiterAfter(base, off(b) - Len(D)) = Len(D)
               /\ \A bound \in Int : /\ bound <= off(b) - Len(D) => DelimiterBefore(base, off(b), bound) = Len(D)
                                     /\ bound >= off(b) => DelimiterBefore(base, off(b), bound) = 0
    <2> DEFINE e == off(b)
    <2>1. e \in Nat /\ e - Len(D) \in Nat /\ e <= Len(base) /\ e - 1 \in Int /\ e - 2 \in Int /\ e - Len(D) \in Int
      <3>1. b \in 0 .. n
        BY <1>1
      <3> QED BY <1>1, <1>4, <1>5, <3>1
    <2>2. \A p \in 1 .. Len(D) : base[e - Len(D) + p] = D[p]
      BY <1>5
    <2> HIDE DEF e
    <2>3. CASE D = <<LF>> /\ Len(D) = 1 /\ D[1] = LF
      <3>1. base[e] = LF
        <4>1. e - 1 + 1 = e /\ 1 \in 1 .. 1
          BY <2>1
        <4> QED BY <2>2, <2>3, <4>1
      <3>2. IsAt(base, e - 1, <<LF>>) /\ ~ IsAt(base, e - 2, <<CR, LF>>) /\ ~ IsAt(base, e - 1, <<CR, LF>>)
        BY SMTT(30), <1>6, <2>1, <2>3, <3>1
      <3> QED BY <2>1, <2>3, <3>2 DEF DelimiterAfter, DelimiterBefore, e
    <2>4. CASE D = <<CR, LF>> /\ Len(D) = 2 /\ D[1] = CR /\ D[2] = LF
      <3>1. base[e] = LF /\ base[e - 1] = CR
        <4>1. e - 2 + 1 = e - 1 /\ e - 2 + 2 = e /\ 1 \in 1 .. 2 /\ 2 \in 1 .. 2
          BY <2>1
        <4> QED BY <2>2, <2>4, <4>1
      <3>2. e - 2 + 1 = e - 1 /\ e - 2 + 2 = e /\ e - 1 + 1 = e /\ e - 2 \in Nat /\ e - 1 \in Nat
        BY <2>1, <2>4
      <3>3. IsAt(base, e - 1, <<LF>>) /\ IsAt(base, e - 2, <<CR, LF>>)
        BY <1>6, <2>1, <3>1, <3>2
      <3> QED BY <2>1, <2>4, <3>3 DEF DelimiterAfter, DelimiterBefore, e
    <2> QED BY <1>3, <2>3, <2>4
  <1>8. DelimiterAfter(base, Len(base)) = 0
    <2>1. Len(base) \in Int /\ ~ (Len(base) + 1 <= Len(base)) /\ ~ (Len(base) + 2 <= Len(base))
      BY <1>2
    <2>2. ~ IsAt(base, Len(base), <<LF>>) /\ ~ IsAt(base, Len(base), <<CR, LF>>)
      BY <1>6, <2>1
    <2> QED BY <2>2 DEF DelimiterAfter
  <1>9. \A bound \in Int : DelimiterBefore(base, 0, bound) = 0
    <2>1. 0 - 2 \in Int /\ 0 - 1 \in Int /\ 0 - 2 \notin Nat /\ 0 - 1 \notin Nat
      OBVIOUS
    <2>2. ~ IsAt(base, 0 - 2, <<CR, LF>>) /\ ~ IsAt(base, 0 - 1, <<LF>>)
      BY <1>6, <2>1
    <2> QED BY <2>2 DEF DelimiterBefore
  <1>10. /\ base \in Seq(Symbols(D))
         /\ \A b \in 1 .. n - 1 :
               /\ off(b) <= Len(base)
               /\ DelimiterAfter(base, off(b) - Len(D)) = Len(D)
               /\ IsAt(base, off(b) - 1, <<LF>>)
               /\ \A bound \in Int : /\ bound <= off(b) - Len(D) => DelimiterBefore(base, off(b), bound) = Len(D)
                                     /\ bound >= off(b) => DelimiterBefore(base, off(b), bound) = 0
    BY <1>2, <1>5, <1>7
  <1> QED BY <1>8, <1>9, <1>10 DEF base, off, n

-----------------------------------------------------------------------------
(* A hunk of whole lines, where its text is found. *)

LEMMA MaxIs ==
    ASSUME NEW S \in SUBSET Int, NEW x \in S, \A y \in S : y <= x
    PROVE  Max(S) = x
  <1>1. Max(S) \in S /\ \A y \in S : Max(S) >= y
    <2>1. \E z \in S : \A y \in S : z >= y
      <3>1. \A y \in S : x >= y
        OBVIOUS
      <3> QED BY <3>1
    <2> QED BY <2>1 DEF Max
  <1>2. Max(S) \in Int /\ x \in Int /\ Max(S) >= x /\ Max(S) <= x
    BY <1>1
  <1> QED BY <1>2

LEMMA MinIs ==
    ASSUME NEW S \in SUBSET Int, NEW x \in S, \A y \in S : x <= y
    PROVE  Min(S) = x
  <1>1. Min(S) \in S /\ \A y \in S : Min(S) <= y
    BY DEF Min
  <1>2. Min(S) \in Int /\ x \in Int /\ Min(S) <= x /\ x <= Min(S)
    BY <1>1
  <1> QED BY <1>2

LEMMA OneLine ==
    ASSUME NEW D, Delimiter(D), NEW lines \in Seq(TextLines), NEW i \in 1 .. Len(lines)
    PROVE  Text(SubSeq(lines, i, i), D) = lines[i]
  <1>1. lines[i] \in TextLines
    BY ElementOfSeq
  <1>2. SubSeq(lines, i, i) = <<lines[i]>>
    <2>1. Len(lines) \in Nat
      BY LenProperties
    <2>2. i \in 1 .. Len(lines) /\ i \in i .. Len(lines) /\ i < i + 1 /\ i \in Int /\ i + 1 \in Int
      BY <2>1
    <2>3. SubSeq(lines, i, i) = <<lines[i]>> \o SubSeq(lines, i + 1, i)
      BY <2>2, SubSeqRecursiveFirst
    <2>4. SubSeq(lines, i + 1, i) = <<>>
      BY <2>2, SubSeqEmpty
    <2>5. <<lines[i]>> \o <<>> = <<lines[i]>>
      <3>1. <<lines[i]>> \in Seq(TextLines)
        BY <1>1
      <3> QED BY <3>1, ConcatEmptySeq
    <2> QED BY <2>3, <2>4, <2>5
  <1>3. Append(<<>>, lines[i]) = <<lines[i]>> /\ <<>> \in Seq(TextLines)
    BY <1>1
  <1>4. Text(Append(<<>>, lines[i]), D) = IF <<>> = <<>> THEN lines[i] ELSE Text(<<>>, D) \o D \o lines[i]
    BY <1>1, <1>3, TextAppend
  <1> QED BY <1>2, <1>3, <1>4

LEMMA LineSymbols ==
    ASSUME NEW D, Delimiter(D), NEW lines \in Seq(TextLines), NEW i \in 1 .. Len(lines)
    PROVE  LET base == Text(lines, D)
           IN  /\ Len(lines[i]) \in Nat /\ lines[i] \in Seq(Symbols(D))
               /\ Offset(lines, D, i - 1) + Len(lines[i]) = Offset(lines, D, i) - Len(D)
               /\ Offset(lines, D, i) - Len(D) <= Len(base)
               /\ IsAt(base, Offset(lines, D, i - 1), lines[i])
               /\ \A p \in 1 .. Len(lines[i]) : base[Offset(lines, D, i - 1) + p] # LF
  <1> DEFINE base == Text(lines, D)
             line == lines[i]
             from == Offset(lines, D, i - 1)
             to   == Offset(lines, D, i) - Len(D)
  <1>1. Len(lines) \in Nat /\ i - 1 \in 0 .. Len(lines) /\ i \in (i - 1) + 1 .. Len(lines) /\ (i - 1) + 1 = i
    BY LenProperties
  <1>2. Text(SubSeq(lines, (i - 1) + 1, i), D) = line
    BY <1>1, OneLine
  <1>3. line \in TextLines /\ line \in Seq(Letters) /\ line \in Seq(Symbols(D)) /\ Len(line) \in Nat
    <2>1. line \in TextLines
      BY ElementOfSeq
    <2>2. line \in Seq(Letters)
      BY <2>1 DEF TextLines
    <2> QED BY <2>1, <2>2, LineType, LenProperties
  <1>4. /\ base \in Seq(Symbols(D)) /\ IsAt(base, from, Text(SubSeq(lines, (i - 1) + 1, i), D))
        /\ from + Len(Text(SubSeq(lines, (i - 1) + 1, i), D)) = to
        /\ to <= Len(base)
    BY <1>1, LinesAt
  <1>5. from \in Int
    BY <1>1, Offsets
  <1> HIDE DEF base, line, from, to
  <1>6. IsAt(base, from, line) /\ base \in Seq(Symbols(D)) /\ from + Len(line) = to
    BY <1>2, <1>4
  <1>7. \A p \in 1 .. Len(line) : base[from + p] = line[p]
    BY <1>3, <1>5, <1>6, IsAtSymbols
  <1>8. \A p \in 1 .. Len(line) : line[p] # LF
    <2>1. \A p \in 1 .. Len(line) : line[p] \in Letters
      BY <1>3, ElementOfSeq
    <2> QED BY <2>1, TextAssumption
  <1>9. \A p \in 1 .. Len(line) : base[from + p] # LF
    BY <1>7, <1>8
  <1> QED BY <1>3, <1>4, <1>6, <1>9 DEF base, line, from, to

LEMMA BeforeFound ==
    ASSUME NEW lines \in Seq(TextLines), NEW i \in 1 .. Len(lines) - 1
    PROVE  beforeMatches(Text(lines, <<LF>>), Offset(lines, <<LF>>, i), lines[i])
  <1> DEFINE D == <<LF>>
             off(j) == Offset(lines, D, j)
             base == Text(lines, D)
             feeds == {0} \union {j \in 1 .. off(i) - 1 : base[j] = LF}
  <1>1. Delimiter(D) /\ Len(D) = 1
    BY DEF Delimiter
  <1>2. /\ Len(lines) \in Nat /\ i \in 1 .. Len(lines) /\ i \in 0 .. Len(lines) /\ i - 1 \in 0 .. Len(lines)
        /\ i - 1 # 0 => i - 1 \in 1 .. Len(lines) - 1
        /\ lines # <<>>
    BY LenProperties, EmptySeq
  <1> HIDE DEF D
  <1>3. off(i) \in Nat /\ off(i - 1) \in Nat /\ off(0) = 0
    BY <1>1, <1>2, Offsets
  <1>4. /\ Len(lines[i]) \in Nat /\ lines[i] \in Seq(Symbols(D))
        /\ off(i - 1) + Len(lines[i]) = off(i) - Len(D)
        /\ off(i) - Len(D) <= Len(base)
        /\ IsAt(base, off(i - 1), lines[i])
        /\ \A p \in 1 .. Len(lines[i]) : base[off(i - 1) + p] # LF
    BY <1>1, <1>2, LineSymbols
  <1>5. base \in Seq(Symbols(D)) /\ \A j \in 1 .. Len(lines) - 1 : IsAt(base, off(j) - 1, <<LF>>)
    BY <1>1, <1>2, DelimitersAround
  <1>6. off(i - 1) = 0 \/ base[off(i - 1)] = LF
    <2>1. CASE i - 1 = 0
      BY <1>3, <2>1
    <2>2. CASE i - 1 # 0
      <3>1. IsAt(base, off(i - 1) - 1, <<LF>>)
        BY <1>2, <1>5, <2>2
      <3> HIDE DEF off, base
      <3>2. off(i - 1) - 1 \in Int /\ (off(i - 1) - 1) + 1 = off(i - 1)
        BY <1>3
      <3>3. base[(off(i - 1) - 1) + 1] = LF
        BY <1>1, <1>5, <3>1, <3>2, DelimiterIsAt
      <3> QED BY <3>2, <3>3
    <2> QED BY <2>1, <2>2
  <1> DEFINE from == off(i - 1)
             to   == off(i)
             size == Len(lines[i])
  <1>7. from + size + 1 = to /\ from \in Nat /\ to \in Nat /\ size \in Nat
    BY <1>1, <1>3, <1>4
  <1>8. \A p \in 1 .. size : base[from + p] # LF
    BY <1>4
  <1>9. from = 0 \/ base[from] = LF
    BY <1>6
  <1>10. Max({0} \union {j \in 1 .. to - 1 : base[j] = LF}) = from
    <2> HIDE DEF from, to, size, base
    <2> DEFINE S == {0} \union {j \in 1 .. to - 1 : base[j] = LF}
    <2>1. S \in SUBSET Int
      OBVIOUS
    <2>2. from \in S
      BY <1>7, <1>9
    <2>3. ASSUME NEW y \in S PROVE y <= from
      <3>1. ASSUME y > from, y \in 1 .. to - 1, base[y] = LF PROVE FALSE
        <4>1. y - from \in 1 .. size /\ from + (y - from) = y
          BY <1>7, <3>1
        <4> QED BY <1>8, <3>1, <4>1
      <3> QED BY <1>7, <3>1
    <2> HIDE DEF S
    <2>4. Max(S) = from
      BY <2>1, <2>2, <2>3, MaxIs
    <2> QED BY <2>4 DEF S
  <1>11. Slice(base, from, to - 1) = lines[i]
    <2>1. Slice(base, from, from + Len(lines[i])) = lines[i]
      BY <1>4 DEF IsAt
    <2>2. from + Len(lines[i]) = to - 1
      BY <1>7
    <2> QED BY <2>1, <2>2
  <1>12. IsAt(base, to - 1, <<LF>>)
    BY <1>5
  <1>13. beforeMatches(base, to, lines[i])
    <2> HIDE DEF from, to, base
    <2> QED BY <1>10, <1>11, <1>12 DEF beforeMatches
  <1> QED BY <1>13 DEF D

LEMMA AfterFound ==
    ASSUME NEW lines \in Seq(TextLines), NEW i \in 1 .. Len(lines) - 1
    PROVE  afterMatches(Text(lines, <<LF>>), Offset(lines, <<LF>>, i) - 1, lines[i + 1])
  <1> DEFINE D == <<LF>>
             n == Len(lines)
             off(j) == Offset(lines, D, j)
             base == Text(lines, D)
  <1>1. Delimiter(D) /\ Len(D) = 1
    BY DEF Delimiter
  <1>2. /\ n \in Nat /\ i + 1 \in 1 .. n /\ (i + 1) - 1 = i /\ i \in 0 .. n /\ i + 1 \in 0 .. n
        /\ i + 1 # n => i + 1 \in 1 .. n - 1
        /\ lines # <<>>
    BY LenProperties, EmptySeq
  <1> HIDE DEF D
  <1>3. off(i) \in Nat /\ off(i + 1) \in Nat
    BY <1>1, <1>2, Offsets
  <1>4. /\ Len(lines[i + 1]) \in Nat
        /\ off(i) + Len(lines[i + 1]) = off(i + 1) - Len(D)
        /\ off(i + 1) - Len(D) <= Len(base)
        /\ IsAt(base, off(i), lines[i + 1])
        /\ \A p \in 1 .. Len(lines[i + 1]) : base[off(i) + p] # LF
    <2>1. /\ Len(lines[i + 1]) \in Nat
          /\ off((i + 1) - 1) + Len(lines[i + 1]) = off(i + 1) - Len(D)
          /\ off(i + 1) - Len(D) <= Len(base)
          /\ IsAt(base, off((i + 1) - 1), lines[i + 1])
          /\ \A p \in 1 .. Len(lines[i + 1]) : base[off((i + 1) - 1) + p] # LF
      BY <1>1, <1>2, LineSymbols
    <2> QED BY <1>2, <2>1
  <1>5. /\ base \in Seq(Symbols(D)) /\ Len(base) \in Nat
        /\ \A j \in 1 .. n - 1 : off(j) <= Len(base) /\ IsAt(base, off(j) - 1, <<LF>>)
    <2>1. /\ base \in Seq(Symbols(D))
          /\ \A j \in 1 .. n - 1 : off(j) <= Len(base) /\ IsAt(base, off(j) - 1, <<LF>>)
      BY <1>1, <1>2, DelimitersAround
    <2> QED BY <2>1, LenProperties
  <1> DEFINE from == off(i)
             to   == off(i + 1)
             size == Len(lines[i + 1])
  <1>6. to - 1 = Len(base) \/ (to <= Len(base) /\ base[to] = LF)
    <2>1. CASE i + 1 = n
      <3>1. Len(base) = off(n) - Len(D)
        BY <1>1, <1>2, Offsets
      <3> QED BY <1>1, <2>1, <3>1
    <2>2. CASE i + 1 # n
      <3>1. to <= Len(base) /\ IsAt(base, to - 1, <<LF>>)
        BY <1>2, <1>5, <2>2
      <3>2. to - 1 \in Int /\ (to - 1) + 1 = to
        BY <1>3
      <3> HIDE DEF to, base
      <3>3. base[(to - 1) + 1] = LF
        BY <1>1, <1>5, <3>1, <3>2, DelimiterIsAt
      <3> QED BY <3>1, <3>2, <3>3
    <2> QED BY <2>1, <2>2
  <1>7. from + size + 1 = to /\ from \in Nat /\ to \in Nat /\ size \in Nat /\ to - 1 <= Len(base)
    <2>1. from + size = to - 1 /\ to - 1 <= Len(base) /\ size \in Nat
      BY <1>1, <1>4
    <2> HIDE DEF base, off
    <2> QED BY SMTT(30), <1>3, <2>1
  <1>8. \A p \in 1 .. size : base[from + p] # LF
    BY <1>4
  <1>10. Min({Len(base)} \union {j - 1 : j \in {k \in (from - 1) + 2 .. Len(base) : base[k] = LF}}) = to - 1
    <2> HIDE DEF from, to, size, base
    <2> DEFINE S == {Len(base)} \union {j - 1 : j \in {k \in (from - 1) + 2 .. Len(base) : base[k] = LF}}
    <2>1. S \in SUBSET Int
      BY <1>5, <1>7
    <2>2. to - 1 \in S
      <3>1. CASE to - 1 = Len(base)
        BY <3>1
      <3>2. CASE to <= Len(base) /\ base[to] = LF
        <4>1. to \in {k \in (from - 1) + 2 .. Len(base) : base[k] = LF}
          BY <1>5, <1>7, <3>2
        <4> QED BY <4>1
      <3> QED BY <1>6, <3>1, <3>2
    <2>3. ASSUME NEW y \in S PROVE to - 1 <= y
      <3>1. ASSUME NEW k \in (from - 1) + 2 .. Len(base), base[k] = LF PROVE to - 1 <= k - 1
        <4>1. ASSUME k < to PROVE FALSE
          <5>1. k - from \in 1 .. size /\ from + (k - from) = k
            BY <1>5, <1>7, <4>1
          <5> QED BY <1>8, <3>1, <5>1
        <4> QED BY <1>5, <1>7, <4>1
      <3> QED BY <1>7, <3>1
    <2> HIDE DEF S
    <2>4. Min(S) = to - 1
      BY <1>7, <2>1, <2>2, <2>3, MinIs
    <2> QED BY <2>4 DEF S
  <1>11. Slice(base, (from - 1) + 1, to - 1) = lines[i + 1]
    <2>1. Slice(base, from, from + Len(lines[i + 1])) = lines[i + 1]
      BY <1>4 DEF IsAt
    <2>2. from + Len(lines[i + 1]) = to - 1 /\ (from - 1) + 1 = from
      BY <1>7
    <2> QED BY <2>1, <2>2
  <1>12. IsAt(base, from - 1, <<LF>>)
    BY <1>5
  <1>13. afterMatches(base, from - 1, lines[i + 1])
    <2> HIDE DEF from, to, base
    <2> QED BY <1>10, <1>11, <1>12 DEF afterMatches
  <1> QED BY <1>13 DEF D

(* The hunk of text of a hunk of lines, with those around it or without. *)
LineNear(lines, context, i) == IF context /\ i \in DOMAIN lines THEN lines[i] ELSE <<>>

HunkOf(lines, h, D, context) ==
    [target |-> "lines",
     before |-> LineNear(lines, context, h.first - 1), after |-> LineNear(lines, context, h.last + 1),
     expected |-> Text(SubSeq(lines, h.first, h.last), D),
     content |-> Text(h.new, D)]

LEMMA HunksSent ==
    ASSUME NEW lines, NEW patch, NEW D, NEW context
    PROVE  TextHunks(lines, patch, D, context) = Reverse([i \in DOMAIN patch |-> HunkOf(lines, patch[i], D, context)])
  BY DEF TextHunks, HunkOf, LineNear

LEMMA OnePlace ==
    ASSUME NEW T, NEW base \in Seq(T), NEW t, Located(base, t), NEW right \in Matching(base, t)
    PROVE  (CHOOSE i \in Places(base, t) : TRUE) = right
  <1>1. Places(base, t) = Matching(base, t) /\ right \in Places(base, t)
    BY DEF Places
  <1>2. Places(base, t) \subseteq 0 .. Len(base) - 1
    BY <1>1 DEF Matching, Exact
  <1>3. IsFiniteSet(0 .. Len(base) - 1)
    BY LenProperties, FS_Interval
  <1>4. IsFiniteSet(Places(base, t))
    BY <1>2, <1>3, FS_Subset
  <1>5. PICK x : Places(base, t) = {x}
    BY <1>4, FS_Singleton DEF Located
  <1> QED BY <1>1, <1>5

(* Where a hunk of whole lines is located. *)
LocatedOn(lines, h, D, t) ==
    [hunk |-> t, start |-> Offset(lines, D, h.first - 1),
     end |-> Offset(lines, D, h.last) - Len(D), endLine |-> h.last]

LEMMA LocatedAt ==
    ASSUME NEW D, Delimiter(D), NEW lines \in Seq(TextLines), NEW h \in HunksOf(TextLines), InPlan(lines, h),
           NEW context \in BOOLEAN, context => D = <<LF>>,
           Located(Text(lines, D), HunkOf(lines, h, D, context))
    PROVE  Locate(Text(lines, D), HunkOf(lines, h, D, context))
             = LocatedOn(lines, h, D, HunkOf(lines, h, D, context))
  <1> DEFINE n == Len(lines)
             base == Text(lines, D)
             t == HunkOf(lines, h, D, context)
             part == Text(SubSeq(lines, h.first, h.last), D)
             right == Offset(lines, D, h.first - 1)
             end == Offset(lines, D, h.last) - Len(D)
  <1>1. /\ n \in Nat /\ h.first \in Nat /\ h.last \in Nat /\ 1 <= h.first /\ h.first <= h.last /\ h.last <= n
        /\ DOMAIN lines = 1 .. n
    BY LenProperties DEF HunksOf, InPlan
  <1>2. /\ h.first - 1 \in 0 .. n /\ h.last \in (h.first - 1) + 1 .. n /\ (h.first - 1) + 1 = h.first
        /\ 0 \in 0 .. n /\ h.last \in 0 + 1 .. n /\ 0 + 1 = 1
    BY <1>1
  <1>3. /\ base \in Seq(Symbols(D)) /\ part \in Seq(Symbols(D))
        /\ IsAt(base, right, part) /\ right + Len(part) = end /\ end <= Len(base)
    BY <1>2, LinesAt
  <1>4. right \in Nat /\ Len(base) \in Nat /\ Len(part) \in Nat
    BY <1>2, <1>3, Offsets, LenProperties
  <1>5. /\ t.expected = part /\ t.before = LineNear(lines, context, h.first - 1)
        /\ t.after = LineNear(lines, context, h.last + 1)
    BY DEF HunkOf
  <1>6. part # <<>>
    BY <1>5 DEF Located
  <1>7. right \in Exact(base, t)
    <2>1. Len(part) # 0
      BY <1>3, <1>6, EmptySeq
    <2>2. right \in 0 .. Len(base) - 1
      BY <1>3, <1>4, <2>1
    <2> QED BY <1>3, <1>5, <2>2 DEF Exact
  <1>8. beforeMatches(base, right, t.before)
    <2>1. CASE context /\ h.first - 1 \in DOMAIN lines
      <3>1. h.first - 1 \in 1 .. Len(lines) - 1 /\ D = <<LF>>
        BY <1>1, <2>1
      <3>2. beforeMatches(Text(lines, <<LF>>), Offset(lines, <<LF>>, h.first - 1), lines[h.first - 1])
        BY <3>1, BeforeFound
      <3> QED BY <1>5, <2>1, <3>1, <3>2 DEF LineNear
    <2>2. CASE ~ (context /\ h.first - 1 \in DOMAIN lines)
      BY <1>5, <2>2 DEF LineNear, beforeMatches
    <2> QED BY <2>1, <2>2
  <1>9. afterMatches(base, end, t.after)
    <2>1. CASE context /\ h.last + 1 \in DOMAIN lines
      <3>1. h.last \in 1 .. Len(lines) - 1 /\ D = <<LF>> /\ Len(D) = 1
        BY <1>1, <2>1
      <3>2. afterMatches(Text(lines, <<LF>>), Offset(lines, <<LF>>, h.last) - 1, lines[h.last + 1])
        BY <3>1, AfterFound
      <3> QED BY <1>5, <2>1, <3>1, <3>2 DEF LineNear
    <2>2. CASE ~ (context /\ h.last + 1 \in DOMAIN lines)
      BY <1>5, <2>2 DEF LineNear, afterMatches
    <2> QED BY <2>1, <2>2
  <1>10. (CHOOSE i \in Places(base, t) : TRUE) = right
    <2>1. right \in Matching(base, t)
      BY <1>3, <1>5, <1>7, <1>8, <1>9 DEF Matching
    <2> QED BY <1>3, <2>1, OnePlace
  <1>11. LineAt(base, end) = h.last
    <2> DEFINE top == Text(SubSeq(lines, 1, h.last), D)
    <2>1. IsAt(base, Offset(lines, D, 0), top) /\ Offset(lines, D, 0) + Len(top) = end /\ top \in Seq(Symbols(D))
      <3>1. /\ IsAt(base, Offset(lines, D, 0), Text(SubSeq(lines, 0 + 1, h.last), D))
            /\ Offset(lines, D, 0) + Len(Text(SubSeq(lines, 0 + 1, h.last), D)) = Offset(lines, D, h.last) - Len(D)
            /\ Text(SubSeq(lines, 0 + 1, h.last), D) \in Seq(Symbols(D))
        BY <1>2, LinesAt
      <3> QED BY <1>2, <3>1
    <2>2. Offset(lines, D, 0) = 0
      BY Offsets
    <2>3. Slice(base, 0, end) = top
      BY <2>1, <2>2 DEF IsAt
    <2>4. SubSeq(lines, 1, h.last) \in Seq(TextLines) /\ Len(SubSeq(lines, 1, h.last)) = h.last /\ SubSeq(lines, 1, h.last) # <<>>
      <3> DEFINE u == SubSeq(lines, 1, h.last)
                 v == SubSeq(lines, h.last + 1, h.last)
                 w == SubSeq(lines, h.last + 1, Len(lines))
      <3>1. CutAt(TextLines, lines, h.last, h.last, u, v, w)
        BY <1>1, CutLines
      <3> HIDE DEF u, v, w
      <3>2. u \in Seq(TextLines) /\ Len(u) = h.last /\ u # <<>>
        <4>1. u \in Seq(TextLines) /\ Len(u) = h.last /\ (u = <<>> <=> h.last = 0)
          BY <3>1 DEF CutAt
        <4>2. h.last # 0
          BY <1>1
        <4> QED BY <4>1, <4>2
      <3> QED BY <3>2 DEF u
    <2>5. LineFeeds(top) = h.last - 1
      BY <2>4, LineFeedsOfText
    <2> QED BY <1>1, <2>3, <2>5 DEF LineAt
  <1> HIDE DEF base, t, right, end
  <1>12. Locate(base, t) = [hunk |-> t, start |-> right, end |-> end, endLine |-> h.last]
    BY <1>3, <1>5, <1>10, <1>11 DEF Locate
  <1> QED BY <1>12 DEF LocatedOn, base, t, right, end

-----------------------------------------------------------------------------
(* The patch, located and sorted. *)

Form(D, context) == Delimiter(D) /\ context \in BOOLEAN /\ (context => D = <<LF>>)

PatchOf(lines, patch) ==
    /\ lines \in Seq(TextLines) /\ lines # <<>>
    /\ patch \in Seq(HunksOf(TextLines)) /\ patch # <<>>
    /\ InOrder(lines, patch)
    /\ \A k \in 1 .. Len(patch) : patch[k].new # << <<>> >>

AllFound(lines, patch, D, context) ==
    \A k \in 1 .. Len(patch) : Located(Text(lines, D), HunkOf(lines, patch[k], D, context))

InPlaces(lines, patch, D, context) ==
    [k \in 1 .. Len(patch) |-> LocatedOn(lines, patch[k], D, HunkOf(lines, patch[k], D, context))]

(* A function that grows from 1 .. m into 1 .. m goes nowhere. *)
LEMMA Increasing ==
    ASSUME NEW m \in Nat, NEW f \in [1 .. m -> 1 .. m], \A i, j \in 1 .. m : i < j => f[i] < f[j]
    PROVE  \A i \in 1 .. m : f[i] = i
  <1> DEFINE S == {k \in Nat : k \in 1 .. m => f[k] >= k}
             U == {k \in Nat : k < m => f[m - k] <= m - k}
  <1>1. Nat \subseteq S
    <2>1. 0 \in S
      OBVIOUS
    <2>2. ASSUME NEW k \in Nat, k \in S PROVE k + 1 \in S
      <3> SUFFICES ASSUME k + 1 \in 1 .. m PROVE f[k + 1] >= k + 1
        OBVIOUS
      <3>1. f[k + 1] \in 1 .. m
        OBVIOUS
      <3>2. CASE k = 0
        BY <3>1, <3>2
      <3>3. CASE k # 0
        <4>1. k \in 1 .. m /\ k < k + 1
          BY <3>3
        <4>2. f[k] >= k /\ f[k] < f[k + 1] /\ f[k] \in 1 .. m
          BY <2>2, <4>1
        <4> QED BY <3>1, <4>2
      <3> QED BY <3>2, <3>3
    <2> HIDE DEF S
    <2> QED BY <2>1, <2>2, CountUp
  <1>2. Nat \subseteq U
    <2>1. 0 \in U
      OBVIOUS
    <2>2. ASSUME NEW k \in Nat, k \in U PROVE k + 1 \in U
      <3> SUFFICES ASSUME k + 1 < m PROVE f[m - (k + 1)] <= m - (k + 1)
        OBVIOUS
      <3>1. m - (k + 1) \in 1 .. m /\ m - k \in 1 .. m /\ m - (k + 1) < m - k /\ m - (k + 1) = (m - k) - 1 /\ k < m
        OBVIOUS
      <3>2. f[m - k] <= m - k
        BY <2>2, <3>1
      <3>3. f[m - (k + 1)] < f[m - k] /\ f[m - k] \in 1 .. m /\ f[m - (k + 1)] \in 1 .. m
        BY <3>1
      <3> QED BY <3>1, <3>2, <3>3
    <2> HIDE DEF U
    <2> QED BY <2>1, <2>2, CountUp
  <1>3. ASSUME NEW i \in 1 .. m PROVE f[i] = i
    <2>1. i \in S /\ m - i \in U /\ m - i < m /\ m - (m - i) = i
      BY <1>1, <1>2
    <2>2. f[i] >= i /\ f[i] <= i /\ f[i] \in 1 .. m
      BY <2>1
    <2> QED BY <2>2
  <1> QED BY <1>3

(* "sort.Slice": hunks that come in reverse are put in order. *)
LEMMA SortOfReversed ==
    ASSUME NEW m \in Nat, NEW R, \A i \in 1 .. m : R[i].start \in Int,
           \A i, j \in 1 .. m : i < j => R[i].start < R[j].start
    PROVE  SortedByStart([i \in 1 .. m |-> R[(m - i) + 1]]) = [i \in 1 .. m |-> R[i]]
  <1> DEFINE s == [i \in 1 .. m |-> R[(m - i) + 1]]
             Sorts(p) == /\ p \in [1 .. m -> 1 .. m]
                         /\ \A a, b \in 1 .. m : p[a] = p[b] => a = b
                         /\ \A i, j \in 1 .. m : i < j => s[p[i]].start <= s[p[j]].start
             order == CHOOSE p \in [DOMAIN s -> DOMAIN s] :
                        /\ IsInjective(p)
                        /\ \A i, j \in DOMAIN s : i < j => s[p[i]].start <= s[p[j]].start
             q == [i \in 1 .. m |-> (m - i) + 1]
  <1>1. \A i \in 1 .. m : (m - i) + 1 \in 1 .. m /\ (m - ((m - i) + 1)) + 1 = i
    OBVIOUS
  <1>2. DOMAIN s = 1 .. m /\ \A i \in 1 .. m : s[i] = R[(m - i) + 1]
    OBVIOUS
  <1>3. SortedByStart(s) = [i \in 1 .. m |-> s[order[i]]]
    BY <1>2 DEF SortedByStart
  <1> HIDE DEF s
  <1>4. Sorts(q)
    <2>1. q \in [1 .. m -> 1 .. m]
      BY <1>1
    <2>2. \A a, b \in 1 .. m : q[a] = q[b] => a = b
      OBVIOUS
    <2>3. \A i \in 1 .. m : s[q[i]] = R[i]
      BY <1>1, <1>2
    <2> HIDE DEF q
    <2>4. ASSUME NEW i \in 1 .. m, NEW j \in 1 .. m, i < j
          PROVE  s[q[i]].start <= s[q[j]].start
      <3>1. R[i].start < R[j].start /\ R[i].start \in Int /\ R[j].start \in Int
        BY <2>4
      <3>2. R[i].start <= R[j].start
        BY <3>1
      <3> QED BY <2>3, <3>2
    <2> QED BY <2>1, <2>2, <2>4
  <1>5. Sorts(order)
    <2>1. \A p \in [1 .. m -> 1 .. m] :
             Sorts(p) <=> /\ IsInjective(p)
                          /\ \A i, j \in DOMAIN s : i < j => s[p[i]].start <= s[p[j]].start
      BY <1>2 DEF IsInjective
    <2>2. \E p \in [DOMAIN s -> DOMAIN s] :
             /\ IsInjective(p)
             /\ \A i, j \in DOMAIN s : i < j => s[p[i]].start <= s[p[j]].start
      <3> HIDE DEF q
      <3> QED BY <1>2, <1>4, <2>1
    <2>3. /\ order \in [DOMAIN s -> DOMAIN s]
          /\ IsInjective(order)
          /\ \A i, j \in DOMAIN s : i < j => s[order[i]].start <= s[order[j]].start
      BY <2>2
    <2> HIDE DEF order
    <2> QED BY <1>2, <2>1, <2>3
  <1> HIDE DEF order
  <1> DEFINE r == [i \in 1 .. m |-> (m - order[i]) + 1]
  <1>6. r \in [1 .. m -> 1 .. m] /\ \A i \in 1 .. m : r[i] = (m - order[i]) + 1 /\ s[order[i]] = R[r[i]]
    <2>1. \A i \in 1 .. m : order[i] \in 1 .. m
      BY <1>5
    <2> QED BY <1>1, <1>2, <2>1
  <1>7. ASSUME NEW i \in 1 .. m, NEW j \in 1 .. m, i < j PROVE r[i] < r[j]
    <2>1. order[i] \in 1 .. m /\ order[j] \in 1 .. m /\ order[i] # order[j]
      BY <1>5, <1>7
    <2>2. r[i] \in 1 .. m /\ r[j] \in 1 .. m /\ r[i] # r[j]
      <3>1. r[i] = (m - order[i]) + 1 /\ r[j] = (m - order[j]) + 1 /\ r[i] \in 1 .. m /\ r[j] \in 1 .. m
        BY <1>6
      <3>2. (m - order[i]) + 1 # (m - order[j]) + 1
        BY <2>1
      <3> QED BY <3>1, <3>2
    <2>3. R[r[i]].start <= R[r[j]].start
      BY <1>5, <1>6, <1>7
    <2>4. ~ (r[j] < r[i])
      <3>1. ASSUME r[j] < r[i] PROVE FALSE
        <4>1. R[r[j]].start < R[r[i]].start /\ R[r[j]].start \in Int /\ R[r[i]].start \in Int
          BY <2>2, <3>1
        <4> QED BY <2>3, <4>1
      <3> QED BY <3>1
    <2> QED BY <2>2, <2>4
  <1> HIDE DEF r
  <1>8. \A i \in 1 .. m : r[i] = i
    <2>1. \A i, j \in 1 .. m : i < j => r[i] < r[j]
      BY <1>7
    <2> QED BY <1>6, <2>1, Increasing
  <1>9. \A i \in 1 .. m : s[order[i]] = R[i]
    BY <1>6, <1>8
  <1> QED BY <1>3, <1>9 DEF s

LEMMA PatchBounds ==
    ASSUME NEW lines, NEW patch, PatchOf(lines, patch)
    PROVE  /\ Len(lines) \in Nat /\ Len(patch) \in Nat /\ Len(patch) >= 1 /\ DOMAIN patch = 1 .. Len(patch)
           /\ \A k \in 1 .. Len(patch) :
                 /\ patch[k] \in HunksOf(TextLines) /\ InPlan(lines, patch[k])
                 /\ patch[k].first \in Nat /\ patch[k].last \in Nat /\ patch[k].new \in Seq(TextLines)
                 /\ 1 <= patch[k].first /\ patch[k].first <= patch[k].last /\ patch[k].last <= Len(lines)
           /\ \A i, j \in 1 .. Len(patch) : i < j => patch[i].last < patch[j].first
           /\ \A k \in 1 .. Len(patch) - 1 : patch[k].last < Len(lines)
  <1> DEFINE n == Len(lines)
             m == Len(patch)
  <1>1. lines \in Seq(TextLines) /\ patch \in Seq(HunksOf(TextLines)) /\ InOrder(lines, patch) /\ patch # <<>>
    BY DEF PatchOf
  <1>2. n \in Nat /\ m \in Nat /\ m >= 1 /\ DOMAIN patch = 1 .. m
    BY <1>1, LenProperties, EmptySeq
  <1>3. ASSUME NEW k \in 1 .. m
        PROVE  /\ patch[k] \in HunksOf(TextLines) /\ InPlan(lines, patch[k])
               /\ patch[k].first \in Nat /\ patch[k].last \in Nat /\ patch[k].new \in Seq(TextLines)
               /\ 1 <= patch[k].first /\ patch[k].first <= patch[k].last /\ patch[k].last <= n
    <2>1. patch[k] \in HunksOf(TextLines)
      BY <1>1, ElementOfSeq
    <2>2. InPlan(lines, patch[k])
      BY <1>1 DEF InOrder
    <2>3. patch[k].first \in Nat /\ patch[k].last \in Nat /\ patch[k].new \in Seq(TextLines)
      BY <2>1 DEF HunksOf
    <2>4. 1 <= patch[k].first /\ patch[k].first <= patch[k].last /\ patch[k].last <= n
      BY <1>2, <2>2, <2>3 DEF InPlan
    <2> QED BY <2>1, <2>2, <2>3, <2>4
  <1>4. ASSUME NEW i \in 1 .. m, NEW j \in 1 .. m, i < j PROVE patch[i].last < patch[j].first
    <2>1. j \in i + 1 .. Len(patch)
      BY <1>2, <1>4
    <2> QED BY <1>1, <2>1, HunksApart
  <1>5. ASSUME NEW k \in 1 .. m - 1 PROVE patch[k].last < n
    <2>1. k \in 1 .. m /\ m \in 1 .. m /\ k < m
      BY <1>2
    <2>2. patch[k].last < patch[m].first /\ patch[k].last \in Nat
      BY <1>3, <1>4, <2>1
    <2>3. patch[m].first \in Nat /\ patch[m].last \in Nat /\ patch[m].first <= patch[m].last /\ patch[m].last <= n
      BY <1>3, <2>1
    <2> QED BY <1>2, <2>2, <2>3
  <1> QED BY <1>2, <1>3, <1>4, <1>5

LEMMA SentHunks ==
    ASSUME NEW lines, NEW patch, PatchOf(lines, patch), NEW D, NEW context
    PROVE  LET sent == TextHunks(lines, patch, D, context)
           IN  /\ DOMAIN sent = 1 .. Len(patch)
               /\ \A i \in 1 .. Len(patch) : sent[i] = HunkOf(lines, patch[(Len(patch) - i) + 1], D, context)
  <1> DEFINE m == Len(patch)
             inner == [i \in 1 .. m |-> HunkOf(lines, patch[i], D, context)]
  <1>1. m \in Nat /\ DOMAIN patch = 1 .. m
    BY PatchBounds
  <1>2. inner = [i \in DOMAIN patch |-> HunkOf(lines, patch[i], D, context)]
    BY <1>1
  <1>3. TextHunks(lines, patch, D, context) = Reverse(inner)
    BY <1>2, HunksSent
  <1>4. \A i \in 1 .. m : inner[i] = HunkOf(lines, patch[i], D, context)
    OBVIOUS
  <1>5. Len(inner) = m
    BY <1>1
  <1> HIDE DEF inner, m
  <1>6. Reverse(inner) = [i \in 1 .. m |-> inner[(m - i) + 1]]
    BY <1>5 DEF Reverse
  <1>7. \A i \in 1 .. m : (m - i) + 1 \in 1 .. m
    BY <1>1
  <1>8. \A i \in 1 .. m : Reverse(inner)[i] = HunkOf(lines, patch[(m - i) + 1], D, context)
    BY <1>4, <1>6, <1>7
  <1> QED BY <1>3, <1>6, <1>8 DEF m

LEMMA SentFound ==
    ASSUME NEW lines, NEW patch, PatchOf(lines, patch), NEW D, NEW context
    PROVE  LET sent == TextHunks(lines, patch, D, context)
           IN  (\A i \in DOMAIN sent : Located(Text(lines, D), sent[i])) <=> AllFound(lines, patch, D, context)
  <1> DEFINE m == Len(patch)
             sent == TextHunks(lines, patch, D, context)
             found(k) == Located(Text(lines, D), HunkOf(lines, patch[k], D, context))
  <1>1. DOMAIN sent = 1 .. m /\ \A i \in 1 .. m : sent[i] = HunkOf(lines, patch[(m - i) + 1], D, context)
    BY SentHunks
  <1>2. m \in Nat
    BY PatchBounds
  <1>3. AllFound(lines, patch, D, context) <=> \A k \in 1 .. m : found(k)
    BY DEF AllFound
  <1>4. (\A i \in DOMAIN sent : Located(Text(lines, D), sent[i])) <=> \A i \in 1 .. m : found((m - i) + 1)
    <2> HIDE DEF sent, m
    <2> QED BY <1>1
  <1> HIDE DEF sent, m, found
  <1>5. \A i \in 1 .. m : (m - i) + 1 \in 1 .. m /\ (m - ((m - i) + 1)) + 1 = i
    BY <1>2
  <1> QED BY <1>3, <1>4, <1>5 DEF sent

LEMMA SortedPlaces ==
    ASSUME NEW D, NEW context, Form(D, context), NEW lines, NEW patch, PatchOf(lines, patch),
           AllFound(lines, patch, D, context)
    PROVE  LET base == Text(lines, D)
               sent == TextHunks(lines, patch, D, context)
           IN  SortedByStart([i \in DOMAIN sent |-> Locate(base, sent[i])]) = InPlaces(lines, patch, D, context)
  <1> DEFINE m == Len(patch)
             base == Text(lines, D)
             sent == TextHunks(lines, patch, D, context)
             hunk(k) == HunkOf(lines, patch[k], D, context)
             R == InPlaces(lines, patch, D, context)
  <1>1. DOMAIN sent = 1 .. m /\ \A i \in 1 .. m : sent[i] = hunk((m - i) + 1)
    BY SentHunks
  <1>2. m \in Nat /\ \A i \in 1 .. m : (m - i) + 1 \in 1 .. m
    BY PatchBounds
  <1>3. Delimiter(D) /\ lines \in Seq(TextLines) /\ context \in BOOLEAN /\ (context => D = <<LF>>)
    BY DEF Form, PatchOf
  <1>4. ASSUME NEW k \in 1 .. m
        PROVE  Locate(base, hunk(k)) = LocatedOn(lines, patch[k], D, hunk(k))
    <2>1. patch[k] \in HunksOf(TextLines) /\ InPlan(lines, patch[k])
      BY PatchBounds
    <2>2. Located(base, hunk(k))
      BY DEF AllFound
    <2> QED BY <1>3, <2>1, <2>2, LocatedAt
  <1>5. \A k \in 1 .. m : R[k] = Locate(base, hunk(k)) /\ R[k].start = Offset(lines, D, patch[k].first - 1)
    BY <1>4 DEF InPlaces, LocatedOn
  <1>6. \A k \in 1 .. m : R[k].start \in Int
    <2>1. \A k \in 1 .. m : patch[k].first - 1 \in 0 .. Len(lines)
      BY PatchBounds
    <2>2. \A j \in 0 .. Len(lines) : Offset(lines, D, j) \in Nat
      BY <1>3, Offsets
    <2> QED BY <1>5, <2>1, <2>2
  <1>7. ASSUME NEW i \in 1 .. m, NEW j \in 1 .. m, i < j PROVE R[i].start < R[j].start
    <2>1. patch[i].first - 1 \in 0 .. Len(lines) /\ patch[j].first - 1 \in 0 .. Len(lines) /\ patch[i].first - 1 < patch[j].first - 1
      <3>1. /\ patch[i].first \in Nat /\ patch[i].last \in Nat /\ 1 <= patch[i].first /\ patch[i].first <= patch[i].last
            /\ patch[j].first \in Nat /\ patch[j].last \in Nat /\ patch[j].first <= patch[j].last /\ patch[j].last <= Len(lines)
            /\ patch[i].last < patch[j].first /\ Len(lines) \in Nat
        BY <1>7, PatchBounds
      <3> QED BY SMTT(30), <3>1
    <2>2. /\ Offset(lines, D, patch[i].first - 1) + Len(D) <= Offset(lines, D, patch[j].first - 1)
          /\ Len(D) \in {1, 2}
      BY <1>3, <2>1, Offsets
    <2>3. R[i].start + Len(D) <= R[j].start /\ R[i].start \in Int /\ R[j].start \in Int
      BY <1>5, <1>6, <2>2
    <2>4. \A a, b \in Int : \A x \in {1, 2} : a + x <= b => a < b
      OBVIOUS
    <2> HIDE DEF R
    <2> QED BY <2>2, <2>3, <2>4
  <1>8. R = [i \in 1 .. m |-> R[i]]
    BY DEF InPlaces
  <1>9. [i \in DOMAIN sent |-> Locate(base, sent[i])] = [i \in 1 .. m |-> R[(m - i) + 1]]
    <2> HIDE DEF sent, R, base, hunk, m
    <2>1. \A i \in 1 .. m : Locate(base, sent[i]) = R[(m - i) + 1]
      BY <1>1, <1>2, <1>5
    <2> QED BY <1>1, <2>1
  <1> HIDE DEF R
  <1>10. SortedByStart([i \in 1 .. m |-> R[(m - i) + 1]]) = [i \in 1 .. m |-> R[i]]
    BY <1>2, <1>6, <1>7, SortOfReversed
  <1> QED BY <1>8, <1>9, <1>10 DEF R

-----------------------------------------------------------------------------
(* The widened patch. *)

Deletes(patch, k) == patch[k].new = <<>>

(* A deletion, and the next hunk follows without a line between them. *)
Adjacent(patch, k) == Deletes(patch, k) /\ patch[k].last + 1 = patch[k + 1].first

Start(lines, patch, D, k) == Offset(lines, D, patch[k].first - 1)
End(lines, patch, D, k) == Offset(lines, D, patch[k].last) - Len(D)

WideStart(lines, patch, D, k) ==
    IF /\ Deletes(patch, k) /\ patch[k].last = Len(lines) /\ patch[k].first > 1
       /\ ~ (k > 1 /\ Adjacent(patch, k - 1))
    THEN Start(lines, patch, D, k) - Len(D)
    ELSE Start(lines, patch, D, k)

WideEnd(lines, patch, D, k) ==
    IF Deletes(patch, k) /\ patch[k].last < Len(lines)
    THEN End(lines, patch, D, k) + Len(D)
    ELSE End(lines, patch, D, k)

Place(lines, patch, D, context, k, start, end) ==
    [hunk |-> HunkOf(lines, patch[k], D, context), start |-> start, end |-> end, endLine |-> patch[k].last]

WidePlaces(lines, patch, D, context) ==
    [k \in 1 .. Len(patch) |->
        Place(lines, patch, D, context, k, WideStart(lines, patch, D, k), WideEnd(lines, patch, D, k))]

LEMMA EmptyText ==
    ASSUME NEW D, Delimiter(D), NEW new \in Seq(TextLines), new # << <<>> >>
    PROVE  Text(new, D) = <<>> <=> new = <<>>
  <1>1. Text(<<>>, D) = <<>>
    BY DEF Text
  <1>2. ASSUME Text(new, D) = <<>>, new # <<>> PROVE FALSE
    <2>1. LineFeeds(<<>>) = Len(new) - 1
      BY <1>2, LineFeedsOfText
    <2>2. Len(new) \in Nat
      BY LenProperties
    <2>3. Len(new) = 1
      <3>1. Len(new) - 1 = 0
        BY <2>1, NoLineFeeds
      <3> QED BY <2>2, <3>1
    <2>4. 1 \in 1 .. Len(new)
      BY <2>3
    <2>5. Text(SubSeq(new, 1, 1), D) = new[1]
      BY <2>4, OneLine
    <2>6. SubSeq(new, 1, 1) = new
      BY <2>3, SubSeqFull
    <2>7. new[1] = <<>>
      BY <1>2, <2>5, <2>6
    <2>8. new = << <<>> >>
      <3>1. << <<>> >> \in Seq(TextLines) /\ Len(<< <<>> >>) = 1 /\ << <<>> >>[1] = <<>>
        BY DEF TextLines
      <3> DEFINE blank == << <<>> >>
      <3>2. blank \in Seq(TextLines) /\ Len(new) = Len(blank) /\ \A i \in 1 .. Len(new) : new[i] = blank[i]
        BY <2>3, <2>7, <3>1
      <3> HIDE DEF blank
      <3>3. new = blank
        BY <3>2, SeqEqual
      <3> QED BY <3>3 DEF blank
    <2> QED BY <2>8
  <1> QED BY <1>1, <1>2

(* The offsets of the hunks, as far as the arithmetic below needs them. *)
LEMMA PlaceBounds ==
    ASSUME NEW D, Delimiter(D), NEW lines, NEW patch, PatchOf(lines, patch), NEW k \in 1 .. Len(patch)
    PROVE  LET base == Text(lines, D)
               from == Start(lines, patch, D, k)
               to   == End(lines, patch, D, k)
           IN  /\ from \in Nat /\ to \in Nat /\ Len(D) \in Nat /\ Len(D) > 0 /\ from <= to /\ Len(base) \in Nat
               /\ patch[k].first = 1 => from = 0
               /\ patch[k].first > 1 => Len(D) <= from
               /\ patch[k].last = Len(lines) => to = Len(base)
               /\ patch[k].last < Len(lines) => to + Len(D) <= Len(base)
               /\ k > 1 => /\ End(lines, patch, D, k - 1) \in Nat
                           /\ patch[k - 1].last < Len(lines) /\ patch[k].first > 1
                           /\ End(lines, patch, D, k - 1) + Len(D) <= from
                           /\ patch[k - 1].last + 1 = patch[k].first =>
                                 End(lines, patch, D, k - 1) + Len(D) = from
                           /\ patch[k - 1].last + 1 # patch[k].first =>
                                 End(lines, patch, D, k - 1) + Len(D) <= from - Len(D)
  <1> DEFINE n == Len(lines)
             base == Text(lines, D)
             off(i) == Offset(lines, D, i)
             f == patch[k].first
             q == patch[k].last
             d == Len(D)
  <1>1. /\ n \in Nat /\ f \in Nat /\ q \in Nat /\ 1 <= f /\ f <= q /\ q <= n
    BY PatchBounds
  <1>2. lines \in Seq(TextLines) /\ lines # <<>>
    BY DEF PatchOf
  <1>3. /\ d \in {1, 2}
        /\ \A i \in 0 .. n : off(i) \in Nat
        /\ off(0) = 0
        /\ \A i, j \in 0 .. n : i < j => off(i) + d <= off(j)
        /\ Len(base) = off(n) - d
    BY <1>2, Offsets
  <1>4. Len(base) \in Nat
    BY <1>2, TextSymbols, LenProperties
  <1>5. k > 1 => /\ patch[k - 1].last \in Nat /\ 1 <= patch[k - 1].last /\ patch[k - 1].last < f
    <2> SUFFICES ASSUME k > 1 PROVE patch[k - 1].last \in Nat /\ 1 <= patch[k - 1].last /\ patch[k - 1].last < f
      OBVIOUS
    <2>1. k - 1 \in 1 .. Len(patch) /\ k - 1 < k
      BY PatchBounds
    <2>2. patch[k - 1].last < f
      BY <2>1, PatchBounds
    <2>3. /\ patch[k - 1].first \in Nat /\ patch[k - 1].last \in Nat
          /\ 1 <= patch[k - 1].first /\ patch[k - 1].first <= patch[k - 1].last
      BY <2>1, PatchBounds
    <2> QED BY <2>2, <2>3
  <1>6. /\ Start(lines, patch, D, k) = off(f - 1) /\ End(lines, patch, D, k) = off(q) - d
        /\ End(lines, patch, D, k - 1) = off(patch[k - 1].last) - d
    BY DEF Start, End
  <1> DEFINE g == patch[k - 1].last
             from == off(f - 1)
             next == off(q)
             prev == off(g)
  <1>7. from \in Nat /\ next \in Nat /\ from + d <= next /\ d \in {1, 2} /\ d \in Nat /\ d > 0
    <2>1. f - 1 \in 0 .. n /\ q \in 0 .. n /\ f - 1 < q
      BY <1>1
    <2>2. off(f - 1) + d <= off(q) /\ off(f - 1) \in Nat /\ off(q) \in Nat
      BY <1>3, <2>1
    <2>3. d \in {1, 2}
      BY <1>3
    <2> HIDE DEF d
    <2>4. d \in Nat /\ d > 0
      BY <2>3
    <2> QED BY <2>2, <2>3, <2>4
  <1>8. (f = 1 => from = 0) /\ (f > 1 => d <= from)
    <2>1. f - 1 \in 0 .. n /\ 0 \in 0 .. n /\ (f = 1 => f - 1 = 0) /\ (f > 1 => 0 < f - 1)
      BY <1>1
    <2>2. f > 1 => off(0) + d <= off(f - 1)
      BY <1>3, <2>1
    <2> HIDE DEF off, n, f
    <2> QED BY <1>3, <1>7, <2>1, <2>2
  <1>9. (q = n => next - d = Len(base)) /\ (q < n => next <= Len(base))
    <2>1. q \in 0 .. n /\ n \in 0 .. n
      BY <1>1
    <2>2. q < n => off(q) + d <= off(n)
      BY <1>3, <2>1
    <2>3. off(n) \in Nat
      BY <1>3, <2>1
    <2> HIDE DEF off, n, q, base
    <2> QED BY <1>3, <1>7, <2>2, <2>3
  <1>10. k > 1 => /\ prev \in Nat /\ d <= prev /\ g < n /\ f > 1 /\ prev <= from
                  /\ (g + 1 = f => prev = from) /\ (g + 1 # f => prev + d <= from)
    <2> SUFFICES ASSUME k > 1
                 PROVE  /\ prev \in Nat /\ d <= prev /\ g < n /\ f > 1 /\ prev <= from
                        /\ (g + 1 = f => prev = from) /\ (g + 1 # f => prev + d <= from)
      OBVIOUS
    <2>1. /\ g \in 0 .. n /\ 0 \in 0 .. n /\ 0 < g /\ f - 1 \in 0 .. n /\ g < n /\ f > 1
          /\ (g + 1 = f => g = f - 1) /\ (g + 1 # f => g < f - 1)
      <3>1. g \in Nat /\ 1 <= g /\ g < f
        BY <1>5
      <3> HIDE DEF g, f, n
      <3> QED BY <1>1, <3>1
    <2>2. off(0) + d <= prev /\ prev \in Nat
      BY <1>3, <2>1
    <2>3. g + 1 # f => prev + d <= from
      BY <1>3, <2>1
    <2>4. g + 1 = f => prev = from
      BY <2>1
    <2> HIDE DEF prev, from, off, g, f, n
    <2> QED BY <1>3, <1>7, <2>1, <2>2, <2>3, <2>4
  <1> HIDE DEF from, next, prev, g, f, q, base, n, d
  <1> DEFINE to == next - d
             before == prev - d
  <1>11. /\ from \in Nat /\ to \in Nat /\ d \in Nat /\ d > 0 /\ from <= to /\ Len(base) \in Nat
         /\ (f = 1 => from = 0) /\ (f > 1 => d <= from)
         /\ (q = n => to = Len(base)) /\ (q < n => to + d <= Len(base))
    BY <1>4, <1>7, <1>8, <1>9
  <1>12. k > 1 => /\ before \in Nat /\ g < n /\ f > 1 /\ before + d <= from
                  /\ (g + 1 = f => before + d = from) /\ (g + 1 # f => before + d <= from - d)
    BY <1>7, <1>10
  <1> HIDE DEF to, before
  <1> QED BY <1>6, <1>11, <1>12 DEF from, next, prev, to, before, g, f, q, base, n, d

(* The delimiters around a hunk. *)
LEMMA PlaceDelimiters ==
    ASSUME NEW D, Delimiter(D), NEW lines, NEW patch, PatchOf(lines, patch), NEW k \in 1 .. Len(patch)
    PROVE  LET base == Text(lines, D)
               from == Start(lines, patch, D, k)
               to   == End(lines, patch, D, k)
           IN  /\ base \in Seq(Symbols(D))
               /\ from = 0 \/ IsAt(base, from - 1, <<LF>>)
               /\ DelimiterAfter(base, to) = IF patch[k].last < Len(lines) THEN Len(D) ELSE 0
               /\ \A bound \in Int : /\ patch[k].first = 1 => DelimiterBefore(base, from, bound) = 0
                                     /\ patch[k].first > 1 /\ bound <= from - Len(D) =>
                                           DelimiterBefore(base, from, bound) = Len(D)
                                     /\ patch[k].first > 1 /\ bound >= from => DelimiterBefore(base, from, bound) = 0
  <1> DEFINE n == Len(lines)
             base == Text(lines, D)
             from == Start(lines, patch, D, k)
             to   == End(lines, patch, D, k)
             f == patch[k].first
             q == patch[k].last
  <1>1. /\ n \in Nat /\ f \in Nat /\ q \in Nat /\ 1 <= f /\ f <= q /\ q <= n
    BY PatchBounds
  <1>2. lines \in Seq(TextLines) /\ lines # <<>>
    BY DEF PatchOf
  <1>3. (f = 1 => from = 0) /\ (q = n => to = Len(base))
    BY PlaceBounds
  <1>4. from = Offset(lines, D, f - 1) /\ to = Offset(lines, D, q) - Len(D)
    BY DEF Start, End
  <1>5. /\ base \in Seq(Symbols(D))
        /\ DelimiterAfter(base, Len(base)) = 0
        /\ \A bound \in Int : DelimiterBefore(base, 0, bound) = 0
    BY <1>2, DelimitersAround
  <1>6. \A b \in 1 .. n - 1 :
           /\ DelimiterAfter(base, Offset(lines, D, b) - Len(D)) = Len(D)
           /\ IsAt(base, Offset(lines, D, b) - 1, <<LF>>)
           /\ \A bound \in Int : /\ bound <= Offset(lines, D, b) - Len(D) =>
                                      DelimiterBefore(base, Offset(lines, D, b), bound) = Len(D)
                                 /\ bound >= Offset(lines, D, b) =>
                                      DelimiterBefore(base, Offset(lines, D, b), bound) = 0
    BY <1>2, DelimitersAround
  <1> HIDE DEF base, from, to, f, q, n
  <1>7. /\ q < n => q \in 1 .. n - 1
        /\ ~ (q < n) => q = n
        /\ f > 1 => f - 1 \in 1 .. n - 1
        /\ ~ (f > 1) => f = 1
    BY <1>1
  <1>8. DelimiterAfter(base, to) = IF q < n THEN Len(D) ELSE 0
    BY <1>3, <1>4, <1>5, <1>6, <1>7
  <1>9. from = 0 \/ IsAt(base, from - 1, <<LF>>)
    BY <1>3, <1>4, <1>6, <1>7
  <1>10. ASSUME NEW bound \in Int
         PROVE  /\ f = 1 => DelimiterBefore(base, from, bound) = 0
                /\ f > 1 /\ bound <= from - Len(D) => DelimiterBefore(base, from, bound) = Len(D)
                /\ f > 1 /\ bound >= from => DelimiterBefore(base, from, bound) = 0
    <2>1. f = 1 => DelimiterBefore(base, from, bound) = 0
      BY <1>3, <1>5
    <2>2. f > 1 => /\ bound <= from - Len(D) => DelimiterBefore(base, from, bound) = Len(D)
                   /\ bound >= from => DelimiterBefore(base, from, bound) = 0
      BY <1>4, <1>6, <1>7
    <2> QED BY <2>1, <2>2
  <1> QED BY <1>5, <1>8, <1>9, <1>10 DEF base, from, to, f, q, n

LEMMA PlaceWidened ==
    ASSUME NEW D, NEW context, Delimiter(D), NEW lines, NEW patch, PatchOf(lines, patch),
           NEW k \in 1 .. Len(patch), Deletes(patch, k), NEW bound \in Int,
           k = 1 => bound = 0, k > 1 => bound = WideEnd(lines, patch, D, k - 1)
    PROVE  fullLineDeletionOffsets(Text(lines, D),
                LocatedOn(lines, patch[k], D, HunkOf(lines, patch[k], D, context)), bound)
             = Place(lines, patch, D, context, k, WideStart(lines, patch, D, k), WideEnd(lines, patch, D, k))
  <1> DEFINE n == Len(lines)
             base == Text(lines, D)
             from == Start(lines, patch, D, k)
             to   == End(lines, patch, D, k)
             f == patch[k].first
             q == patch[k].last
             d == Len(D)
             hunk == HunkOf(lines, patch[k], D, context)
             r == [hunk |-> hunk, start |-> from, end |-> to, endLine |-> q]
  <1>1. /\ from \in Nat /\ to \in Nat /\ d \in Nat /\ d > 0
        /\ f \in Nat /\ q \in Nat /\ n \in Nat /\ f >= 1 /\ q <= n /\ k \in Nat /\ k >= 1
        /\ f > 1 => d <= from
    <2>1. /\ from \in Nat /\ to \in Nat /\ d \in Nat /\ d > 0
          /\ f > 1 => d <= from
      BY PlaceBounds
    <2>2. f \in Nat /\ q \in Nat /\ n \in Nat /\ f >= 1 /\ q <= n /\ Len(patch) \in Nat
      BY PatchBounds
    <2>3. k \in Nat /\ k >= 1
      BY <2>2
    <2> HIDE DEF from, to, d, f, q, n
    <2> QED BY <2>1, <2>2, <2>3
  <1>2. LocatedOn(lines, patch[k], D, hunk) = r
    BY DEF LocatedOn, Start, End
  <1>3. /\ from = 0 \/ IsAt(base, from - 1, <<LF>>)
        /\ DelimiterAfter(base, to) = IF q < n THEN d ELSE 0
        /\ f = 1 => DelimiterBefore(base, from, bound) = 0
        /\ f > 1 /\ bound <= from - d => DelimiterBefore(base, from, bound) = d
        /\ f > 1 /\ bound >= from => DelimiterBefore(base, from, bound) = 0
    BY PlaceDelimiters
  <1>4. q = n => to = Len(base)
    BY PlaceBounds
  <1>5. k > 1 => IF Adjacent(patch, k - 1) THEN bound = from ELSE bound <= from - d
    <2> SUFFICES ASSUME k > 1 PROVE IF Adjacent(patch, k - 1) THEN bound = from ELSE bound <= from - d
      OBVIOUS
    <2> DEFINE prev == End(lines, patch, D, k - 1)
               g == patch[k - 1].last
    <2>1. /\ prev \in Nat /\ g < n /\ prev + d <= from
          /\ (g + 1 = f => prev + d = from)
          /\ (g + 1 # f => prev + d <= from - d)
      BY PlaceBounds
    <2>2. bound = IF Deletes(patch, k - 1) THEN prev + d ELSE prev
      BY <2>1 DEF WideEnd
    <2>3. Adjacent(patch, k - 1) <=> Deletes(patch, k - 1) /\ g + 1 = f
      <3>1. (k - 1) + 1 = k
        BY <1>1
      <3> QED BY <3>1 DEF Adjacent
    <2> HIDE DEF prev, g, from, d, f, n
    <2>4. prev <= from - d
      BY <1>1, <2>1
    <2> QED BY <1>1, <2>1, <2>2, <2>3, <2>4
  <1>6. /\ WideStart(lines, patch, D, k) = IF q = n /\ f > 1 /\ ~ (k > 1 /\ Adjacent(patch, k - 1)) THEN from - d ELSE from
        /\ WideEnd(lines, patch, D, k) = IF q < n THEN to + d ELSE to
    BY DEF WideStart, WideEnd
  <1> DEFINE at(a, b) == [hunk |-> hunk, start |-> a, end |-> b, endLine |-> q]
  <1>7. Place(lines, patch, D, context, k, WideStart(lines, patch, D, k), WideEnd(lines, patch, D, k))
          = at(WideStart(lines, patch, D, k), WideEnd(lines, patch, D, k))
    BY DEF Place
  <1> HIDE DEF n, base, from, to, f, q, d, hunk
  <1>8. CASE q < n
    <2>1. DelimiterAfter(base, to) > 0 /\ DelimiterAfter(base, to) = d /\ q # n
      BY <1>1, <1>3, <1>8
    <2>2. fullLineDeletionOffsets(base, r, bound) = [r EXCEPT !.end = @ + d]
      BY <1>3, <2>1 DEF fullLineDeletionOffsets
    <2>3. fullLineDeletionOffsets(base, r, bound) = at(from, to + d)
      BY <2>2
    <2>4. WideStart(lines, patch, D, k) = from /\ WideEnd(lines, patch, D, k) = to + d
      BY <1>6, <1>8, <2>1
    <2> QED BY <1>2, <1>7, <2>3, <2>4 DEF base, hunk
  <1>9. CASE q = n
    <2>0. ~ (q < n)
      BY <1>1, <1>9
    <2>1. DelimiterAfter(base, to) = 0 /\ to = Len(base)
      BY <1>3, <1>4, <1>9, <2>0
    <2> DEFINE before == DelimiterBefore(base, from, bound)
    <2>2. fullLineDeletionOffsets(base, r, bound) = [r EXCEPT !.start = @ - DelimiterBefore(base, @, bound)]
      BY <1>3, <2>1 DEF fullLineDeletionOffsets
    <2>3. fullLineDeletionOffsets(base, r, bound) = at(from - before, to)
      BY <2>2
    <2>4. WideEnd(lines, patch, D, k) = to
      BY <1>6, <2>0
    <2>5. WideStart(lines, patch, D, k) = from - before
      <3>1. CASE f = 1
        BY <1>1, <1>3, <1>6, <3>1
      <3>2. CASE f > 1 /\ k = 1
        <4>1. bound <= from - d
          BY <1>1, <3>2
        <4> QED BY <1>1, <1>3, <1>6, <1>9, <3>2, <4>1
      <3>3. CASE f > 1 /\ k > 1 /\ Adjacent(patch, k - 1)
        <4>1. before = 0 /\ WideStart(lines, patch, D, k) = from
          BY <1>1, <1>3, <1>5, <1>6, <3>3
        <4> QED BY <1>1, <4>1
      <3>4. CASE f > 1 /\ k > 1 /\ ~ Adjacent(patch, k - 1)
        <4>1. before = d /\ WideStart(lines, patch, D, k) = from - d
          BY <1>3, <1>5, <1>6, <1>9, <3>4
        <4> QED BY <4>1
      <3> QED BY <1>1, <3>1, <3>2, <3>3, <3>4
    <2> HIDE DEF before
    <2> QED BY <1>2, <1>7, <2>3, <2>4, <2>5 DEF base, hunk
  <1> QED BY <1>1, <1>8, <1>9

LEMMA PlaceType ==
    ASSUME NEW D, Delimiter(D), NEW lines, NEW patch, PatchOf(lines, patch), NEW k \in 1 .. Len(patch)
    PROVE  WideStart(lines, patch, D, k) \in Nat /\ WideEnd(lines, patch, D, k) \in Nat
  <1> DEFINE from == Start(lines, patch, D, k)
             to   == End(lines, patch, D, k)
             d == Len(D)
  <1>1. from \in Nat /\ to \in Nat /\ d \in Nat /\ (patch[k].first > 1 => d <= from)
    BY PlaceBounds
  <1> HIDE DEF from, to, d
  <1>2. WideStart(lines, patch, D, k) = from \/ (patch[k].first > 1 /\ WideStart(lines, patch, D, k) = from - d)
    BY DEF WideStart, from, d
  <1>3. WideEnd(lines, patch, D, k) = to \/ WideEnd(lines, patch, D, k) = to + d
    BY DEF WideEnd, to, d
  <1> QED BY <1>1, <1>2, <1>3

LEMMA WidenedPlaces ==
    ASSUME NEW D, NEW context, Delimiter(D), NEW lines, NEW patch, PatchOf(lines, patch)
    PROVE  Widened(Text(lines, D), InPlaces(lines, patch, D, context)) = WidePlaces(lines, patch, D, context)
  <1> DEFINE m == Len(patch)
             base == Text(lines, D)
             R == InPlaces(lines, patch, D, context)
             W == WidePlaces(lines, patch, D, context)
             widen(k, bound) == IF isFullLineDeletion(R[k])
                                THEN fullLineDeletionOffsets(base, R[k], bound) ELSE R[k]
             Good(out) == out = [i \in 1 .. m |-> widen(i, IF i = 1 THEN 0 ELSE out[i - 1].end)]
  <1>1. m \in Nat
    BY PatchBounds
  <1>2. Len(R) = m /\ \A k \in 1 .. m : R[k] = LocatedOn(lines, patch[k], D, HunkOf(lines, patch[k], D, context))
    BY <1>1 DEF InPlaces
  <1>3. Widened(base, R) = CHOOSE out : Good(out)
    <2>1. Widened(base, R) = CHOOSE out : out = [i \in 1 .. Len(R) |->
                                IF isFullLineDeletion(R[i])
                                THEN fullLineDeletionOffsets(base, R[i], IF i = 1 THEN 0 ELSE out[i - 1].end)
                                ELSE R[i]]
      BY DEF Widened
    <2> HIDE DEF R, base, m
    <2> QED BY <1>2, <2>1
  <1>4. ASSUME NEW k \in 1 .. m PROVE isFullLineDeletion(R[k]) <=> Deletes(patch, k)
    <2>1. patch[k].new \in Seq(TextLines)
      BY PatchBounds
    <2>2. patch[k].new # << <<>> >>
      BY DEF PatchOf
    <2>3. Text(patch[k].new, D) = <<>> <=> patch[k].new = <<>>
      BY <2>1, <2>2, EmptyText
    <2>4. R[k].hunk.target = "lines" /\ R[k].hunk.content = Text(patch[k].new, D)
      <3> HIDE DEF R
      <3>1. R[k].hunk = HunkOf(lines, patch[k], D, context)
        <4>1. R[k] = LocatedOn(lines, patch[k], D, HunkOf(lines, patch[k], D, context))
          BY <1>2
        <4>2. LocatedOn(lines, patch[k], D, HunkOf(lines, patch[k], D, context)).hunk = HunkOf(lines, patch[k], D, context)
          BY DEF LocatedOn
        <4> QED BY <4>1, <4>2
      <3> QED BY <3>1 DEF HunkOf
    <2> QED BY <2>3, <2>4 DEF isFullLineDeletion, Deletes
  <1>5. ASSUME NEW k \in 1 .. m
        PROVE  W[k] = widen(k, IF k = 1 THEN 0 ELSE W[k - 1].end)
    <2> DEFINE bound == IF k = 1 THEN 0 ELSE W[k - 1].end
    <2>1. W[k] = Place(lines, patch, D, context, k, WideStart(lines, patch, D, k), WideEnd(lines, patch, D, k))
      BY DEF WidePlaces
    <2>2. bound \in Int /\ (k = 1 => bound = 0) /\ (k > 1 => bound = WideEnd(lines, patch, D, k - 1))
      <3>1. CASE k = 1
        BY <3>1
      <3>2. CASE k # 1
        <4>1. k - 1 \in 1 .. m
          BY <1>1, <3>2
        <4>2. W[k - 1].end = WideEnd(lines, patch, D, k - 1)
          BY <4>1 DEF WidePlaces, Place
        <4>3. WideEnd(lines, patch, D, k - 1) \in Nat
          BY <4>1, PlaceType
        <4> QED BY <3>2, <4>2, <4>3
      <3> QED BY <3>1, <3>2
    <2> HIDE DEF bound
    <2>3. CASE Deletes(patch, k)
      <3>1. fullLineDeletionOffsets(base, R[k], bound) = W[k]
        BY <1>2, <2>1, <2>2, <2>3, PlaceWidened
      <3> QED BY <1>4, <2>3, <3>1 DEF bound
    <2>4. CASE ~ Deletes(patch, k)
      <3>1. /\ WideStart(lines, patch, D, k) = Offset(lines, D, patch[k].first - 1)
            /\ WideEnd(lines, patch, D, k) = Offset(lines, D, patch[k].last) - Len(D)
        BY <2>4 DEF WideStart, WideEnd, Start, End
      <3>2. W[k] = R[k]
        BY <1>2, <2>1, <3>1 DEF Place, LocatedOn
      <3> QED BY <1>4, <2>4, <3>2
    <2> QED BY <2>3, <2>4
  <1>6. W = [k \in 1 .. m |-> W[k]]
    BY DEF WidePlaces
  <1> HIDE DEF W, R, m, base, widen
  <1>7. Good(W)
    <2>1. [k \in 1 .. m |-> W[k]] = [i \in 1 .. m |-> widen(i, IF i = 1 THEN 0 ELSE W[i - 1].end)]
      BY <1>5
    <2> QED BY <1>6, <2>1
  <1> DEFINE out == CHOOSE out : Good(out)
  <1>8. Good(out)
    <2> HIDE DEF Good
    <2> QED BY <1>7
  <1> HIDE DEF out
  <1>9. \A k \in 1 .. m : out[k] = W[k]
    <2> DEFINE S == {k \in Nat : k \in 1 .. m => out[k] = W[k]}
    <2>1. 0 \in S
      OBVIOUS
    <2>2. ASSUME NEW k \in Nat, k \in S PROVE k + 1 \in S
      <3> SUFFICES ASSUME k + 1 \in 1 .. m PROVE out[k + 1] = W[k + 1]
        OBVIOUS
      <3>1. out[k + 1] = widen(k + 1, IF k + 1 = 1 THEN 0 ELSE out[(k + 1) - 1].end)
        BY <1>8
      <3>2. W[k + 1] = widen(k + 1, IF k + 1 = 1 THEN 0 ELSE W[(k + 1) - 1].end)
        BY <1>5
      <3>3. (k + 1) - 1 = k /\ (k + 1 # 1 => k \in 1 .. m)
        BY <1>1
      <3>4. k + 1 # 1 => out[k] = W[k]
        BY <2>2, <3>3
      <3> QED BY <3>1, <3>2, <3>3, <3>4
    <2>3. Nat \subseteq S
      <3> HIDE DEF S
      <3> QED BY <2>1, <2>2, CountUp
    <2> QED BY <1>1, <2>3
  <1>10. out = W
    BY <1>6, <1>8, <1>9
  <1> QED BY <1>3, <1>10 DEF out, W, R, base

LEMMA WideApart ==
    ASSUME NEW D, NEW context, Delimiter(D), NEW lines, NEW patch, PatchOf(lines, patch)
    PROVE  Apart(WidePlaces(lines, patch, D, context))
  <1> DEFINE m == Len(patch)
             W == WidePlaces(lines, patch, D, context)
  <1>1. m \in Nat
    BY PatchBounds
  <1>2. Len(W) = m
    BY <1>1 DEF WidePlaces
  <1>3. ASSUME NEW i \in 1 .. m - 1
        PROVE  WideEnd(lines, patch, D, i) <= WideStart(lines, patch, D, i + 1)
    <2> DEFINE k == i + 1
               from == Start(lines, patch, D, k)
               prev == End(lines, patch, D, i)
               d == Len(D)
               a == WideEnd(lines, patch, D, i)
               b == WideStart(lines, patch, D, k)
    <2>1. k \in 1 .. Len(patch) /\ k > 1 /\ k - 1 = i
      BY <1>1
    <2> HIDE DEF k
    <2>2. /\ from \in Nat /\ prev \in Nat /\ d \in Nat /\ d > 0
          /\ patch[i].last < Len(lines)
          /\ prev + d <= from
          /\ (patch[i].last + 1 = patch[k].first => prev + d = from)
          /\ (patch[i].last + 1 # patch[k].first => prev + d <= from - d)
      <3>1. /\ from \in Nat /\ End(lines, patch, D, k - 1) \in Nat /\ d \in Nat /\ d > 0
            /\ patch[k - 1].last < Len(lines)
            /\ End(lines, patch, D, k - 1) + d <= from
            /\ (patch[k - 1].last + 1 = patch[k].first => End(lines, patch, D, k - 1) + d = from)
            /\ (patch[k - 1].last + 1 # patch[k].first => End(lines, patch, D, k - 1) + d <= from - d)
        BY <2>1, PlaceBounds
      <3> QED BY <2>1, <3>1
    <2>3. a = IF Deletes(patch, i) THEN prev + d ELSE prev
      BY <2>2 DEF WideEnd
    <2>4. b = from \/ (b = from - d /\ ~ Adjacent(patch, i))
      BY <2>1 DEF WideStart
    <2>5. Adjacent(patch, i) <=> Deletes(patch, i) /\ patch[i].last + 1 = patch[k].first
      BY DEF Adjacent, k
    <2> HIDE DEF a, b, prev, from, d
    <2>6. prev <= from - d
      BY <2>2
    <2>7. a <= b
      BY <2>2, <2>3, <2>4, <2>5, <2>6
    <2> QED BY <2>7 DEF a, b, k
  <1>4. \A i \in 1 .. m - 1 : W[i].end <= W[i + 1].start
    <2>1. \A i \in 1 .. m : W[i].end = WideEnd(lines, patch, D, i) /\ W[i].start = WideStart(lines, patch, D, i)
      BY DEF WidePlaces, Place
    <2>2. \A i \in 1 .. m - 1 : i \in 1 .. m /\ i + 1 \in 1 .. m
      BY <1>1
    <2> HIDE DEF W, m
    <2> QED BY <1>3, <2>1, <2>2
  <1> QED BY <1>2, <1>4 DEF Apart

-----------------------------------------------------------------------------
(* The trimmed patch. *)

(* The patch deletes the end of the document; and the deletions in a row    *)
(* that do, the first of them or, if there are none, the end of the patch.  *)
EndsDocument(lines, patch) == Deletes(patch, Len(patch)) /\ patch[Len(patch)].last = Len(lines)

Run(patch) == {i \in 1 .. Len(patch) : \A j \in i .. Len(patch) - 1 : Adjacent(patch, j)}

FirstOfRun(lines, patch) == IF EndsDocument(lines, patch) THEN Min(Run(patch)) ELSE Len(patch) + 1

TrimStart(lines, patch, D, k) ==
    IF k = FirstOfRun(lines, patch) /\ patch[k].first > 1
    THEN Start(lines, patch, D, k) - Len(D)
    ELSE Start(lines, patch, D, k)

TrimPlaces(lines, patch, D, context) ==
    [k \in 1 .. Len(patch) |->
        Place(lines, patch, D, context, k, TrimStart(lines, patch, D, k), WideEnd(lines, patch, D, k))]

LEMMA RunMin ==
    ASSUME NEW patch, Len(patch) \in Nat, Len(patch) >= 1
    PROVE  /\ Min(Run(patch)) \in 1 .. Len(patch)
           /\ \A j \in Min(Run(patch)) .. Len(patch) - 1 : Adjacent(patch, j)
           /\ Min(Run(patch)) > 1 => ~ Adjacent(patch, Min(Run(patch)) - 1)
  <1> DEFINE m == Len(patch)
             S == Run(patch)
  <1>1. m \in S
    BY DEF Run
  <1>2. S \subseteq 1 .. m /\ S \subseteq Nat
    BY DEF Run
  <1>3. PICK g \in S : \A i \in S : ~ (i < g)
    <2> HIDE DEF S
    <2>1. PICK g \in S : \A i \in S : ~ (<<i, g>> \in OpToRel(<, Nat))
      BY <1>1, <1>2, NatLessThanWellFounded, WFMin
    <2>2. \A i \in S : ~ (i < g)
      BY <1>2, <2>1 DEF OpToRel
    <2> QED BY <2>2
  <1>4. Min(S) = g
    <2>1. S \in SUBSET Int /\ \A i \in S : g <= i
      BY <1>2, <1>3
    <2> HIDE DEF S
    <2> QED BY <2>1, MinIs
  <1>5. g \in 1 .. m /\ \A j \in g .. m - 1 : Adjacent(patch, j)
    BY DEF Run
  <1>6. ASSUME g > 1, Adjacent(patch, g - 1) PROVE FALSE
    <2>1. g - 1 \in 1 .. m /\ g - 1 < g
      BY <1>5, <1>6
    <2>2. \A j \in g - 1 .. m - 1 : j = g - 1 \/ j \in g .. m - 1
      BY <1>5
    <2>3. \A j \in g - 1 .. m - 1 : Adjacent(patch, j)
      BY <1>5, <1>6, <2>2
    <2>4. g - 1 \in S
      BY <2>1, <2>3 DEF Run
    <2> QED BY <1>3, <2>1, <2>4
  <1> QED BY <1>4, <1>5, <1>6

LEMMA WideFields ==
    ASSUME NEW D, NEW context, Delimiter(D), NEW lines, NEW patch, PatchOf(lines, patch)
    PROVE  LET W == WidePlaces(lines, patch, D, context)
           IN  /\ Len(W) = Len(patch) /\ W = [k \in 1 .. Len(patch) |-> W[k]]
               /\ \A k \in 1 .. Len(patch) :
                    /\ W[k] = Place(lines, patch, D, context, k, WideStart(lines, patch, D, k), WideEnd(lines, patch, D, k))
                    /\ W[k].hunk.expected = Text(SubSeq(lines, patch[k].first, patch[k].last), D)
                    /\ W[k].start = WideStart(lines, patch, D, k)
                    /\ W[k].end = WideEnd(lines, patch, D, k)
                    /\ isFullLineDeletion(W[k]) <=> Deletes(patch, k)
  <1> DEFINE m == Len(patch)
             W == WidePlaces(lines, patch, D, context)
  <1>1. m \in Nat
    BY PatchBounds
  <1>2. Len(W) = m /\ W = [k \in 1 .. m |-> W[k]]
    BY <1>1 DEF WidePlaces
  <1>3. ASSUME NEW k \in 1 .. m
        PROVE  /\ W[k] = Place(lines, patch, D, context, k, WideStart(lines, patch, D, k), WideEnd(lines, patch, D, k))
               /\ W[k].hunk.expected = Text(SubSeq(lines, patch[k].first, patch[k].last), D)
               /\ W[k].start = WideStart(lines, patch, D, k)
               /\ W[k].end = WideEnd(lines, patch, D, k)
               /\ isFullLineDeletion(W[k]) <=> Deletes(patch, k)
    <2> DEFINE s == WideStart(lines, patch, D, k)
               e == WideEnd(lines, patch, D, k)
               hunk == HunkOf(lines, patch[k], D, context)
    <2>1. W[k] = Place(lines, patch, D, context, k, s, e)
      BY DEF WidePlaces
    <2> HIDE DEF W, s, e
    <2>2. W[k].hunk = hunk /\ W[k].start = s /\ W[k].end = e
      BY <2>1 DEF Place
    <2>3. /\ hunk.target = "lines" /\ hunk.content = Text(patch[k].new, D)
          /\ hunk.expected = Text(SubSeq(lines, patch[k].first, patch[k].last), D)
      BY DEF HunkOf
    <2>4. Text(patch[k].new, D) = <<>> <=> patch[k].new = <<>>
      <3>1. patch[k].new \in Seq(TextLines)
        BY PatchBounds
      <3>2. patch[k].new # << <<>> >>
        BY DEF PatchOf
      <3> QED BY <3>1, <3>2, EmptyText
    <2> HIDE DEF hunk
    <2> QED BY <2>1, <2>2, <2>3, <2>4 DEF isFullLineDeletion, Deletes, s, e
  <1> QED BY <1>2, <1>3

(* The first hunk that is not the last keeps the start it was found at. *)
LEMMA WideStarts ==
    ASSUME NEW D, NEW lines, NEW patch, PatchOf(lines, patch)
    PROVE  \A k \in 1 .. Len(patch) :
              (k < Len(patch) \/ ~ EndsDocument(lines, patch)) => WideStart(lines, patch, D, k) = Start(lines, patch, D, k)
  <1> TAKE k \in 1 .. Len(patch)
  <1>1. k < Len(patch) => patch[k].last < Len(lines) /\ patch[k].last \in Nat /\ Len(lines) \in Nat
    BY PatchBounds
  <1>2. ~ (k < Len(patch)) => k = Len(patch)
    BY PatchBounds
  <1>3. ASSUME k < Len(patch) PROVE patch[k].last # Len(lines)
    BY <1>1, <1>3
  <1> QED BY <1>2, <1>3 DEF WideStart, EndsDocument

(* What stands at the end of the text. *)
LEMMA LastSymbol ==
    ASSUME NEW T, NEW base \in Seq(T), NEW e \in Seq(T), e # <<>>, IsAt(base, Len(base) - Len(e), e)
    PROVE  Last(e) = base[Len(base)]
  <1>1. Len(base) \in Nat /\ Len(e) \in Nat /\ Len(e) >= 1
    BY LenProperties, EmptySeq
  <1>2. Len(base) - Len(e) \in Int /\ Len(e) \in 1 .. Len(e) /\ (Len(base) - Len(e)) + Len(e) = Len(base)
    BY <1>1
  <1>3. base[(Len(base) - Len(e)) + Len(e)] = e[Len(e)]
    BY <1>2, IsAtSymbols
  <1> QED BY <1>2, <1>3 DEF Last

(* A deletion that does not end the document never looks like one that does: *)
(* the delimiter it takes along is no part of the text that it deletes.      *)
LEMMA EndNotReached ==
    ASSUME NEW D, NEW context, Delimiter(D), NEW lines, NEW patch, PatchOf(lines, patch),
           AllFound(lines, patch, D, context), ~ EndsDocument(lines, patch)
    PROVE  LET W == WidePlaces(lines, patch, D, context)
               base == Text(lines, D)
               last == Len(patch)
           IN  ~ /\ isFullLineDeletion(W[last]) /\ W[last].end = Len(base)
                 /\ Last(W[last].hunk.expected) # LF
                 /\ IsAt(base, Len(base) - Len(W[last].hunk.expected), W[last].hunk.expected)
  <1> DEFINE n == Len(lines)
             m == Len(patch)
             base == Text(lines, D)
             W == WidePlaces(lines, patch, D, context)
             q == patch[m].last
             e == W[m].hunk.expected
  <1> SUFFICES ASSUME isFullLineDeletion(W[m]), W[m].end = Len(base), IsAt(base, Len(base) - Len(e), e), Last(e) # LF
               PROVE  FALSE
    OBVIOUS
  <1>1. m \in 1 .. m /\ n \in Nat /\ q \in Nat /\ 1 <= q /\ q <= n
    <2>1. m \in Nat /\ m >= 1 /\ n \in Nat
      BY PatchBounds
    <2>2. m \in 1 .. m
      BY <2>1
    <2>3. patch[m].first \in Nat /\ q \in Nat /\ 1 <= patch[m].first /\ patch[m].first <= q /\ q <= n
      BY <2>2, PatchBounds
    <2> QED BY <2>1, <2>2, <2>3
  <1>2. /\ e = Text(SubSeq(lines, patch[m].first, q), D) /\ W[m].end = WideEnd(lines, patch, D, m)
        /\ Deletes(patch, m)
    BY <1>1, WideFields
  <1>3. q < n /\ q \in 1 .. n - 1
    BY <1>1, <1>2 DEF EndsDocument
  <1>4. lines \in Seq(TextLines) /\ lines # <<>>
    BY DEF PatchOf
  <1>5. base \in Seq(Symbols(D)) /\ IsAt(base, Offset(lines, D, q) - 1, <<LF>>)
    BY <1>3, <1>4, DelimitersAround
  <1>6. Offset(lines, D, q) = Len(base) /\ Offset(lines, D, q) \in Nat
    <2>1. q \in 0 .. Len(lines)
      BY <1>1
    <2>2. Offset(lines, D, q) \in Nat /\ Len(D) \in {1, 2}
      BY <1>4, <2>1, Offsets
    <2>3. WideEnd(lines, patch, D, m) = (Offset(lines, D, q) - Len(D)) + Len(D)
      BY <1>2, <1>3 DEF WideEnd, End
    <2>4. (Offset(lines, D, q) - Len(D)) + Len(D) = Offset(lines, D, q)
      <3> DEFINE o == Offset(lines, D, q)
                 d == Len(D)
      <3>1. o \in Nat /\ d \in {1, 2}
        BY <2>2
      <3> HIDE DEF o, d
      <3>2. (o - d) + d = o
        BY <3>1
      <3> QED BY <3>2 DEF o, d
    <2> QED BY <1>2, <2>2, <2>3, <2>4
  <1>7. base[Len(base)] = LF
    <2> DEFINE o == Offset(lines, D, q)
    <2>1. o - 1 \in Int /\ (o - 1) + 1 = o
      BY <1>6
    <2>2. base[(o - 1) + 1] = LF
      BY <1>5, <2>1, DelimiterIsAt
    <2> QED BY <1>6, <2>1, <2>2
  <1>8. e # <<>> /\ e \in Seq(Symbols(D))
    <2>1. Located(base, HunkOf(lines, patch[m], D, context))
      BY <1>1 DEF AllFound
    <2>2. HunkOf(lines, patch[m], D, context).expected = e
      BY <1>2 DEF HunkOf
    <2>3. e # <<>>
      BY <2>1, <2>2 DEF Located
    <2>4. patch[m].first - 1 \in 0 .. n /\ q \in (patch[m].first - 1) + 1 .. n /\ (patch[m].first - 1) + 1 = patch[m].first
      <3>1. patch[m].first \in Nat /\ 1 <= patch[m].first /\ patch[m].first <= q
        BY <1>1, PatchBounds
      <3> QED BY <1>1, <3>1
    <2>5. Text(SubSeq(lines, (patch[m].first - 1) + 1, q), D) \in Seq(Symbols(D))
      BY <1>4, <2>4, LinesAt
    <2> QED BY <1>2, <2>3, <2>4, <2>5
  <1>9. Last(e) = base[Len(base)]
    <2> HIDE DEF e, base, W
    <2> QED BY <1>5, <1>8, LastSymbol
  <1> QED BY <1>7, <1>9

(* Hunks that meet once widened are neighbours, but at an awkward end. *)
LEMMA Meeting ==
    ASSUME NEW D, NEW context, Delimiter(D), NEW lines, NEW patch, PatchOf(lines, patch),
           EndsDocument(lines, patch), ~ AwkwardEnd(lines, patch), NEW j \in 1 .. Len(patch) - 1
    PROVE  LET W == WidePlaces(lines, patch, D, context)
           IN  (isFullLineDeletion(W[j]) /\ W[j].end = W[j + 1].start) <=> Adjacent(patch, j)
  <1> DEFINE n == Len(lines)
             m == Len(patch)
             W == WidePlaces(lines, patch, D, context)
             k == j + 1
             from == Start(lines, patch, D, k)
             prev == End(lines, patch, D, j)
             d == Len(D)
             g == patch[j].last
             f == patch[k].first
  <1>1. m \in Nat /\ j \in 1 .. m /\ k \in 1 .. m /\ k > 1 /\ k - 1 = j /\ j < m
    <2>1. m \in Nat
      BY PatchBounds
    <2> QED BY <2>1
  <1> HIDE DEF k
  <1>2. /\ from \in Nat /\ prev \in Nat /\ d \in Nat /\ d > 0
        /\ g < n /\ f > 1
        /\ prev + d <= from
        /\ (g + 1 = f => prev + d = from)
        /\ (g + 1 # f => prev + d <= from - d)
    <2>1. /\ from \in Nat /\ End(lines, patch, D, k - 1) \in Nat /\ d \in Nat /\ d > 0
          /\ patch[k - 1].last < n /\ f > 1
          /\ End(lines, patch, D, k - 1) + d <= from
          /\ (patch[k - 1].last + 1 = f => End(lines, patch, D, k - 1) + d = from)
          /\ (patch[k - 1].last + 1 # f => End(lines, patch, D, k - 1) + d <= from - d)
      BY <1>1, PlaceBounds
    <2> QED BY <1>1, <2>1
  <1>3. /\ W[j].end = WideEnd(lines, patch, D, j) /\ W[k].start = WideStart(lines, patch, D, k)
        /\ isFullLineDeletion(W[j]) <=> Deletes(patch, j)
    BY <1>1, WideFields
  <1>4. Deletes(patch, j) => WideEnd(lines, patch, D, j) = prev + d
    BY <1>2 DEF WideEnd
  <1>5. Adjacent(patch, j) <=> Deletes(patch, j) /\ g + 1 = f
    BY DEF Adjacent, k
  <1>6. WideStart(lines, patch, D, k) = from \/ (k = m /\ WideStart(lines, patch, D, k) = from - d /\ ~ Adjacent(patch, j))
    <2>1. WideStart(lines, patch, D, k) = from \/ (WideStart(lines, patch, D, k) = from - d /\ ~ Adjacent(patch, j))
      BY <1>1 DEF WideStart
    <2>2. k # m => WideStart(lines, patch, D, k) = from
      <3>1. k # m => k < m
        BY <1>1
      <3> QED BY <1>1, <3>1, WideStarts
    <2> QED BY <2>1, <2>2
  <1>7. ASSUME Deletes(patch, j), g + 1 # f, k = m PROVE prev + d # from - d
    <2> SUFFICES ASSUME prev + d = from - d PROVE FALSE
      OBVIOUS
    <2> DEFINE off(i) == Offset(lines, D, i)
    <2>1. lines \in Seq(TextLines)
      BY DEF PatchOf
    <2>2. g \in Nat /\ 1 <= g /\ g < f /\ f \in Nat /\ f <= n /\ n \in Nat
      <3>1. /\ patch[j].first \in Nat /\ 1 <= patch[j].first /\ patch[j].first <= g /\ g \in Nat /\ g < f
            /\ f \in Nat /\ patch[k].last \in Nat /\ f <= patch[k].last /\ patch[k].last <= n /\ n \in Nat
        <4>1. j < k
          BY <1>1
        <4> QED BY <1>1, <4>1, PatchBounds
      <3> HIDE DEF g, f, n
      <3> QED BY <3>1
    <2>3. from = off(f - 1) /\ prev = off(g) - d
      BY DEF Start, End
    <2>4. /\ f - 1 \in 1 .. n /\ f - 2 \in 0 .. n /\ g \in 0 .. n /\ f - 1 \in 0 .. n /\ (f - 1) - 1 = f - 2
          /\ g <= f - 2
      <3> HIDE DEF g, f, n
      <3> QED BY <1>7, <2>2
    <2>5. /\ lines[f - 1] \in Seq(Symbols(D)) /\ Len(lines[f - 1]) \in Nat
          /\ off(f - 1) = off(f - 2) + Len(lines[f - 1]) + d
      <3>1. /\ lines[f - 1] \in Seq(Symbols(D)) /\ Len(lines[f - 1]) \in Nat
            /\ off(f - 1) = off((f - 1) - 1) + Len(lines[f - 1]) + d
        BY <2>1, <2>4, Offsets
      <3> QED BY <2>4, <3>1
    <2>6. g < f - 2 => off(g) + d <= off(f - 2)
      BY <2>1, <2>4, Offsets
    <2>7. off(g) \in Nat /\ off(f - 2) \in Nat /\ off(f - 1) \in Nat
      BY <2>1, <2>4, Offsets
    <2>8. g = f - 2 /\ Len(lines[f - 1]) = 0
      <3> HIDE DEF off, from, prev, d, g, f, n
      <3>1. off(g) = off(f - 1) - d
        BY <1>2, <2>3, <2>7
      <3>2. off(g) = off(f - 2) + Len(lines[f - 1])
        BY <1>2, <2>5, <2>7, <3>1
      <3>3. ~ (g < f - 2)
        BY <1>2, <2>5, <2>6, <2>7, <3>2
      <3>4. g = f - 2
        BY <2>2, <2>4, <3>3
      <3>5. Len(lines[f - 1]) = 0
        BY <2>5, <2>7, <3>2, <3>4
      <3> QED BY <3>4, <3>5
    <2>9. lines[f - 1] = <<>>
      BY <2>5, <2>8, EmptySeq
    <2>10. /\ m > 1 /\ Last(patch) = patch[k] /\ patch[m - 1] = patch[j]
           /\ patch[k].last = n /\ patch[k].new = <<>> /\ patch[j].new = <<>>
      BY <1>1, <1>7 DEF Last, Deletes, EndsDocument
    <2>11. patch[j].last = patch[k].first - 2 /\ lines[patch[k].first - 1] = <<>>
      BY <2>8, <2>9
    <2> QED BY <2>10, <2>11 DEF AwkwardEnd
  <1> HIDE DEF W, from, prev, d, g, f, n, m
  <1>8. ASSUME Adjacent(patch, j) PROVE isFullLineDeletion(W[j]) /\ W[j].end = W[k].start
    BY <1>2, <1>3, <1>4, <1>5, <1>6, <1>8
  <1>9. ASSUME Deletes(patch, j), g + 1 # f PROVE W[j].end # W[k].start
    <2>1. prev + d # from
      BY <1>2, <1>9
    <2> QED BY <1>3, <1>4, <1>6, <1>7, <1>9, <2>1
  <1>10. (isFullLineDeletion(W[j]) /\ W[j].end = W[k].start) <=> Adjacent(patch, j)
    BY <1>3, <1>5, <1>8, <1>9
  <1> QED BY <1>10 DEF W, k

(* A text to delete that ends the document ends inside a line. *)
LEMMA EndReached ==
    ASSUME NEW D, NEW context, Delimiter(D), NEW lines, NEW patch, PatchOf(lines, patch),
           AllFound(lines, patch, D, context), EndsDocument(lines, patch), lines[Len(lines)] # <<>>
    PROVE  LET base == Text(lines, D)
               e == Text(SubSeq(lines, patch[Len(patch)].first, patch[Len(patch)].last), D)
           IN  IsAt(base, Len(base) - Len(e), e) /\ Last(e) # LF
  <1> DEFINE n == Len(lines)
             m == Len(patch)
             base == Text(lines, D)
             f == patch[m].first
             q == patch[m].last
             e == Text(SubSeq(lines, f, q), D)
  <1>1. m \in 1 .. m /\ n \in Nat /\ f \in Nat /\ 1 <= f /\ f <= n /\ q = n
    <2>1. m \in Nat /\ m >= 1 /\ n \in Nat
      BY PatchBounds
    <2>2. m \in 1 .. m
      BY <2>1
    <2>3. f \in Nat /\ q \in Nat /\ 1 <= f /\ f <= q /\ q = n
      BY <2>2, PatchBounds DEF EndsDocument
    <2> QED BY <2>1, <2>2, <2>3
  <1>2. lines \in Seq(TextLines) /\ lines # <<>>
    BY DEF PatchOf
  <1>3. f - 1 \in 0 .. n /\ n \in (f - 1) + 1 .. n /\ (f - 1) + 1 = f /\ n \in 1 .. n /\ n \in 0 .. n
    BY <1>1
  <1>4. Len(base) = Offset(lines, D, n) - Len(D) /\ Len(base) \in Nat
    <2>1. base \in Seq(Symbols(D))
      BY <1>2, TextSymbols
    <2> QED BY <1>2, <2>1, Offsets, LenProperties
  <1>5. /\ base \in Seq(Symbols(D)) /\ e \in Seq(Symbols(D))
        /\ IsAt(base, Offset(lines, D, f - 1), e)
        /\ Offset(lines, D, f - 1) + Len(e) = Len(base)
    <2> DEFINE part == Text(SubSeq(lines, (f - 1) + 1, n), D)
    <2>1. /\ base \in Seq(Symbols(D)) /\ part \in Seq(Symbols(D))
          /\ IsAt(base, Offset(lines, D, f - 1), part)
          /\ Offset(lines, D, f - 1) + Len(part) = Offset(lines, D, n) - Len(D)
      BY <1>2, <1>3, LinesAt
    <2>2. part = e
      BY <1>1, <1>3
    <2> QED BY <1>4, <2>1, <2>2
  <1>6. IsAt(base, Len(base) - Len(e), e)
    <2>1. Offset(lines, D, f - 1) \in Nat
      BY <1>2, <1>3, Offsets
    <2>2. Len(e) \in Nat
      BY <1>5, LenProperties
    <2> DEFINE o == Offset(lines, D, f - 1)
    <2> HIDE DEF base, e, o
    <2>3. o = Len(base) - Len(e)
      BY <1>4, <1>5, <2>1, <2>2 DEF o
    <2> QED BY <1>5, <2>3 DEF o
  <1>7. e # <<>>
    <2>1. Located(base, HunkOf(lines, patch[m], D, context))
      BY <1>1 DEF AllFound
    <2>2. HunkOf(lines, patch[m], D, context).expected = e
      BY DEF HunkOf
    <2> QED BY <2>1, <2>2 DEF Located
  <1>8. base[Len(base)] # LF
    <2> DEFINE size == Len(lines[n])
               o == Offset(lines, D, n - 1)
    <2>1. /\ size \in Nat /\ lines[n] \in Seq(Symbols(D))
          /\ o + size = Offset(lines, D, n) - Len(D)
          /\ \A p \in 1 .. size : base[o + p] # LF
      BY <1>2, <1>3, LineSymbols
    <2>2. size >= 1
      BY <2>1, EmptySeq
    <2>3. size \in 1 .. size
      BY <2>1, <2>2
    <2>4. o + size = Len(base)
      BY <1>4, <2>1
    <2> QED BY <2>1, <2>3, <2>4
  <1>9. Last(e) = base[Len(base)]
    <2> HIDE DEF e, base
    <2> QED BY <1>5, <1>6, <1>7, LastSymbol
  <1> QED BY <1>6, <1>8, <1>9

LEMMA Trimmed ==
    ASSUME NEW D, NEW context, Delimiter(D), NEW lines, NEW patch, PatchOf(lines, patch),
           AllFound(lines, patch, D, context), ~ AwkwardEnd(lines, patch)
    PROVE  trimTerminalDeletionDelimiter(Text(lines, D), WidePlaces(lines, patch, D, context))
             = TrimPlaces(lines, patch, D, context)
  <1> DEFINE n == Len(lines)
             m == Len(patch)
             base == Text(lines, D)
             W == WidePlaces(lines, patch, D, context)
             V == TrimPlaces(lines, patch, D, context)
             ends(k) == W[k].end
             first == Min({i \in 1 .. m : \A j \in i .. m - 1 : isFullLineDeletion(W[j]) /\ W[j].end = W[j + 1].start})
             bound(g) == IF g = 1 THEN 0 ELSE W[g - 1].end
             delimiter(g) == DelimiterBefore(base, W[g].start, 0)
             expected == W[m].hunk.expected
             Guard(g) == /\ isFullLineDeletion(W[m]) /\ W[m].end = Len(base)
                         /\ g # m
                         /\ Last(expected) # LF
                         /\ IsAt(base, Len(base) - Len(expected), expected)
                         /\ W[g].start - delimiter(g) >= bound(g)
  <1>1. m \in Nat /\ m >= 1 /\ m \in 1 .. m
    <2>1. m \in Nat /\ m >= 1
      BY PatchBounds
    <2> QED BY <2>1
  <1>2. /\ Len(W) = m /\ W = [k \in 1 .. m |-> W[k]]
        /\ \A k \in 1 .. m :
              /\ W[k] = Place(lines, patch, D, context, k, WideStart(lines, patch, D, k), WideEnd(lines, patch, D, k))
              /\ W[k].hunk.expected = Text(SubSeq(lines, patch[k].first, patch[k].last), D)
              /\ W[k].start = WideStart(lines, patch, D, k)
              /\ W[k].end = WideEnd(lines, patch, D, k)
              /\ isFullLineDeletion(W[k]) <=> Deletes(patch, k)
    BY WideFields
  <1>3. trimTerminalDeletionDelimiter(base, W)
          = IF Guard(first) THEN [W EXCEPT ![first].start = W[first].start - delimiter(first)] ELSE W
    <2> HIDE DEF W, base
    <2> QED BY <1>2 DEF trimTerminalDeletionDelimiter
  <1>4. \A k \in 1 .. m :
           V[k] = Place(lines, patch, D, context, k, TrimStart(lines, patch, D, k), WideEnd(lines, patch, D, k))
    BY DEF TrimPlaces
  <1>5. V = [k \in 1 .. m |-> V[k]]
    BY DEF TrimPlaces
  <1>6. ASSUME \A k \in 1 .. m : WideStart(lines, patch, D, k) = TrimStart(lines, patch, D, k)
        PROVE  W = V
    <2> HIDE DEF W, V
    <2>1. \A k \in 1 .. m : W[k] = V[k]
      BY <1>2, <1>4, <1>6
    <2> QED BY <1>2, <1>5, <2>1
  <1>7. CASE ~ EndsDocument(lines, patch)
    <2>1. ~ Guard(first)
      BY <1>7, EndNotReached
    <2>2. ASSUME NEW k \in 1 .. m PROVE WideStart(lines, patch, D, k) = TrimStart(lines, patch, D, k)
      <3>1. WideStart(lines, patch, D, k) = Start(lines, patch, D, k)
        BY <1>7, WideStarts
      <3>2. FirstOfRun(lines, patch) = m + 1 /\ k # m + 1
        BY <1>1, <1>7 DEF FirstOfRun
      <3> QED BY <3>1, <3>2 DEF TrimStart
    <2>3. W = V
      BY <1>6, <2>2
    <2> QED BY <1>3, <2>1, <2>3
  <1>8. CASE EndsDocument(lines, patch)
    <2> DEFINE g == FirstOfRun(lines, patch)
    <2>1. g = Min(Run(patch))
      BY <1>8 DEF FirstOfRun
    <2>2. first = g
      <3>1. \A j \in 1 .. m - 1 : (isFullLineDeletion(W[j]) /\ W[j].end = W[j + 1].start) <=> Adjacent(patch, j)
        BY <1>8, Meeting
      <3> HIDE DEF W
      <3>2. \A i \in 1 .. m : \A j \in i .. m - 1 : j \in 1 .. m - 1
        BY <1>1
      <3>3. {i \in 1 .. m : \A j \in i .. m - 1 : isFullLineDeletion(W[j]) /\ W[j].end = W[j + 1].start} = Run(patch)
        BY <3>1, <3>2 DEF Run
      <3> QED BY <2>1, <3>3
    <2>3. /\ g \in 1 .. m
          /\ \A j \in g .. m - 1 : Adjacent(patch, j)
          /\ g > 1 => ~ Adjacent(patch, g - 1)
      BY <1>1, <2>1, RunMin
    <2> HIDE DEF first, g
    <2>4. \A k \in 1 .. m : k < m => WideStart(lines, patch, D, k) = Start(lines, patch, D, k)
      BY WideStarts
    <2>5. CASE g = m
      <3>1. ~ Guard(first)
        BY <2>2, <2>5
      <3>2. ASSUME NEW k \in 1 .. m PROVE WideStart(lines, patch, D, k) = TrimStart(lines, patch, D, k)
        <4>1. CASE k = m
          <5>1. Deletes(patch, k) /\ patch[k].last = Len(lines) /\ ~ (k > 1 /\ Adjacent(patch, k - 1))
            BY <1>8, <2>3, <2>5, <4>1 DEF EndsDocument
          <5>2. k = FirstOfRun(lines, patch)
            BY <2>5, <4>1 DEF g
          <5> QED BY <5>1, <5>2 DEF WideStart, TrimStart
        <4>2. CASE k # m
          <5>1. k < m /\ k # FirstOfRun(lines, patch)
            BY <1>1, <2>5, <4>2 DEF g
          <5> QED BY <2>4, <5>1 DEF TrimStart
        <4> QED BY <4>1, <4>2
      <3>3. W = V
        BY <1>6, <3>2
      <3> QED BY <1>3, <3>1, <3>3
    <2>6. CASE g # m
      <3>1. g < m /\ m > 1 /\ m - 1 \in g .. m - 1
        BY <1>1, <2>3, <2>6
      <3>2. Adjacent(patch, m - 1)
        BY <2>3, <3>1
      <3> DEFINE from == Start(lines, patch, D, g)
                 d == Len(D)
                 cut == IF patch[g].first > 1 THEN d ELSE 0
      <3>3. /\ from \in Nat /\ d \in Nat /\ d > 0
            /\ patch[g].first > 1 => d <= from
            /\ patch[g].first \in Nat /\ 1 <= patch[g].first
        <4>1. /\ from \in Nat /\ d \in Nat /\ d > 0
              /\ patch[g].first > 1 => d <= from
          BY <2>3, PlaceBounds
        <4>2. patch[g].first \in Nat /\ 1 <= patch[g].first
          BY <2>3, PatchBounds
        <4> QED BY <4>1, <4>2
      <3>4. W[g].start = from
        BY <1>2, <2>3, <2>4, <3>1
      <3>5. delimiter(g) = cut
        <4>1. /\ patch[g].first = 1 => DelimiterBefore(base, from, 0) = 0
              /\ patch[g].first > 1 /\ 0 <= from - d => DelimiterBefore(base, from, 0) = d
          BY <2>3, PlaceDelimiters
        <4>2. patch[g].first > 1 => 0 <= from - d
          <5> HIDE DEF from, d
          <5> QED BY <3>3
        <4>3. patch[g].first = 1 \/ patch[g].first > 1
          BY <3>3
        <4>4. DelimiterBefore(base, from, 0) = cut
          BY <4>1, <4>2, <4>3
        <4> QED BY <3>4, <4>4
      <3>6. from - cut >= bound(g)
        <4>1. CASE g = 1
          <5> HIDE DEF from, d
          <5> QED BY <3>3, <4>1
        <4>2. CASE g # 1
          <5> DEFINE prev == End(lines, patch, D, g - 1)
          <5>1. g > 1 /\ g - 1 \in 1 .. m /\ (g - 1) + 1 = g
            BY <1>1, <2>3, <4>2
          <5>2. /\ prev \in Nat /\ patch[g - 1].last < n /\ patch[g].first > 1
                /\ prev + d <= from
                /\ (patch[g - 1].last + 1 # patch[g].first => prev + d <= from - d)
            BY <2>3, <5>1, PlaceBounds
          <5>3. W[g - 1].end = IF Deletes(patch, g - 1) THEN prev + d ELSE prev
            BY <1>2, <5>1, <5>2 DEF WideEnd
          <5>4. Deletes(patch, g - 1) => patch[g - 1].last + 1 # patch[g].first
            BY <2>3, <5>1 DEF Adjacent
          <5> HIDE DEF W, from, d, prev, n
          <5>5. prev <= from - d /\ prev + d \in Nat
            BY <3>3, <5>2
          <5>6. W[g - 1].end <= from - d
            BY <5>2, <5>3, <5>4, <5>5
          <5>7. cut = d
            BY <5>2
          <5>8. W[g - 1].end \in Nat /\ from - d \in Int
            BY <3>3, <5>2, <5>3, <5>5
          <5> QED BY <4>2, <5>6, <5>7, <5>8
        <4> QED BY <4>1, <4>2
      <3>7. Guard(g)
        <4>1. isFullLineDeletion(W[m])
          BY <1>1, <1>2, <1>8 DEF EndsDocument
        <4>2. W[m].end = Len(base)
          <5>1. End(lines, patch, D, m) = Len(base)
            BY <1>1, <1>8, PlaceBounds DEF EndsDocument
          <5>2. n \in Nat
            BY PatchBounds
          <5>3. ~ (patch[m].last < Len(lines))
            BY <1>8, <5>2 DEF EndsDocument
          <5> QED BY <1>1, <1>2, <5>1, <5>3 DEF WideEnd
        <4>3. lines[n] # <<>>
          <5>1. m > 1 /\ Last(patch) = patch[m] /\ patch[m].last = n /\ patch[m].new = <<>> /\ patch[m - 1].new = <<>>
            BY <1>8, <3>1, <3>2 DEF EndsDocument, Deletes, Adjacent, Last
          <5> QED BY <5>1 DEF AwkwardEnd
        <4>4. IsAt(base, Len(base) - Len(expected), expected) /\ Last(expected) # LF
          <5>1. expected = Text(SubSeq(lines, patch[m].first, patch[m].last), D)
            BY <1>1, <1>2
          <5> QED BY <1>8, <4>3, <5>1, EndReached
        <4>5. W[g].start - delimiter(g) >= bound(g)
          BY <3>4, <3>5, <3>6
        <4> QED BY <2>6, <4>1, <4>2, <4>4, <4>5
      <3>8. [W EXCEPT ![g].start = from - cut] = V
        <4> DEFINE X == [W EXCEPT ![g].start = from - cut]
        <4>1. X = [k \in 1 .. m |-> IF k = g THEN [W[g] EXCEPT !.start = from - cut] ELSE W[k]]
          <5> HIDE DEF W, from, cut
          <5> QED BY <1>2
        <4>2. ASSUME NEW k \in 1 .. m
              PROVE  (IF k = g THEN [W[g] EXCEPT !.start = from - cut] ELSE W[k]) = V[k]
          <5>1. CASE k = g
            <6>1. TrimStart(lines, patch, D, k) = from - cut
              <7>1. from - 0 = from
                BY <3>3
              <7> QED BY <5>1, <7>1 DEF TrimStart, g
            <6>2. W[g] = Place(lines, patch, D, context, k, WideStart(lines, patch, D, k), WideEnd(lines, patch, D, k))
              BY <1>2, <5>1
            <6>3. [W[g] EXCEPT !.start = from - cut] = Place(lines, patch, D, context, k, from - cut, WideEnd(lines, patch, D, k))
              <7> HIDE DEF W, from, cut
              <7> QED BY <6>2 DEF Place
            <6> QED BY <1>4, <5>1, <6>1, <6>3
          <5>2. CASE k # g
            <6>1. TrimStart(lines, patch, D, k) = Start(lines, patch, D, k)
              BY <5>2 DEF TrimStart, g
            <6>2. WideStart(lines, patch, D, k) = Start(lines, patch, D, k)
              <7>1. CASE k < m
                BY <2>4, <7>1
              <7>2. CASE k = m
                BY <3>1, <3>2, <7>2 DEF WideStart
              <7> QED BY <1>1, <7>1, <7>2
            <6>3. W[k] = V[k]
              BY <1>2, <1>4, <6>1, <6>2
            <6> QED BY <5>2, <6>3
          <5> QED BY <5>1, <5>2
        <4> HIDE DEF W, V, from, cut, X
        <4>3. X = [k \in 1 .. m |-> V[k]]
          BY <4>1, <4>2
        <4> QED BY <1>5, <4>3 DEF X
      <3> HIDE DEF Guard
      <3>9. trimTerminalDeletionDelimiter(base, W) = [W EXCEPT ![g].start = W[g].start - delimiter(g)]
        BY <1>3, <2>2, <3>7
      <3> QED BY <3>4, <3>5, <3>8, <3>9
    <2> QED BY <2>5, <2>6
  <1> QED BY <1>7, <1>8

(* "Resolve": a patch of whole lines that is found is not refused. *)
LEMMA Answered ==
    ASSUME NEW D, NEW context, Form(D, context), NEW lines, NEW patch, PatchOf(lines, patch),
           ~ AwkwardEnd(lines, patch)
    PROVE  LET answer == Resolve(Text(lines, D), TextHunks(lines, patch, D, context))
           IN  /\ AllFound(lines, patch, D, context) => answer = TrimPlaces(lines, patch, D, context)
               /\ ~ AllFound(lines, patch, D, context) => answer = Refused
               /\ TrimPlaces(lines, patch, D, context) # Refused
  <1> DEFINE base == Text(lines, D)
             sent == TextHunks(lines, patch, D, context)
             found == \A i \in DOMAIN sent : Located(base, sent[i])
             R == SortedByStart([i \in DOMAIN sent |-> Locate(base, sent[i])])
             W == WidePlaces(lines, patch, D, context)
  <1>1. Resolve(base, sent) = IF found /\ Apart(Widened(base, R))
                              THEN trimTerminalDeletionDelimiter(base, Widened(base, R)) ELSE Refused
    BY DEF Resolve
  <1>2. found <=> AllFound(lines, patch, D, context)
    BY SentFound
  <1>3. ASSUME AllFound(lines, patch, D, context)
        PROVE  Resolve(base, sent) = TrimPlaces(lines, patch, D, context)
    <2>1. R = InPlaces(lines, patch, D, context)
      BY <1>3, SortedPlaces
    <2>2. Delimiter(D)
      BY DEF Form
    <2>3. Widened(base, InPlaces(lines, patch, D, context)) = W
      BY <2>2, WidenedPlaces
    <2>4. Apart(W)
      BY <2>2, WideApart
    <2>5. trimTerminalDeletionDelimiter(base, W) = TrimPlaces(lines, patch, D, context)
      BY <1>3, <2>2, Trimmed
    <2> HIDE DEF R, W, found, base, sent
    <2> QED BY <1>1, <1>2, <1>3, <2>1, <2>3, <2>4, <2>5
  <1>4. TrimPlaces(lines, patch, D, context) # Refused
    <2>1. Len(patch) \in Nat /\ Len(patch) >= 1
      BY PatchBounds
    <2>2. Len(TrimPlaces(lines, patch, D, context)) = Len(patch)
      BY <2>1 DEF TrimPlaces
    <2>3. Len(Refused) = 0
      BY DEF Refused
    <2> QED BY <2>1, <2>2, <2>3
  <1> HIDE DEF found, R
  <1> QED BY <1>1, <1>2, <1>3, <1>4

-----------------------------------------------------------------------------
(* One splice. *)

Replacing(r, from, to, content) == r.start = from /\ r.end = to /\ r.hunk.content = content

Deleting(r, from, to) == Replacing(r, from, to, <<>>)

LEMMA SpliceParts ==
    ASSUME NEW T, NEW x, NEW y, NEW z, NEW text, MadeOf(T, text, x, y, z),
           NEW r, NEW content, Replacing(r, Len(x), Len(x) + Len(y), content)
    PROVE  SpliceText(text, r) = x \o content \o z
  <1>1. Slice(text, 0, Len(x)) = x /\ Slice(text, Len(x) + Len(y), Len(text)) = z
    BY DEF MadeOf
  <1>2. r.start = Len(x) /\ r.end = Len(x) + Len(y) /\ r.hunk.content = content
    BY DEF Replacing
  <1> QED BY <1>1, <1>2 DEF SpliceText

LEMMA SpliceOut ==
    ASSUME NEW T, NEW x \in Seq(T), NEW y, NEW z, NEW text, MadeOf(T, text, x, y, z),
           NEW r, Deleting(r, Len(x), Len(x) + Len(y))
    PROVE  SpliceText(text, r) = x \o z
  <1> DEFINE none == <<>>
  <1>4. Replacing(r, Len(x), Len(x) + Len(y), none)
    BY DEF Deleting
  <1> HIDE DEF none
  <1>5. SpliceText(text, r) = x \o none \o z
    BY <1>4, SpliceParts
  <1>2. SpliceText(text, r) = x \o <<>> \o z
    BY <1>5 DEF none
  <1>3. x \o <<>> = x
    BY ConcatEmptySeq
  <1> QED BY <1>2, <1>3

(* The lines of A, M and Z, of which a hunk replaces M. *)
Cut(D, A, M, Z) ==
    /\ Delimiter(D)
    /\ A \in Seq(TextLines) /\ M \in Seq(TextLines) /\ Z \in Seq(TextLines) /\ M # <<>>

LEMMA CutSymbols ==
    ASSUME NEW D, NEW A, NEW M, NEW Z, Cut(D, A, M, Z)
    PROVE  LET T == Symbols(D)
           IN  /\ D \in Seq(T) /\ <<>> \in Seq(T)
               /\ Body(A, D) \in Seq(T) /\ Text(A, D) \in Seq(T)
               /\ Body(M, D) \in Seq(T) /\ Text(M, D) \in Seq(T)
               /\ Text(Z, D) \in Seq(T) /\ Rest(Z, D) \in Seq(T)
               /\ Body(M, D) = Text(M, D) \o D
               /\ Len(Body(M, D)) = Len(Text(M, D)) + Len(D)
               /\ A # <<>> => Body(A, D) = Text(A, D) \o D /\ Len(Body(A, D)) = Len(Text(A, D)) + Len(D)
               /\ Len(D) \in Nat /\ Len(Text(A, D)) \in Nat /\ Len(Text(M, D)) \in Nat /\ Len(Body(A, D)) \in Nat
  <1> DEFINE T == Symbols(D)
  <1>1. Delimiter(D) /\ A \in Seq(TextLines) /\ M \in Seq(TextLines) /\ Z \in Seq(TextLines) /\ M # <<>>
    BY DEF Cut
  <1>2. /\ D \in Seq(T) /\ <<>> \in Seq(T)
        /\ Body(A, D) \in Seq(T) /\ Text(A, D) \in Seq(T)
        /\ Body(M, D) \in Seq(T) /\ Text(M, D) \in Seq(T)
        /\ Text(Z, D) \in Seq(T) /\ Rest(Z, D) \in Seq(T)
    BY <1>1, TextSymbols, RestSymbols, DelimiterType, EmptySeq
  <1>3. /\ Body(M, D) = Text(M, D) \o D
        /\ A # <<>> => Body(A, D) = Text(A, D) \o D
    BY <1>1 DEF Body
  <1> HIDE DEF T
  <1>4. Len(Text(M, D) \o D) = Len(Text(M, D)) + Len(D) /\ Len(Text(A, D) \o D) = Len(Text(A, D)) + Len(D)
    BY <1>2, ConcatProperties
  <1>5. Len(D) \in Nat /\ Len(Text(A, D)) \in Nat /\ Len(Text(M, D)) \in Nat /\ Len(Body(A, D)) \in Nat
    BY <1>2, LenProperties
  <1>6. /\ Len(Body(M, D)) = Len(Text(M, D)) + Len(D)
        /\ A # <<>> => Len(Body(A, D)) = Len(Text(A, D)) + Len(D)
    BY <1>3, <1>4
  <1> QED BY <1>2, <1>3, <1>5, <1>6 DEF T

(* The lines are replaced. *)
LEMMA SpliceReplaces ==
    ASSUME NEW D, NEW A, NEW M, NEW Z, Cut(D, A, M, Z), NEW new \in Seq(TextLines), new # <<>>,
           NEW r, Replacing(r, Len(Body(A, D)), Len(Body(A, D)) + Len(Text(M, D)), Text(new, D))
    PROVE  SpliceText(Text(A \o M \o Z, D), r) = Text(A \o new \o Z, D)
  <1>1. /\ Body(A, D) \in Seq(Symbols(D)) /\ Text(M, D) \in Seq(Symbols(D)) /\ Rest(Z, D) \in Seq(Symbols(D))
    BY CutSymbols
  <1>2. Text(A \o M \o Z, D) = Body(A, D) \o Text(M, D) \o Rest(Z, D)
    BY TextCut DEF Cut
  <1>3. Text(A \o new \o Z, D) = Body(A, D) \o Text(new, D) \o Rest(Z, D)
    BY TextCut DEF Cut
  <1>4. SpliceText(Body(A, D) \o Text(M, D) \o Rest(Z, D), r) = Body(A, D) \o Text(new, D) \o Rest(Z, D)
    <2> DEFINE x == Body(A, D)
               y == Text(M, D)
               z == Rest(Z, D)
               text == x \o y \o z
               content == Text(new, D)
    <2>1. MadeOf(Symbols(D), text, x, y, z)
      BY <1>1, Parts
    <2>2. Replacing(r, Len(x), Len(x) + Len(y), content)
      OBVIOUS
    <2> HIDE DEF x, y, z, text, content
    <2>3. SpliceText(text, r) = x \o content \o z
      BY <2>1, <2>2, SpliceParts
    <2> QED BY <2>3 DEF x, y, z, text, content
  <1> QED BY <1>2, <1>3, <1>4

(* The lines are deleted, with the delimiter after them. *)
LEMMA SpliceDeletes ==
    ASSUME NEW D, NEW A, NEW M, NEW Z, Cut(D, A, M, Z), Z # <<>>,
           NEW r, Deleting(r, Len(Body(A, D)), Len(Body(A, D)) + Len(Text(M, D)) + Len(D))
    PROVE  SpliceText(Text(A \o M \o Z, D), r) = Text(A \o Z, D)
  <1>1. /\ Body(A, D) \in Seq(Symbols(D)) /\ Body(M, D) \in Seq(Symbols(D)) /\ Text(Z, D) \in Seq(Symbols(D))
        /\ Len(Body(M, D)) = Len(Text(M, D)) + Len(D)
        /\ Len(D) \in Nat /\ Len(Text(M, D)) \in Nat /\ Len(Body(A, D)) \in Nat
    BY CutSymbols
  <1>2. Text(A \o M \o Z, D) = Body(A, D) \o Body(M, D) \o Text(Z, D)
    <2>1. A \o M \in Seq(TextLines) /\ Body(A \o M, D) = Body(A, D) \o Body(M, D)
      BY TextJoin DEF Cut
    <2>2. Text((A \o M) \o Z, D) = Body(A \o M, D) \o Text(Z, D)
      BY <2>1, TextJoin DEF Cut
    <2> QED BY <2>1, <2>2
  <1>3. Text(A \o Z, D) = Body(A, D) \o Text(Z, D)
    BY TextJoin DEF Cut
  <1>4. Deleting(r, Len(Body(A, D)), Len(Body(A, D)) + Len(Body(M, D)))
    <2>1. Len(Body(A, D)) + Len(Text(M, D)) + Len(D) = Len(Body(A, D)) + Len(Body(M, D))
      BY <1>1
    <2> QED BY <2>1
  <1>5. SpliceText(Body(A, D) \o Body(M, D) \o Text(Z, D), r) = Body(A, D) \o Text(Z, D)
    <2> DEFINE x == Body(A, D)
               y == Body(M, D)
               z == Text(Z, D)
    <2> HIDE DEF x, y, z
    <2>1. x \in Seq(Symbols(D)) /\ y \in Seq(Symbols(D)) /\ z \in Seq(Symbols(D)) /\ Deleting(r, Len(x), Len(x) + Len(y))
      BY <1>1, <1>4 DEF x, y, z
    <2> DEFINE whole == x \o y \o z
    <2>2. MadeOf(Symbols(D), whole, x, y, z)
      BY <2>1, Parts
    <2> HIDE DEF whole
    <2>3. SpliceText(whole, r) = x \o z
      BY <2>1, <2>2, SpliceOut
    <2> QED BY <2>3 DEF x, y, z, whole
  <1> QED BY <1>2, <1>3, <1>5

(* The last lines of a text are deleted; and the delimiter before them. *)
Ending(D, A, M, text, r) ==
    /\ Cut(D, A, M, <<>>) /\ r.hunk.content = <<>>
    /\ \/ text = Text(A \o M, D) /\ r.end = Len(Body(A, D)) + Len(Text(M, D))
       \/ text = Body(A \o M, D) /\ r.end = Len(Body(A, D)) + Len(Body(M, D))

LEMMA SpliceEnds ==
    ASSUME NEW D, NEW A, NEW M, NEW text, NEW r, Ending(D, A, M, text, r)
    PROVE  /\ r.start = Len(Body(A, D)) => SpliceText(text, r) = Body(A, D)
           /\ A # <<>> /\ r.start = Len(Body(A, D)) - Len(D) => SpliceText(text, r) = Text(A, D)
  <1> DEFINE T == Symbols(D)
  <1>7. PICK tail : /\ \/ text = Text(A \o M, D) /\ tail = Text(M, D)
                       \/ text = Body(A \o M, D) /\ tail = Body(M, D)
                    /\ r.end = Len(Body(A, D)) + Len(tail)
    BY DEF Ending
  <1>8. Cut(D, A, M, <<>>) /\ r.hunk.content = <<>>
    BY DEF Ending
  <1>1. /\ D \in Seq(T) /\ <<>> \in Seq(T) /\ Body(A, D) \in Seq(T) /\ Text(A, D) \in Seq(T) /\ tail \in Seq(T)
        /\ A # <<>> => Body(A, D) = Text(A, D) \o D /\ Len(Body(A, D)) = Len(Text(A, D)) + Len(D)
        /\ Len(D) \in Nat /\ Len(Text(A, D)) \in Nat
    BY <1>7, <1>8, CutSymbols
  <1>2. text = Body(A, D) \o tail
    <2>1. Delimiter(D) /\ A \in Seq(TextLines) /\ M \in Seq(TextLines) /\ M # <<>>
      BY <1>8 DEF Cut
    <2>2. Body(A \o M, D) = Body(A, D) \o Body(M, D) /\ Text(A \o M, D) = Body(A, D) \o Text(M, D)
      BY <2>1, TextJoin
    <2> QED BY <1>7, <2>2
  <1>3. text \in Seq(T) /\ Len(tail) \in Nat
    BY <1>1, <1>2, ConcatProperties, LenProperties
  <1> DEFINE x == Body(A, D)
             a == Text(A, D)
  <1>6. /\ D \in Seq(T) /\ <<>> \in Seq(T) /\ x \in Seq(T) /\ a \in Seq(T) /\ tail \in Seq(T)
        /\ A # <<>> => x = a \o D /\ Len(x) = Len(a) + Len(D)
        /\ Len(D) \in Nat /\ Len(a) \in Nat /\ text = x \o tail /\ r.end = Len(x) + Len(tail)
        /\ r.hunk.content = <<>>
    BY <1>1, <1>2, <1>7, <1>8
  <1> HIDE DEF T, x, a
  <1>4. ASSUME r.start = Len(x) PROVE SpliceText(text, r) = x
    <2>1. text = x \o tail \o <<>>
      BY <1>3, <1>6, ConcatEmptySeq
    <2>2. SpliceText(text, r) = x \o <<>>
      <3>1. /\ x \in Seq(T) /\ tail \in Seq(T) /\ <<>> \in Seq(T)
            /\ Deleting(r, Len(x), Len(x) + Len(tail))
        BY <1>4, <1>6 DEF Replacing, Deleting
      <3>2. MadeOf(T, text, x, tail, <<>>)
        BY <2>1, <3>1, Parts
      <3> DEFINE none == <<>>
      <3> HIDE DEF none
      <3>3. MadeOf(T, text, x, tail, none)
        BY <3>2 DEF none
      <3>4. SpliceText(text, r) = x \o none
        BY <3>1, <3>3, SpliceOut
      <3> QED BY <3>4 DEF none
    <2>3. x \o <<>> = x
      BY <1>6, ConcatEmptySeq
    <2> QED BY <2>2, <2>3
  <1>5. ASSUME A # <<>>, r.start = Len(x) - Len(D) PROVE SpliceText(text, r) = a
    <2> DEFINE y == D \o tail
    <2>1. y \in Seq(T) /\ Len(y) = Len(D) + Len(tail)
      BY <1>6, ConcatProperties
    <2>2. (a \o D) \o tail = a \o y
      <3>1. a \in Seq(T) /\ D \in Seq(T) /\ tail \in Seq(T)
        BY <1>6
      <3> QED BY <3>1, ConcatAssociative
    <2> HIDE DEF y
    <2>3. text = a \o y
      BY <1>5, <1>6, <2>2
    <2>4. text = a \o y \o <<>>
      BY <1>3, <2>3, ConcatEmptySeq
    <2>5. r.start = Len(a) /\ r.end = Len(a) + Len(y)
      <3>1. Len(x) = Len(a) + Len(D) /\ r.start = Len(x) - Len(D) /\ r.end = Len(x) + Len(tail)
        BY <1>5, <1>6
      <3>2. Len(a) \in Nat /\ Len(D) \in Nat /\ Len(tail) \in Nat /\ Len(y) = Len(D) + Len(tail)
        BY <1>3, <1>6, <2>1
      <3> QED BY <3>1, <3>2
    <2>6. SpliceText(text, r) = a \o <<>>
      <3>1. /\ a \in Seq(T) /\ y \in Seq(T) /\ <<>> \in Seq(T)
            /\ Deleting(r, Len(a), Len(a) + Len(y))
        BY <1>6, <2>1, <2>5 DEF Replacing, Deleting
      <3>2. MadeOf(T, text, a, y, <<>>)
        BY <2>4, <3>1, Parts
      <3> DEFINE none == <<>>
      <3> HIDE DEF none
      <3>3. MadeOf(T, text, a, y, none)
        BY <3>2 DEF none
      <3>4. SpliceText(text, r) = a \o none
        BY <3>1, <3>3, SpliceOut
      <3> QED BY <3>4 DEF none
    <2>7. a \o <<>> = a
      BY <1>6, ConcatEmptySeq
    <2> QED BY <2>6, <2>7
  <1> QED BY <1>4, <1>5 DEF x, a

-----------------------------------------------------------------------------
(* The splice of a whole patch, from the last hunk up. *)

(* The first line that the hunks from k on may have changed. *)
FirstFrom(lines, patch, k) == IF k > Len(patch) THEN Len(lines) + 1 ELSE patch[k].first

(* The hunks from k on are spliced.  Deletions at the end of the document    *)
(* leave a last delimiter behind until the first of them has taken its own.  *)
Spliced(lines, patch, D, k, doc, text) ==
    LET g == FirstOfRun(lines, patch)
    IN  \E tail \in Seq(TextLines) :
           /\ doc = SubSeq(lines, 1, FirstFrom(lines, patch, k) - 1) \o tail
           /\ tail = <<>> <=> k >= g
           /\ text = IF k <= g \/ k > Len(patch) THEN Text(doc, D) ELSE Body(doc, D)

(* Hunk k, and the document that the later hunks leave. *)
Around(lines, patch, D, k, tail, doc, A, M, Z) ==
    /\ Cut(D, A, M, Z)
    /\ A = SubSeq(lines, 1, patch[k].first - 1)
    /\ A = <<>> <=> patch[k].first = 1
    /\ Len(M) = (patch[k].last - patch[k].first) + 1
    /\ Z = <<>> <=> tail = <<>> /\ patch[k].last + 1 = FirstFrom(lines, patch, k + 1)
    /\ doc = A \o M \o Z
    /\ Splice(doc, patch[k]) = A \o (patch[k].new \o Z)
    /\ patch[k].new \o Z \in Seq(TextLines)
    /\ Len(Body(A, D)) = Start(lines, patch, D, k)
    /\ Len(Body(A, D)) + Len(Text(M, D)) = End(lines, patch, D, k)
    /\ Len(Body(A, D)) + Len(Body(M, D)) = End(lines, patch, D, k) + Len(D)

LEMMA NextFirst ==
    ASSUME NEW lines, NEW patch, PatchOf(lines, patch), NEW k \in 1 .. Len(patch)
    PROVE  /\ FirstFrom(lines, patch, k) = patch[k].first
           /\ FirstFrom(lines, patch, k + 1) \in Nat
           /\ patch[k].last < FirstFrom(lines, patch, k + 1)
           /\ FirstFrom(lines, patch, k + 1) - 1 <= Len(lines)
           /\ k < Len(patch) => FirstFrom(lines, patch, k + 1) = patch[k + 1].first
           /\ k = Len(patch) => FirstFrom(lines, patch, k + 1) = Len(lines) + 1
  <1> DEFINE m == Len(patch)
             n == Len(lines)
  <1>1. m \in Nat /\ n \in Nat /\ patch[k].last \in Nat /\ patch[k].last <= n
    BY PatchBounds
  <1>2. FirstFrom(lines, patch, k) = patch[k].first
    BY <1>1 DEF FirstFrom
  <1>3. CASE k = m
    <2>1. FirstFrom(lines, patch, k + 1) = n + 1
      BY <1>1, <1>3 DEF FirstFrom
    <2> QED BY <1>1, <1>2, <1>3, <2>1
  <1>4. CASE k < m
    <2>1. k + 1 \in 1 .. m /\ k < k + 1
      BY <1>1, <1>4
    <2>2. FirstFrom(lines, patch, k + 1) = patch[k + 1].first
      BY <1>1, <2>1 DEF FirstFrom
    <2>3. /\ patch[k + 1].first \in Nat /\ patch[k + 1].last \in Nat
          /\ patch[k + 1].first <= patch[k + 1].last /\ patch[k + 1].last <= n
      BY <2>1, PatchBounds
    <2>4. patch[k].last < patch[k + 1].first
      BY <2>1, PatchBounds
    <2>5. patch[k + 1].first - 1 <= n
      BY <1>1, <2>3
    <2> QED BY <1>2, <1>4, <2>2, <2>3, <2>4, <2>5
  <1> QED BY <1>1, <1>3, <1>4

LEMMA LinesAssociate ==
    \A x, y, z \in Seq(TextLines) : (x \o y) \o z = x \o (y \o z)
  BY ConcatAssociative

LEMMA CutAround ==
    ASSUME NEW D, Delimiter(D), NEW lines, NEW patch, PatchOf(lines, patch), NEW k \in 1 .. Len(patch),
           NEW tail \in Seq(TextLines), NEW doc, doc = SubSeq(lines, 1, FirstFrom(lines, patch, k + 1) - 1) \o tail
    PROVE  \E A, M, Z : Around(lines, patch, D, k, tail, doc, A, M, Z)
  <1> DEFINE n == Len(lines)
             f == patch[k].first
             q == patch[k].last
             upto == FirstFrom(lines, patch, k + 1) - 1
             new == patch[k].new
             A == SubSeq(lines, 1, f - 1)
             M == SubSeq(lines, (f - 1) + 1, q)
             B == SubSeq(lines, q + 1, upto)
             Z == B \o tail
             whole == A \o M \o Z
  <1>1. /\ n \in Nat /\ f \in Nat /\ q \in Nat /\ 1 <= f /\ f <= q /\ q <= n /\ new \in Seq(TextLines)
        /\ lines \in Seq(TextLines)
    BY PatchBounds DEF PatchOf
  <1>2. upto \in Nat /\ q <= upto /\ upto <= n /\ (q = upto <=> q + 1 = FirstFrom(lines, patch, k + 1))
    <2> DEFINE next == FirstFrom(lines, patch, k + 1)
    <2>1. next \in Nat /\ q < next /\ next - 1 <= n
      BY NextFirst
    <2> HIDE DEF next, q, n
    <2>2. next - 1 \in Nat /\ q <= next - 1 /\ (q = next - 1 <=> q + 1 = next)
      BY <1>1, <2>1
    <2> QED BY <2>1, <2>2 DEF next
  <1>3. CutAt(TextLines, lines, f - 1, q, A, M, SubSeq(lines, q + 1, n))
    <2>1. f - 1 \in Nat /\ f - 1 <= q
      BY SMTT(30), <1>1
    <2> QED BY <1>1, <2>1, CutLines
  <1>4. CutAt(TextLines, lines, q, upto, SubSeq(lines, 1, q), B, SubSeq(lines, upto + 1, n))
    BY <1>1, <1>2, CutLines
  <1>5. /\ A \in Seq(TextLines) /\ M \in Seq(TextLines) /\ Len(A) = f - 1 /\ Len(M) = q - (f - 1)
        /\ (A = <<>> <=> f - 1 = 0) /\ (M = <<>> <=> f - 1 = q) /\ A \o M = SubSeq(lines, 1, q)
    BY <1>3 DEF CutAt
  <1>6. B \in Seq(TextLines) /\ (B = <<>> <=> q = upto) /\ SubSeq(lines, 1, q) \o B = SubSeq(lines, 1, upto)
    BY <1>4 DEF CutAt
  <1>7. Z \in Seq(TextLines)
    BY <1>6, ConcatProperties
  <1>8. Z = <<>> <=> tail = <<>> /\ q + 1 = FirstFrom(lines, patch, k + 1)
    <2>1. Z = <<>> <=> B = <<>> /\ tail = <<>>
      BY <1>6, ConcatSimplifications
    <2> QED BY <1>2, <1>6, <2>1
  <1>9. doc = whole
    <2> DEFINE front == A \o M
    <2>1. front \in Seq(TextLines)
      BY <1>5, ConcatProperties
    <2>2. doc = (front \o B) \o tail
      BY <1>5, <1>6
    <2>3. B \in Seq(TextLines)
      BY <1>6
    <2> HIDE DEF front, B
    <2>4. (front \o B) \o tail = front \o (B \o tail)
      BY <2>1, <2>3, LinesAssociate
    <2> QED BY <2>2, <2>4 DEF front
  <1>10. Cut(D, A, M, Z)
    <2>1. f - 1 # q
      <3> HIDE DEF f, q
      <3> QED BY <1>1
    <2>2. M # <<>>
      BY <1>5, <2>1
    <2> QED BY <1>5, <1>7, <2>2 DEF Cut
  <1>11. new \o Z \in Seq(TextLines)
    BY <1>1, <1>7, ConcatProperties
  <1>12. Len(A) + Len(M) = q /\ Len(A) = f - 1 /\ f - 1 + 1 = f /\ Len(M) = (q - f) + 1
    <2>1. Len(A) = f - 1 /\ Len(M) = q - (f - 1)
      BY <1>5
    <2> HIDE DEF A, M, f, q
    <2> QED BY <1>1, <2>1
  <1>13. /\ Len(Body(A, D)) = Start(lines, patch, D, k)
         /\ Len(Body(A, D)) + Len(Text(M, D)) = End(lines, patch, D, k)
         /\ Len(Body(A, D)) + Len(Body(M, D)) = End(lines, patch, D, k) + Len(D)
    <2>1. f - 1 \in 0 .. n /\ q \in (f - 1) + 1 .. n
      BY SMTT(30), <1>1
    <2>2. /\ Len(Text(M, D)) \in Nat
          /\ Offset(lines, D, f - 1) + Len(Text(M, D)) + Len(D) = Offset(lines, D, q)
          /\ Len(Body(M, D)) = Len(Text(M, D)) + Len(D)
      BY <1>1, <2>1, OffsetsGrow
    <2>3. Offset(lines, D, f - 1) \in Nat /\ Len(D) \in {1, 2}
      BY <1>1, <2>1, Offsets
    <2>4. /\ Start(lines, patch, D, k) = Offset(lines, D, f - 1) /\ End(lines, patch, D, k) = Offset(lines, D, q) - Len(D)
          /\ Len(Body(A, D)) = Offset(lines, D, f - 1)
      BY DEF Start, End, Offset
    <2> DEFINE x == Len(Body(A, D))
               y == Len(Text(M, D))
               z == Len(Body(M, D))
               d == Len(D)
               o == Offset(lines, D, q)
    <2> HIDE DEF A, M
    <2>5. x \in Nat /\ y \in Nat /\ d \in Nat /\ x + y + d = o /\ z = y + d
      BY <2>2, <2>3, <2>4
    <2> HIDE DEF x, y, z, d, o
    <2>6. x + y = o - d /\ x + z = (o - d) + d
      BY <2>5
    <2> QED BY <2>4, <2>6 DEF x, y, z, d, o
  <1>14. Splice(doc, patch[k]) = A \o (new \o Z)
    <2>1. MadeOf(TextLines, whole, A, M, Z)
      BY <1>5, <1>7, Parts
    <2> HIDE DEF whole, A, M, Z, B
    <2>2. Slice(whole, 0, f - 1) = A /\ Slice(whole, q, Len(whole)) = Z
      BY <1>12, <2>1 DEF MadeOf
    <2>3. SubSeq(whole, 1, f - 1) = A /\ SubSeq(whole, q + 1, Len(whole)) = Z
      BY <2>2 DEF Slice
    <2>4. Splice(whole, patch[k]) = A \o new \o Z
      BY <2>3 DEF Splice
    <2> HIDE DEF Z, new
    <2>6. A \in Seq(TextLines) /\ new \in Seq(TextLines) /\ Z \in Seq(TextLines)
      BY <1>1, <1>5, <1>7
    <2>5. (A \o new) \o Z = A \o (new \o Z)
      BY ZenonT(40), <2>6, LinesAssociate
    <2> QED BY <1>9, <2>4, <2>5 DEF new
  <1>15. A = <<>> <=> f = 1
    <2>1. A = <<>> <=> f - 1 = 0
      BY <1>5
    <2> HIDE DEF A, f
    <2> QED BY <1>1, <2>1
  <1>16. Around(lines, patch, D, k, tail, doc, A, M, Z)
    <2> HIDE DEF Z, M, B
    <2> QED BY <1>8, <1>9, <1>10, <1>11, <1>12, <1>13, <1>14, <1>15 DEF Around, whole
  <1> HIDE DEF A, M, Z
  <1> QED BY <1>16

LEMMA RunFacts ==
    ASSUME NEW lines, NEW patch, PatchOf(lines, patch)
    PROVE  LET g == FirstOfRun(lines, patch)
           IN  /\ g \in Nat /\ 1 <= g
               /\ ~ EndsDocument(lines, patch) => g = Len(patch) + 1
               /\ EndsDocument(lines, patch) =>
                     /\ g \in 1 .. Len(patch)
                     /\ \A j \in g .. Len(patch) - 1 : Adjacent(patch, j)
                     /\ g > 1 => ~ Adjacent(patch, g - 1)
  <1> DEFINE m == Len(patch)
             least == Min(Run(patch))
  <1>1. m \in Nat /\ m >= 1
    BY PatchBounds
  <1>2. least \in 1 .. m /\ (\A j \in least .. m - 1 : Adjacent(patch, j)) /\ (least > 1 => ~ Adjacent(patch, least - 1))
    BY <1>1, RunMin
  <1>3. FirstOfRun(lines, patch) = IF EndsDocument(lines, patch) THEN least ELSE m + 1
    BY DEF FirstOfRun
  <1> HIDE DEF least, m
  <1> QED BY <1>1, <1>2, <1>3 DEF m

(* A hunk among the deletions that end the document. *)
LEMMA EndSplice ==
    ASSUME NEW D, Delimiter(D), NEW context, NEW lines, NEW patch, PatchOf(lines, patch),
           NEW k \in 1 .. Len(patch), k >= FirstOfRun(lines, patch),
           NEW doc, NEW text, Spliced(lines, patch, D, k + 1, doc, text)
    PROVE  Spliced(lines, patch, D, k, Splice(doc, patch[k]), SpliceText(text, TrimPlaces(lines, patch, D, context)[k]))
  <1> DEFINE n == Len(lines)
             m == Len(patch)
             g == FirstOfRun(lines, patch)
             h == patch[k]
             r == TrimPlaces(lines, patch, D, context)[k]
  <1>1. /\ n \in Nat /\ m \in Nat /\ k \in Nat /\ k <= m /\ g \in Nat
        /\ EndsDocument(lines, patch) /\ g <= k /\ \A j \in g .. m - 1 : Adjacent(patch, j)
    BY PatchBounds, RunFacts
  <1>2. /\ h.new = <<>> /\ Deletes(patch, k) /\ h.last + 1 = FirstFrom(lines, patch, k + 1)
        /\ (k = m => h.last = n) /\ (k < m => h.last < n) /\ h.last \in Nat
    <2>1. CASE k = m
      <3>1. FirstFrom(lines, patch, k + 1) = n + 1 /\ h.last \in Nat
        BY <2>1, NextFirst, PatchBounds
      <3> QED BY <1>1, <2>1, <3>1 DEF EndsDocument, Deletes
    <2>2. CASE k < m
      <3>1. FirstFrom(lines, patch, k + 1) = patch[k + 1].first
        BY <2>2, NextFirst
      <3>2. k \in g .. m - 1 /\ k \in 1 .. m - 1
        BY <1>1, <2>2
      <3>3. h.last < n /\ h.last \in Nat
        BY <3>2, PatchBounds
      <3> QED BY <1>1, <2>2, <3>1, <3>2, <3>3 DEF Adjacent, Deletes
    <2> QED BY <1>1, <2>1, <2>2
  <1>3. PICK tail \in Seq(TextLines) :
           /\ doc = SubSeq(lines, 1, FirstFrom(lines, patch, k + 1) - 1) \o tail
           /\ tail = <<>> <=> k + 1 >= g
           /\ text = IF k + 1 <= g \/ k + 1 > m THEN Text(doc, D) ELSE Body(doc, D)
    BY DEF Spliced
  <1>4. PICK A, M, Z : Around(lines, patch, D, k, tail, doc, A, M, Z)
    BY <1>3, CutAround
  <1>5. tail = <<>> /\ Z = <<>>
    BY SMTT(30), <1>1, <1>2, <1>3, <1>4 DEF Around
  <1>6. A \in Seq(TextLines) /\ M \in Seq(TextLines) /\ Cut(D, A, M, <<>>)
    BY <1>4, <1>5 DEF Around, Cut
  <1>7. doc = A \o M
    <2>1. A \o M \in Seq(TextLines)
      BY <1>6, ConcatProperties
    <2>2. (A \o M) \o <<>> = A \o M
      BY <2>1, ConcatEmptySeq
    <2> QED BY <1>4, <1>5, <2>2 DEF Around
  <1>8. Splice(doc, h) = A
    <2>1. <<>> \o <<>> = <<>> /\ A \o <<>> = A
      BY <1>6, ConcatEmptySeq, EmptySeq
    <2> QED BY <1>2, <1>4, <1>5, <2>1 DEF Around
  <1>9. /\ r.hunk.content = <<>> /\ r.start = TrimStart(lines, patch, D, k) /\ r.end = WideEnd(lines, patch, D, k)
    <2>1. r = Place(lines, patch, D, context, k, TrimStart(lines, patch, D, k), WideEnd(lines, patch, D, k))
      BY DEF TrimPlaces
    <2>2. Text(<<>>, D) = <<>>
      BY DEF Text
    <2> QED BY <1>2, <2>1, <2>2 DEF Place, HunkOf
  <1>10. /\ Len(Body(A, D)) = Start(lines, patch, D, k)
         /\ Len(Body(A, D)) + Len(Text(M, D)) = End(lines, patch, D, k)
         /\ Len(Body(A, D)) + Len(Body(M, D)) = End(lines, patch, D, k) + Len(D)
         /\ A = <<>> <=> h.first = 1
         /\ A = SubSeq(lines, 1, h.first - 1)
    BY <1>4 DEF Around
  <1>11. \/ text = Text(A \o M, D) /\ r.end = Len(Body(A, D)) + Len(Text(M, D))
         \/ text = Body(A \o M, D) /\ r.end = Len(Body(A, D)) + Len(Body(M, D))
    <2>1. CASE k = m
      <3>1. k + 1 > m
        BY <1>1, <2>1
      <3>2. text = Text(A \o M, D)
        BY <1>3, <1>7, <3>1
      <3>3. WideEnd(lines, patch, D, k) = End(lines, patch, D, k)
        BY <1>1, <1>2, <2>1 DEF WideEnd
      <3> QED BY <1>9, <1>10, <3>2, <3>3
    <2>2. CASE k < m
      <3>1. ~ (k + 1 > m) /\ ~ (k + 1 <= g)
        BY <1>1, <2>2
      <3>2. text = Body(A \o M, D)
        BY <1>3, <1>7, <3>1
      <3>3. WideEnd(lines, patch, D, k) = End(lines, patch, D, k) + Len(D)
        BY <1>1, <1>2, <2>2 DEF WideEnd
      <3> QED BY <1>9, <1>10, <3>2, <3>3
    <2> QED BY <1>1, <2>1, <2>2
  <1>12. /\ r.start = Len(Body(A, D)) => SpliceText(text, r) = Body(A, D)
         /\ A # <<>> /\ r.start = Len(Body(A, D)) - Len(D) => SpliceText(text, r) = Text(A, D)
    <2>1. Ending(D, A, M, text, r)
      BY <1>6, <1>9, <1>11 DEF Ending
    <2> HIDE DEF r
    <2> QED BY <2>1, SpliceEnds
  <1>13. SpliceText(text, r) = IF k <= g \/ k > m THEN Text(A, D) ELSE Body(A, D)
    <2>1. CASE k = g
      <3>1. CASE h.first > 1
        <4>1. r.start = Len(Body(A, D)) - Len(D)
          BY <1>9, <1>10, <2>1, <3>1 DEF TrimStart
        <4>2. A # <<>>
          BY <1>10, <3>1
        <4> QED BY <1>1, <1>12, <2>1, <4>1, <4>2
      <3>2. CASE ~ (h.first > 1)
        <4>1. r.start = Len(Body(A, D))
          BY <1>9, <1>10, <3>2 DEF TrimStart
        <4>2. h.first = 1
          <5>1. h.first \in Nat /\ 1 <= h.first
            BY PatchBounds
          <5> QED BY <3>2, <5>1
        <4>3. Body(A, D) = Text(A, D)
          BY <1>10, <4>2 DEF Body, Text
        <4> QED BY <1>1, <1>12, <2>1, <4>1, <4>3
      <3> QED BY <3>1, <3>2
    <2>2. CASE k # g
      <3>1. r.start = Len(Body(A, D))
        BY <1>9, <1>10, <2>2 DEF TrimStart
      <3>2. ~ (k <= g) /\ ~ (k > m)
        BY <1>1, <2>2
      <3> QED BY <1>12, <3>1, <3>2
    <2> QED BY <2>1, <2>2
  <1>14. A \o <<>> = A /\ <<>> \in Seq(TextLines)
    BY <1>6, ConcatEmptySeq, EmptySeq
  <1>15. FirstFrom(lines, patch, k) = h.first
    BY NextFirst
  <1> HIDE DEF r, h
  <1> DEFINE left == Splice(doc, h)
             none == <<>>
  <1>16. /\ left = SubSeq(lines, 1, FirstFrom(lines, patch, k) - 1) \o none
         /\ none = <<>> <=> k >= g
         /\ SpliceText(text, r) = IF k <= g \/ k > m THEN Text(left, D) ELSE Body(left, D)
         /\ none \in Seq(TextLines)
    BY <1>1, <1>8, <1>10, <1>13, <1>14, <1>15
  <1> HIDE DEF left, none
  <1>17. Spliced(lines, patch, D, k, left, SpliceText(text, r))
    BY <1>16 DEF Spliced
  <1> QED BY <1>17 DEF left, h, r

(* A hunk above the deletions that end the document. *)
LEMMA MiddleSplice ==
    ASSUME NEW D, Delimiter(D), NEW context, NEW lines, NEW patch, PatchOf(lines, patch),
           NEW k \in 1 .. Len(patch), ~ (k >= FirstOfRun(lines, patch)),
           NEW doc, NEW text, Spliced(lines, patch, D, k + 1, doc, text)
    PROVE  Spliced(lines, patch, D, k, Splice(doc, patch[k]), SpliceText(text, TrimPlaces(lines, patch, D, context)[k]))
  <1> DEFINE n == Len(lines)
             m == Len(patch)
             g == FirstOfRun(lines, patch)
             h == patch[k]
             new == h.new
             r == TrimPlaces(lines, patch, D, context)[k]
  <1>1. /\ n \in Nat /\ m \in Nat /\ k \in Nat /\ k <= m /\ g \in Nat /\ k < g /\ k + 1 <= g
        /\ h.last \in Nat /\ h.last <= n /\ new \in Seq(TextLines)
    <2>1. /\ n \in Nat /\ m \in Nat /\ h.last \in Nat /\ h.last <= n /\ new \in Seq(TextLines)
      BY PatchBounds
    <2>2. g \in Nat
      BY RunFacts
    <2> HIDE DEF g, h, n
    <2>3. k < g /\ k + 1 <= g
      BY <2>2 DEF g
    <2> QED BY <2>1, <2>2, <2>3
  <1>2. PICK tail \in Seq(TextLines) :
           /\ doc = SubSeq(lines, 1, FirstFrom(lines, patch, k + 1) - 1) \o tail
           /\ tail = <<>> <=> k + 1 >= g
           /\ text = IF k + 1 <= g \/ k + 1 > m THEN Text(doc, D) ELSE Body(doc, D)
    BY DEF Spliced
  <1>3. PICK A, M, Z : Around(lines, patch, D, k, tail, doc, A, M, Z)
    BY <1>2, CutAround
  <1>4. text = Text(A \o M \o Z, D)
    BY <1>1, <1>2, <1>3 DEF Around
  <1>5. /\ A \in Seq(TextLines) /\ M \in Seq(TextLines) /\ Z \in Seq(TextLines) /\ Cut(D, A, M, Z)
        /\ new \o Z \in Seq(TextLines) /\ Splice(doc, h) = A \o (new \o Z)
        /\ A = SubSeq(lines, 1, h.first - 1)
    BY <1>3 DEF Around, Cut
  <1>6. /\ Len(Body(A, D)) = Start(lines, patch, D, k)
        /\ Len(Body(A, D)) + Len(Text(M, D)) = End(lines, patch, D, k)
    BY <1>3 DEF Around
  <1>7. /\ r.hunk.content = Text(new, D) /\ r.start = Start(lines, patch, D, k) /\ r.end = WideEnd(lines, patch, D, k)
    <2>1. r = Place(lines, patch, D, context, k, TrimStart(lines, patch, D, k), WideEnd(lines, patch, D, k))
      BY DEF TrimPlaces
    <2>2. TrimStart(lines, patch, D, k) = Start(lines, patch, D, k)
      BY <1>1 DEF TrimStart
    <2> QED BY <2>1, <2>2 DEF Place, HunkOf
  <1>8. SpliceText(text, r) = Text(A \o (new \o Z), D) /\ new \o Z # <<>>
    <2>1. CASE ~ Deletes(patch, k)
      <3>1. new # <<>>
        BY <2>1 DEF Deletes
      <3>2. r.end = End(lines, patch, D, k)
        BY <1>7, <2>1 DEF WideEnd
      <3>3. Replacing(r, Len(Body(A, D)), Len(Body(A, D)) + Len(Text(M, D)), Text(new, D))
        BY <1>6, <1>7, <3>2 DEF Replacing
      <3> HIDE DEF r, new
      <3>4. SpliceText(Text(A \o M \o Z, D), r) = Text(A \o new \o Z, D)
        BY <1>1, <1>5, <3>1, <3>3, SpliceReplaces
      <3>5. (A \o new) \o Z = A \o (new \o Z)
        <4>1. A \in Seq(TextLines) /\ new \in Seq(TextLines) /\ Z \in Seq(TextLines)
          BY <1>1, <1>5
        <4> QED BY <4>1, LinesAssociate
      <3>6. new \o Z # <<>>
        BY <1>1, <1>5, <3>1, ConcatSimplifications
      <3> QED BY <1>4, <3>4, <3>5, <3>6
    <2>2. CASE Deletes(patch, k)
      <3>1. new = <<>>
        BY <2>2 DEF Deletes
      <3>2. h.last < n
        <4>1. CASE k < m
          <5>1. k \in 1 .. m - 1
            BY <1>1, <4>1
          <5> QED BY <5>1, PatchBounds
        <4>2. CASE ~ (k < m)
          <5>1. k = m
            BY <1>1, <4>2
          <5>2. ~ EndsDocument(lines, patch)
            <6>1. ~ (g \in 1 .. m)
              BY <1>1, <5>1
            <6> QED BY <6>1, RunFacts
          <5>3. h.last # n
            BY <2>2, <5>1, <5>2 DEF EndsDocument
          <5> HIDE DEF h, n
          <5> QED BY <1>1, <5>3
        <4> QED BY <4>1, <4>2
      <3>3. Z # <<>>
        <4> SUFFICES ASSUME Z = <<>> PROVE FALSE
          OBVIOUS
        <4>1. tail = <<>> /\ h.last + 1 = FirstFrom(lines, patch, k + 1)
          BY <1>3 DEF Around
        <4>2. k + 1 = g
          BY <1>1, <1>2, <4>1
        <4>3. CASE EndsDocument(lines, patch)
          <5>1. g \in 1 .. m /\ (g > 1 => ~ Adjacent(patch, g - 1))
            BY <4>3, RunFacts
          <5>2. k < m /\ g > 1 /\ g - 1 = k
            <6> HIDE DEF g, m
            <6> QED BY <1>1, <4>2, <5>1
          <5>3. FirstFrom(lines, patch, k + 1) = patch[k + 1].first
            BY <5>2, NextFirst
          <5>4. Adjacent(patch, k)
            BY <2>2, <4>1, <5>3 DEF Adjacent
          <5> QED BY <5>1, <5>2, <5>4
        <4>4. CASE ~ EndsDocument(lines, patch)
          <5>1. g = m + 1
            BY <4>4, RunFacts
          <5>2. k = m
            <6> HIDE DEF g, m
            <6> QED BY <1>1, <4>2, <5>1
          <5>3. FirstFrom(lines, patch, k + 1) = n + 1
            BY <5>2, NextFirst
          <5>4. h.last + 1 = n + 1
            BY <4>1, <5>3
          <5> HIDE DEF h, n
          <5> QED BY <1>1, <3>2, <5>4
        <4> QED BY <4>3, <4>4
      <3>4. r.end = End(lines, patch, D, k) + Len(D)
        BY <1>7, <2>2, <3>2 DEF WideEnd
      <3>5. Text(<<>>, D) = <<>>
        BY DEF Text
      <3>6. Deleting(r, Len(Body(A, D)), Len(Body(A, D)) + Len(Text(M, D)) + Len(D))
        BY <1>6, <1>7, <3>1, <3>4, <3>5 DEF Replacing, Deleting
      <3> HIDE DEF r
      <3>7. SpliceText(Text(A \o M \o Z, D), r) = Text(A \o Z, D)
        BY <1>5, <3>3, <3>6, SpliceDeletes
      <3>8. <<>> \o Z = Z
        BY <1>5, ConcatEmptySeq
      <3> QED BY <1>4, <3>1, <3>3, <3>7, <3>8
    <2> QED BY <2>1, <2>2
  <1>9. FirstFrom(lines, patch, k) = h.first
    BY NextFirst
  <1> DEFINE left == Splice(doc, h)
             end == new \o Z
  <1> HIDE DEF r, h
  <1>10. /\ left = SubSeq(lines, 1, FirstFrom(lines, patch, k) - 1) \o end
         /\ end = <<>> <=> k >= g
         /\ SpliceText(text, r) = IF k <= g \/ k > m THEN Text(left, D) ELSE Body(left, D)
         /\ end \in Seq(TextLines)
    <2>1. k <= g /\ ~ (k >= g)
      BY <1>1
    <2> QED BY <1>5, <1>8, <1>9, <2>1
  <1> HIDE DEF left, end
  <1>11. Spliced(lines, patch, D, k, left, SpliceText(text, r))
    BY <1>10 DEF Spliced
  <1> QED BY <1>11 DEF left, h, r

LEMMA SplicedStep ==
    ASSUME NEW D, Delimiter(D), NEW context, NEW lines, NEW patch, PatchOf(lines, patch),
           NEW k \in 1 .. Len(patch), NEW doc, NEW text, Spliced(lines, patch, D, k + 1, doc, text)
    PROVE  Spliced(lines, patch, D, k, Splice(doc, patch[k]), SpliceText(text, TrimPlaces(lines, patch, D, context)[k]))
  BY EndSplice, MiddleSplice

-----------------------------------------------------------------------------
(* The text that is left. *)

SplicedFrom(base, resolved) ==
    CHOOSE text : text = [i \in 1 .. Len(resolved) + 1 |->
                            IF i > Len(resolved) THEN base ELSE SpliceText(text[i + 1], resolved[i])]

LEMMA SplicedEquations ==
    ASSUME NEW base, NEW resolved, Len(resolved) \in Nat
    PROVE  LET text == SplicedFrom(base, resolved)
           IN  /\ Apply(base, resolved) = text[1]
               /\ text[Len(resolved) + 1] = base
               /\ \A i \in 1 .. Len(resolved) : text[i] = SpliceText(text[i + 1], resolved[i])
  <1> DEFINE n == Len(resolved)
             Good(k, f) == f = [i \in k .. n + 1 |-> IF i > n THEN base ELSE SpliceText(f[i + 1], resolved[i])]
             S == {k \in 1 .. n + 1 : \E f : Good(k, f)}
  <1>1. n \in Nat
    OBVIOUS
  <1>2. Apply(base, resolved) = SplicedFrom(base, resolved)[1]
    BY DEF Apply, SplicedFrom
  <1> HIDE DEF n
  <1>3. n + 1 \in S
    <2> DEFINE f == [i \in n + 1 .. n + 1 |-> base]
    <2>1. Good(n + 1, f)
      BY <1>1
    <2> HIDE DEF Good, f
    <2> QED BY <1>1, <2>1
  <1>4. ASSUME NEW k \in 1 .. n, k + 1 \in S PROVE k \in S
    <2>1. PICK f : Good(k + 1, f)
      BY <1>4
    <2> DEFINE g == [i \in k .. n + 1 |-> IF i = k THEN SpliceText(f[k + 1], resolved[k]) ELSE f[i]]
    <2>2. \A i \in k + 1 .. n + 1 : g[i] = f[i]
      BY <1>1
    <2>3. ASSUME NEW i \in k .. n + 1
          PROVE  g[i] = IF i > n THEN base ELSE SpliceText(g[i + 1], resolved[i])
      <3>1. CASE i = k
        <4>1. g[k + 1] = f[k + 1]
          BY <1>1, <2>2
        <4>2. g[k] = SpliceText(f[k + 1], resolved[k])
          BY <1>1
        <4> HIDE DEF g
        <4> QED BY <1>1, <3>1, <4>1, <4>2
      <3>2. CASE i # k
        <4>1. f[i] = IF i > n THEN base ELSE SpliceText(f[i + 1], resolved[i])
          BY <1>1, <2>1, <3>2
        <4>2. i <= n => g[i + 1] = f[i + 1]
          BY <1>1, <2>2, <3>2
        <4>3. g[i] = f[i]
          BY <1>1, <2>2, <3>2
        <4> HIDE DEF g
        <4> QED BY <1>1, <4>1, <4>2, <4>3
      <3> QED BY <3>1, <3>2
    <2>4. Good(k, g)
      BY <2>3
    <2> HIDE DEF Good, g
    <2> QED BY <1>1, <2>4
  <1>5. 1 \in S
    <2> HIDE DEF S
    <2> QED BY <1>1, <1>3, <1>4, CountDown
  <1>6. \E f : Good(1, f)
    BY <1>5
  <1> DEFINE text == SplicedFrom(base, resolved)
  <1>7. Good(1, text)
    BY <1>6 DEF SplicedFrom, n
  <1> HIDE DEF text
  <1>8. text[n + 1] = base /\ \A i \in 1 .. n : text[i] = SpliceText(text[i + 1], resolved[i])
    BY <1>1, <1>7
  <1> QED BY <1>2, <1>8 DEF n, text

(* "Apply": the trimmed patch leaves the text of the patched lines. *)
LEMMA TextPatched ==
    ASSUME NEW D, Delimiter(D), NEW context, NEW lines, NEW patch, PatchOf(lines, patch)
    PROVE  Apply(Text(lines, D), TrimPlaces(lines, patch, D, context)) = Text(ApplyHunks(lines, patch), D)
  <1> DEFINE n == Len(lines)
             m == Len(patch)
             V == TrimPlaces(lines, patch, D, context)
             base == Text(lines, D)
             text == SplicedFrom(base, V)
             doc == PatchedFrom(lines, patch)
             S == {k \in 1 .. m + 1 : Spliced(lines, patch, D, k, doc[k], text[k])}
  <1>1. m \in Nat /\ m >= 1 /\ n \in Nat
    BY PatchBounds
  <1>2. Len(V) = m
    BY <1>1 DEF TrimPlaces
  <1>3. /\ Apply(base, V) = text[1] /\ text[m + 1] = base
        /\ \A i \in 1 .. m : text[i] = SpliceText(text[i + 1], V[i])
    <2>1. Len(V) \in Nat
      BY <1>1, <1>2
    <2> HIDE DEF base, V
    <2> QED BY <1>2, <2>1, SplicedEquations
  <1>4. /\ ApplyHunks(lines, patch) = doc[1] /\ doc[m + 1] = lines
        /\ \A i \in 1 .. m : doc[i] = Splice(doc[i + 1], patch[i])
    <2>1. patch \in Seq(HunksOf(TextLines))
      BY DEF PatchOf
    <2>2. ApplyHunks(lines, patch) = PatchedFrom(lines, patch)[1]
      BY HunkFunctions
    <2>3. /\ PatchedFrom(lines, patch)[Len(patch) + 1] = lines
          /\ \A i \in 1 .. Len(patch) :
                PatchedFrom(lines, patch)[i] = Splice(PatchedFrom(lines, patch)[i + 1], patch[i])
      BY <2>1, PatchedEquations
    <2> QED BY <2>2, <2>3
  <1> HIDE DEF text, doc, V
  <1>5. m + 1 \in S
    <2>1. lines \in Seq(TextLines)
      BY DEF PatchOf
    <2> DEFINE none == <<>>
    <2>2. none \in Seq(TextLines) /\ lines \o none = lines
      BY <2>1, ConcatEmptySeq, EmptySeq
    <2>3. FirstFrom(lines, patch, m + 1) = n + 1
      BY <1>1 DEF FirstFrom
    <2>4. SubSeq(lines, 1, (n + 1) - 1) = lines
      <3>1. (n + 1) - 1 = n
        BY <1>1
      <3> QED BY <2>1, <3>1, SubSeqFull
    <2>5. m + 1 >= FirstOfRun(lines, patch)
      <3> DEFINE g == FirstOfRun(lines, patch)
      <3>1. g \in Nat /\ (g = m + 1 \/ g \in 1 .. m)
        BY RunFacts
      <3> HIDE DEF g
      <3>2. m + 1 >= g
        BY <1>1, <3>1
      <3> QED BY <3>2 DEF g
    <2>6. m + 1 > Len(patch) /\ m + 1 \in 1 .. m + 1
      BY <1>1
    <2>7. none = <<>>
      OBVIOUS
    <2>8. lines = SubSeq(lines, 1, FirstFrom(lines, patch, m + 1) - 1) \o none
      BY <2>2, <2>3, <2>4
    <2> HIDE DEF none
    <2>9. Spliced(lines, patch, D, m + 1, lines, base)
      BY <2>2, <2>5, <2>6, <2>7, <2>8 DEF Spliced
    <2> QED BY <1>3, <1>4, <2>6, <2>9
  <1>6. ASSUME NEW k \in 1 .. m, k + 1 \in S PROVE k \in S
    <2>1. Spliced(lines, patch, D, k + 1, doc[k + 1], text[k + 1])
      BY <1>6
    <2>2. Spliced(lines, patch, D, k, Splice(doc[k + 1], patch[k]), SpliceText(text[k + 1], V[k]))
      BY <2>1, SplicedStep DEF V
    <2>3. k \in 1 .. m + 1
      BY <1>1
    <2> QED BY <1>3, <1>4, <2>2, <2>3
  <1>7. 1 \in S
    <2>1. 1 .. m + 1 \subseteq S
      <3> HIDE DEF S, m
      <3> QED BY <1>1, <1>5, <1>6, CountDown
    <2> QED BY <1>1, <2>1
  <1>8. text[1] = Text(doc[1], D)
    <2>1. 1 <= FirstOfRun(lines, patch)
      BY RunFacts
    <2> QED BY <1>7, <2>1 DEF Spliced
  <1> QED BY <1>3, <1>4, <1>8 DEF V

(* A patch of whole lines that is found is not refused, and it splices. *)
LEMMA PatchSplices ==
    ASSUME NEW lines, NEW patch, PatchOf(lines, patch), ~ AwkwardEnd(lines, patch),
           NEW form, Form(form.delimiter, form.context)
    PROVE  Splices(lines, patch, form)
  <1> DEFINE D == form.delimiter
             context == form.context
             base == Text(lines, D)
             sent == TextHunks(lines, patch, D, context)
             answer == Resolve(base, sent)
             V == TrimPlaces(lines, patch, D, context)
  <1>1. (\A i \in DOMAIN sent : Located(base, sent[i])) <=> AllFound(lines, patch, D, context)
    BY SentFound
  <1>2. (AllFound(lines, patch, D, context) => answer = V) /\ V # Refused
    BY Answered
  <1>3. Apply(base, V) = Text(ApplyHunks(lines, patch), D)
    BY TextPatched DEF Form
  <1> HIDE DEF V
  <1> QED BY <1>1, <1>2, <1>3 DEF Splices

-----------------------------------------------------------------------------
(* The line deltas of a patch, counted in bytes. *)

LEMMA CutSlices ==
    ASSUME NEW D, NEW A, NEW M, NEW Z, Cut(D, A, M, Z)
    PROVE  LET base == Text(A \o M \o Z, D)
               from == Len(Body(A, D))
           IN  /\ Slice(base, from, from + Len(Text(M, D))) = Text(M, D)
               /\ Z # <<>> => Slice(base, from, from + Len(Body(M, D))) = Body(M, D)
  <1> DEFINE base == Text(A \o M \o Z, D)
             T == Symbols(D)
             x == Body(A, D)
             y == Text(M, D)
             w == Body(M, D)
             z == Rest(Z, D)
             v == Text(Z, D)
  <1>1. /\ Delimiter(D) /\ A \in Seq(TextLines) /\ M \in Seq(TextLines) /\ Z \in Seq(TextLines) /\ M # <<>>
    BY DEF Cut
  <1>2. x \in Seq(T) /\ y \in Seq(T) /\ w \in Seq(T) /\ z \in Seq(T) /\ v \in Seq(T)
    BY CutSymbols
  <1>3. base = x \o y \o z
    BY <1>1, TextCut
  <1>4. Z # <<>> => base = x \o w \o v
    <2> SUFFICES ASSUME Z # <<>> PROVE base = x \o w \o v
      OBVIOUS
    <2>1. A \o M \in Seq(TextLines) /\ Body(A \o M, D) = x \o w
      BY <1>1, TextJoin
    <2>2. Text((A \o M) \o Z, D) = Body(A \o M, D) \o Text(Z, D)
      BY <1>1, <2>1, TextJoin
    <2> QED BY <2>1, <2>2
  <1> HIDE DEF base, T, x, y, w, z, v
  <1>5. MadeOf(T, base, x, y, z)
    BY <1>2, <1>3, Parts
  <1>6. Z # <<>> => MadeOf(T, base, x, w, v)
    BY <1>2, <1>4, Parts
  <1>7. Slice(base, Len(x), Len(x) + Len(y)) = y /\ (Z # <<>> => Slice(base, Len(x), Len(x) + Len(w)) = w)
    BY <1>5, <1>6 DEF MadeOf
  <1> QED BY <1>7 DEF base, x, y, w

(* "BuildProposal": the lines that a hunk adds, unless it is one of the       *)
(* deletions at the end of the document, below which there is no line.       *)
LEMMA DeltaOfPlace ==
    ASSUME NEW D, Delimiter(D), NEW context, NEW lines, NEW patch, PatchOf(lines, patch),
           NEW k \in 1 .. Len(patch), k < FirstOfRun(lines, patch)
    PROVE  LineDeltaOf(Text(lines, D), TrimPlaces(lines, patch, D, context)[k]) = LineDelta(patch[k])
  <1> DEFINE n == Len(lines)
             m == Len(patch)
             g == FirstOfRun(lines, patch)
             h == patch[k]
             new == h.new
             r == TrimPlaces(lines, patch, D, context)[k]
             upto == FirstFrom(lines, patch, k + 1) - 1
             tail == SubSeq(lines, upto + 1, n)
             base == Text(lines, D)
  <1>1. /\ n \in Nat /\ m \in Nat /\ g \in Nat /\ lines \in Seq(TextLines) /\ new \in Seq(TextLines)
        /\ h.last \in Nat /\ h.first \in Nat /\ h.last <= n
    BY PatchBounds, RunFacts DEF PatchOf
  <1>2. upto \in Nat /\ upto <= n
    <2> DEFINE next == FirstFrom(lines, patch, k + 1)
    <2>1. next \in Nat /\ h.last < next /\ next - 1 <= n
      BY NextFirst
    <2> HIDE DEF next, h, n
    <2>2. next - 1 \in Nat
      BY <1>1, <2>1
    <2> QED BY <2>1, <2>2 DEF next
  <1>3. tail \in Seq(TextLines) /\ lines = SubSeq(lines, 1, upto) \o tail
    <2>1. CutAt(TextLines, lines, upto, n, SubSeq(lines, 1, upto), tail, SubSeq(lines, n + 1, n))
      <3>1. n \in Nat /\ n <= Len(lines)
        BY <1>1
      <3> HIDE DEF upto
      <3> QED BY <1>1, <1>2, <3>1, CutLines
    <2>2. SubSeq(lines, 1, upto) \o tail = SubSeq(lines, 1, n) /\ tail \in Seq(TextLines)
      BY <2>1 DEF CutAt
    <2>3. SubSeq(lines, 1, n) = lines
      BY <1>1, SubSeqFull
    <2> QED BY <2>2, <2>3
  <1>4. PICK A, M, Z : Around(lines, patch, D, k, tail, lines, A, M, Z)
    <2> HIDE DEF tail
    <2> QED BY <1>3, CutAround
  <1>5. /\ Cut(D, A, M, Z) /\ lines = A \o M \o Z /\ Len(M) = (h.last - h.first) + 1
        /\ Len(Body(A, D)) = Start(lines, patch, D, k)
        /\ Len(Body(A, D)) + Len(Text(M, D)) = End(lines, patch, D, k)
        /\ Len(Body(A, D)) + Len(Body(M, D)) = End(lines, patch, D, k) + Len(D)
        /\ M \in Seq(TextLines) /\ M # <<>> /\ Z \in Seq(TextLines) /\ A \in Seq(TextLines)
    BY <1>4 DEF Around, Cut
  <1>6. /\ r.hunk.content = Text(new, D) /\ r.start = Start(lines, patch, D, k) /\ r.end = WideEnd(lines, patch, D, k)
    <2>1. r = Place(lines, patch, D, context, k, TrimStart(lines, patch, D, k), WideEnd(lines, patch, D, k))
      BY DEF TrimPlaces
    <2>2. TrimStart(lines, patch, D, k) = Start(lines, patch, D, k)
      BY <1>1 DEF TrimStart
    <2> QED BY <2>1, <2>2 DEF Place, HunkOf
  <1>7. Slice(base, r.start, r.end) = IF Deletes(patch, k) THEN Body(M, D) ELSE Text(M, D)
    <2>1. CASE ~ Deletes(patch, k)
      <3>1. r.end = End(lines, patch, D, k)
        BY <1>6, <2>1 DEF WideEnd
      <3>2. Slice(base, Len(Body(A, D)), Len(Body(A, D)) + Len(Text(M, D))) = Text(M, D)
        BY <1>5, CutSlices
      <3> QED BY <1>5, <1>6, <2>1, <3>1, <3>2
    <2>2. CASE Deletes(patch, k)
      <3>1. h.last < n
        <4>1. CASE k < m
          <5>1. k \in 1 .. m - 1
            BY <1>1, <4>1
          <5> QED BY <5>1, PatchBounds
        <4>2. CASE ~ (k < m)
          <5>1. k = m
            BY <1>1, <4>2
          <5>2. ~ EndsDocument(lines, patch)
            <6>1. ~ (g \in 1 .. m)
              BY <1>1, <5>1
            <6> QED BY <6>1, RunFacts
          <5>3. h.last # n
            BY <2>2, <5>1, <5>2 DEF EndsDocument
          <5> HIDE DEF h, n
          <5> QED BY <1>1, <5>3
        <4> QED BY <4>1, <4>2
      <3>2. r.end = End(lines, patch, D, k) + Len(D)
        BY <1>6, <2>2, <3>1 DEF WideEnd
      <3>3. Z # <<>>
        <4> SUFFICES ASSUME Z = <<>> PROVE FALSE
          OBVIOUS
        <4>1. tail = <<>> /\ h.last + 1 = FirstFrom(lines, patch, k + 1)
          BY <1>4 DEF Around
        <4>2. Len(tail) = n - upto
          <5>1. CutAt(TextLines, lines, upto, n, SubSeq(lines, 1, upto), tail, SubSeq(lines, n + 1, n))
            BY <1>1, <1>2, CutLines
          <5> QED BY <5>1 DEF CutAt
        <4>3. Len(tail) = 0
          <5> HIDE DEF tail
          <5> QED BY <4>1
        <4>4. upto = (h.last + 1) - 1
          BY <4>1
        <4> HIDE DEF upto, tail, n, h
        <4> QED BY SMTT(30), <1>1, <1>2, <3>1, <4>2, <4>3, <4>4
      <3>4. Slice(base, Len(Body(A, D)), Len(Body(A, D)) + Len(Body(M, D))) = Body(M, D)
        BY <1>5, <3>3, CutSlices
      <3> QED BY <1>5, <1>6, <2>2, <3>2, <3>4
    <2> QED BY <2>1, <2>2
  <1>8. /\ LineFeeds(Body(M, D)) = Len(M) /\ LineFeeds(Text(M, D)) = Len(M) - 1
        /\ new # <<>> => LineFeeds(Text(new, D)) = Len(new) - 1
    BY <1>1, <1>5, LineFeedsOfText
  <1>9. new = <<>> => LineFeeds(Text(new, D)) = 0 /\ Len(new) = 0
    <2>1. Text(<<>>, D) = <<>>
      BY DEF Text
    <2> QED BY <2>1, NoLineFeeds
  <1>10. LineDeltaOf(base, r) = LineFeeds(Text(new, D)) - LineFeeds(Slice(base, r.start, r.end))
    BY <1>6 DEF LineDeltaOf
  <1>11. Len(new) \in Nat /\ Len(M) \in Nat
    BY <1>1, <1>5, LenProperties
  <1>12. LineDelta(h) = Len(new) - Len(M)
    BY <1>5 DEF LineDelta
  <1>13. CASE Deletes(patch, k)
    <2>1. new = <<>>
      BY <1>13 DEF Deletes
    <2> QED BY <1>7, <1>8, <1>9, <1>10, <1>12, <1>13, <2>1
  <1>14. CASE ~ Deletes(patch, k)
    <2>1. new # <<>>
      BY <1>14 DEF Deletes
    <2>2. LineDeltaOf(base, r) = (Len(new) - 1) - (Len(M) - 1)
      BY <1>7, <1>8, <1>10, <1>14, <2>1
    <2>3. (Len(new) - 1) - (Len(M) - 1) = Len(new) - Len(M)
      BY <1>11
    <2> QED BY <1>12, <2>2, <2>3
  <1> QED BY <1>13, <1>14

(* "positionAfterHunks": the deltas of the places add up to those of the lines. *)
LEMMA AppliedDelta ==
    ASSUME NEW patch, NEW Items, patch \in Seq(Items), NEW l, NEW applied, Len(applied) = Len(patch),
           \A k \in 1 .. Len(patch) : applied[k].last = patch[k].last,
           \A k \in 1 .. Len(patch) : patch[k].last < l => applied[k].lineDelta = LineDelta(patch[k])
    PROVE  positionAfterAppliedHunks(l, applied) = positionAfterHunks(l, patch)
  <1> DEFINE m == Len(patch)
             step(k) == IF l > applied[k].last THEN applied[k].lineDelta ELSE 0
             Good(f) == f = [i \in 1 .. m + 1 |-> IF i > m THEN 0 ELSE f[i + 1] + step(i)]
             delta == CHOOSE f : Good(f)
             d == DeltaFrom(l, patch)
             e == [i \in 1 .. m + 1 |-> d[i]]
             S == {i \in 1 .. m + 1 : delta[i] = d[i]}
  <1>1. m \in Nat
    OBVIOUS
  <1>2. positionAfterAppliedHunks(l, applied) = l + delta[1]
    BY DEF positionAfterAppliedHunks
  <1>3. positionAfterHunks(l, patch) = l + d[1]
    BY HunkFunctions
  <1>4. d[m + 1] = 0 /\ \A i \in 1 .. m : d[i] = d[i + 1] + IF patch[i].last < l THEN LineDelta(patch[i]) ELSE 0
    BY DeltaEquations
  <1>5. \A i \in 1 .. m : step(i) = IF patch[i].last < l THEN LineDelta(patch[i]) ELSE 0
    OBVIOUS
  <1> HIDE DEF d, step, m
  <1>6. d[m + 1] = 0 /\ \A i \in 1 .. m : d[i] = d[i + 1] + step(i)
    BY <1>4, <1>5
  <1>7. Good(e)
    <2>1. \A i \in 1 .. m + 1 : e[i] = d[i]
      OBVIOUS
    <2>2. ASSUME NEW i \in 1 .. m + 1 PROVE d[i] = IF i > m THEN 0 ELSE e[i + 1] + step(i)
      <3>1. CASE i > m
        <4>1. i = m + 1
          BY <1>1, <3>1
        <4> QED BY <1>6, <3>1, <4>1
      <3>2. CASE ~ (i > m)
        <4>1. i \in 1 .. m /\ i + 1 \in 1 .. m + 1
          BY <1>1, <3>2
        <4>2. e[i + 1] = d[i + 1]
          BY <2>1, <4>1
        <4> HIDE DEF e
        <4> QED BY <1>6, <3>2, <4>1, <4>2
      <3> QED BY <3>1, <3>2
    <2> QED BY <2>2
  <1>8. Good(delta)
    <2> HIDE DEF Good, e
    <2> QED BY <1>7
  <1> HIDE DEF delta
  <1>9. delta[m + 1] = 0 /\ \A i \in 1 .. m : delta[i] = delta[i + 1] + step(i)
    <2>1. \A i \in 1 .. m + 1 : delta[i] = IF i > m THEN 0 ELSE delta[i + 1] + step(i)
      BY <1>8
    <2> HIDE DEF Good
    <2>2. m + 1 \in 1 .. m + 1 /\ m + 1 > m
      BY <1>1
    <2>3. delta[m + 1] = 0
      BY <2>1, <2>2
    <2>4. ASSUME NEW i \in 1 .. m PROVE delta[i] = delta[i + 1] + step(i)
      <3>1. i \in 1 .. m + 1 /\ ~ (i > m)
        BY <1>1
      <3> QED BY <2>1, <3>1
    <2> QED BY <2>3, <2>4
  <1>10. 1 \in S
    <2>1. m + 1 \in S
      BY <1>1, <1>6, <1>9
    <2>2. ASSUME NEW i \in 1 .. m, i + 1 \in S PROVE i \in S
      <3>1. i \in 1 .. m + 1 /\ delta[i + 1] = d[i + 1]
        BY <1>1, <2>2
      <3>2. delta[i] = d[i]
        BY <1>6, <1>9, <3>1
      <3> QED BY <3>1, <3>2
    <2> HIDE DEF S
    <2>3. 1 .. m + 1 \subseteq S
      BY <1>1, <2>1, <2>2, CountDown
    <2> QED BY <1>1, <2>3
  <1> QED BY <1>2, <1>3, <1>10

(* A line that no hunk meets is above the deletions that end the document. *)
LEMMA KeptAbove ==
    ASSUME NEW lines, NEW patch, PatchOf(lines, patch), NEW l \in 1 .. Len(lines),
           \A k \in 1 .. Len(patch) : l \notin patch[k].first .. patch[k].last,
           NEW k \in 1 .. Len(patch), patch[k].last < l
    PROVE  k < FirstOfRun(lines, patch)
  <1> DEFINE n == Len(lines)
             m == Len(patch)
             g == FirstOfRun(lines, patch)
             S == {i \in 1 .. m + 1 : i \in g .. m => l <= patch[i].last}
  <1>1. n \in Nat /\ m \in Nat /\ g \in Nat /\ 1 <= g
    BY PatchBounds, RunFacts
  <1>2. CASE ~ EndsDocument(lines, patch)
    <2>1. g = m + 1
      BY <1>2, RunFacts
    <2> HIDE DEF g
    <2>2. k < g
      BY <1>1, <2>1
    <2> QED BY <2>2 DEF g
  <1>3. CASE EndsDocument(lines, patch)
    <2>1. \A i \in g .. m - 1 : Adjacent(patch, i)
      BY <1>3, RunFacts
    <2>2. m + 1 \in S
      BY <1>1
    <2>3. ASSUME NEW i \in 1 .. m, i + 1 \in S PROVE i \in S
      <3> SUFFICES ASSUME i \in g .. m PROVE l <= patch[i].last
        BY <1>1
      <3>1. CASE i = m
        <4>1. patch[i].last = n
          BY <1>3, <3>1 DEF EndsDocument
        <4> QED BY <4>1
      <3>2. CASE i # m
        <4>1. i \in g .. m - 1 /\ i + 1 \in g .. m /\ i + 1 \in 1 .. m
          <5> HIDE DEF g
          <5> QED BY <1>1, <3>2
        <4>2. patch[i].last + 1 = patch[i + 1].first
          BY <2>1, <4>1 DEF Adjacent
        <4>3. l <= patch[i + 1].last
          BY <2>3, <4>1
        <4>4. l \notin patch[i + 1].first .. patch[i + 1].last
          BY <4>1
        <4>5. patch[i].last \in Nat /\ patch[i + 1].first \in Nat /\ patch[i + 1].last \in Nat
          BY <4>1, PatchBounds
        <4>6. ~ (patch[i + 1].first <= l)
          BY <4>3, <4>4, <4>5
        <4> QED BY SMTT(30), <4>2, <4>5, <4>6
      <3> QED BY <3>1, <3>2
    <2>4. k \in S
      <3>1. 1 .. m + 1 \subseteq S
        <4> HIDE DEF S, m
        <4> QED BY <1>1, <2>2, <2>3, CountDown
      <3> QED BY <1>1, <3>1
    <2>5. ~ (k \in g .. m)
      <3>1. patch[k].last \in Nat
        BY PatchBounds
      <3>2. k \in g .. m => l <= patch[k].last
        BY <2>4
      <3> HIDE DEF g, m
      <3> QED BY <3>1, <3>2
    <2> HIDE DEF g
    <2>6. k < g
      BY <1>1, <2>5
    <2> QED BY <2>6 DEF g
  <1> QED BY <1>2, <1>3

(* The lines that a patch keeps are found where the session moves them. *)
LEMMA PatchCarries ==
    ASSUME NEW lines, NEW patch, PatchOf(lines, patch), ~ AwkwardEnd(lines, patch),
           NEW form, Form(form.delimiter, form.context)
    PROVE  Carries(lines, patch, form)
  <1> DEFINE D == form.delimiter
             context == form.context
             m == Len(patch)
             base == Text(lines, D)
             sent == TextHunks(lines, patch, D, context)
             answer == Resolve(base, sent)
             V == TrimPlaces(lines, patch, D, context)
             applied == AppliedHunks(base, V)
             patched == ApplyHunks(lines, patch)
  <1>1. /\ m \in Nat /\ Len(lines) \in Nat /\ DOMAIN patch = 1 .. m /\ DOMAIN lines = 1 .. Len(lines)
        /\ lines \in Seq(TextLines) /\ patch \in Seq(HunksOf(TextLines)) /\ InOrder(lines, patch)
    BY PatchBounds, LenProperties DEF PatchOf
  <1>2. answer # Refused => answer = V
    BY Answered
  <1>3. /\ Len(applied) = m
        /\ \A k \in 1 .. m : applied[k].last = patch[k].last /\ applied[k].lineDelta = LineDeltaOf(base, V[k])
    <2>1. DOMAIN V = 1 .. m /\ \A k \in 1 .. m : V[k].endLine = patch[k].last
      BY DEF TrimPlaces, Place
    <2> HIDE DEF V
    <2>2. applied = [k \in 1 .. m |-> [last |-> V[k].endLine, lineDelta |-> LineDeltaOf(base, V[k])]]
      BY <2>1 DEF AppliedHunks
    <2> HIDE DEF applied, base
    <2> QED BY <1>1, <2>1, <2>2
  <1>4. ASSUME NEW l \in DOMAIN lines, \A h \in Range(patch) : l \notin h.first .. h.last
        PROVE  /\ positionAfterAppliedHunks(l, applied) = positionAfterHunks(l, patch)
               /\ patched[positionAfterHunks(l, patch)] = lines[l]
    <2>1. l \in 1 .. Len(lines)
      BY <1>1
    <2>2. \A k \in 1 .. m : l \notin patch[k].first .. patch[k].last
      BY <1>1, <1>4 DEF Range
    <2>3. \A k \in 1 .. m : patch[k].last < l => applied[k].lineDelta = LineDelta(patch[k])
      <3> SUFFICES ASSUME NEW k \in 1 .. m, patch[k].last < l PROVE LineDeltaOf(base, V[k]) = LineDelta(patch[k])
        BY <1>3
      <3>1. k < FirstOfRun(lines, patch)
        BY <2>1, <2>2, KeptAbove
      <3> QED BY <3>1, DeltaOfPlace DEF Form
    <2>4. positionAfterAppliedHunks(l, applied) = positionAfterHunks(l, patch)
      <3> HIDE DEF applied
      <3> QED BY <1>1, <1>3, <2>3, AppliedDelta
    <2>5. Outside(l, 1, patch)
      <3> SUFFICES ASSUME NEW k \in 1 .. m PROVE l < patch[k].first \/ patch[k].last < l
        BY DEF Outside
      <3>1. patch[k].first \in Nat /\ patch[k].last \in Nat
        BY PatchBounds
      <3> QED BY <2>1, <2>2, <3>1
    <2>6. ApplyHunks(lines, patch)[positionAfterHunks(l, patch)] = lines[l]
      BY <1>1, <2>1, <2>5, PatchKeepsLines
    <2> QED BY <2>4, <2>6
  <1>5. answer # Refused =>
          \A l \in DOMAIN lines :
             (\A h \in Range(patch) : l \notin h.first .. h.last) =>
                /\ positionAfterAppliedHunks(l, AppliedHunks(base, answer)) = positionAfterHunks(l, patch)
                /\ patched[positionAfterHunks(l, patch)] = lines[l]
    <2> HIDE DEF answer, V, base, patched
    <2> QED BY <1>2, <1>4
  <1> QED BY <1>5 DEF Carries

-----------------------------------------------------------------------------
(* What ReviewSession takes a patch for. *)

LEMMA CaseType ==
    ASSUME NEW c \in Cases
    PROVE  PatchOf(c.lines, c.patch) /\ Form(c.form.delimiter, c.form.context)
  <1>1. PICK n \in {Len(lines) : lines \in TextDocuments} :
           c \in [lines : {lines \in TextDocuments : Len(lines) = n}, patch : LinePatches(n), form : Forms]
    BY DEF Cases
  <1> DEFINE lines == c.lines
             patch == c.patch
  <1>2. lines \in TextDocuments /\ Len(lines) = n /\ patch \in LinePatches(n) /\ c.form \in Forms
    BY <1>1
  <1> HIDE DEF lines, patch
  <1>3. lines \in Seq(TextLines) /\ lines # <<>>
    BY <1>2, TextAssumption
  <1>4. n \in Nat
    BY <1>2, <1>3, LenProperties
  <1>5. PICK m \in 1 .. n : /\ patch \in [1 .. m -> LineHunks(n)]
                            /\ \A i \in 1 .. m - 1 : patch[i].last < patch[i + 1].first
    BY <1>2 DEF LinePatches
  <1>6. m \in Nat /\ Len(patch) = m /\ patch # <<>>
    BY <1>4, <1>5
  <1>7. ASSUME NEW k \in 1 .. m
        PROVE  /\ patch[k] \in HunksOf(TextLines) /\ InPlan(lines, patch[k]) /\ patch[k].new # << <<>> >>
    <2>1. patch[k] \in LineHunks(n)
      BY <1>5
    <2> DEFINE h == patch[k]
    <2>2. h \in [first : 1 .. n, last : 1 .. n, new : Replacements] /\ h.first <= h.last
      BY <2>1 DEF LineHunks
    <2> HIDE DEF h
    <2>3. h.new \in Seq(TextLines) /\ h.new # << <<>> >>
      BY <2>2, TextAssumption
    <2>4. h \in HunksOf(TextLines)
      BY <1>4, <2>2, <2>3 DEF HunksOf
    <2>5. InPlan(lines, h)
      BY <1>2, <1>4, <2>2 DEF InPlan
    <2> QED BY <2>3, <2>4, <2>5 DEF h
  <1>8. patch \in Seq(HunksOf(TextLines))
    BY <1>5, <1>6, <1>7
  <1>9. PatchOf(lines, patch)
    BY <1>3, <1>5, <1>6, <1>7, <1>8 DEF PatchOf, InOrder
  <1>10. Form(c.form.delimiter, c.form.context)
    <2> DEFINE form == c.form
    <2>1. \/ form = [delimiter |-> <<LF>>, context |-> FALSE]
          \/ form = [delimiter |-> <<LF>>, context |-> TRUE]
          \/ form = [delimiter |-> <<CR, LF>>, context |-> FALSE]
      BY <1>2 DEF Forms
    <2> HIDE DEF form
    <2>2. \/ form.delimiter = <<LF>> /\ form.context \in BOOLEAN
          \/ form.delimiter = <<CR, LF>> /\ form.context = FALSE
      <3>1. CASE form = [delimiter |-> <<LF>>, context |-> FALSE]
        BY <3>1
      <3>2. CASE form = [delimiter |-> <<LF>>, context |-> TRUE]
        BY <3>2
      <3>3. CASE form = [delimiter |-> <<CR, LF>>, context |-> FALSE]
        BY <3>3
      <3> QED BY <2>1, <3>1, <3>2, <3>3
    <2>3. Form(form.delimiter, form.context)
      BY <2>2 DEF Form, Delimiter
    <2> QED BY <2>3 DEF form
  <1> QED BY <1>9, <1>10 DEF lines, patch

(* "Resolve" and "Apply": for any letters, documents and replacements, a     *)
(* patch of whole lines that is found is never refused, and the splice of its *)
(* bytes is the text of the patched lines.  A fact about texts, so that it    *)
(* holds in every state.                                                     *)
THEOREM PatchesAreOfLines == Spec => []PatchesReplaceLines
  <1>1. EveryPatchSplices
    <2> SUFFICES ASSUME NEW c \in Cases, ~ AwkwardEnd(c.lines, c.patch) PROVE Splices(c.lines, c.patch, c.form)
      BY DEF EveryPatchSplices
    <2> QED BY CaseType, PatchSplices
  <1>2. PatchesReplaceLines
    BY <1>1 DEF PatchesReplaceLines
  <1> QED BY <1>2, PTL

(* "BuildProposal", "positionAfterHunks": for any letters, documents and      *)
(* replacements, the deltas counted in bytes move every line that no hunk     *)
(* meets to where the session puts it, and its text is found there.           *)
THEOREM LinesAreCarried == Spec => []KeptLinesFollowTheirText
  <1>1. EveryPatchCarries
    <2> SUFFICES ASSUME NEW c \in Cases, ~ AwkwardEnd(c.lines, c.patch) PROVE Carries(c.lines, c.patch, c.form)
      BY DEF EveryPatchCarries
    <2> QED BY CaseType, PatchCarries
  <1>2. KeptLinesFollowTheirText
    BY <1>1 DEF KeptLinesFollowTheirText
  <1> QED BY <1>2, PTL
=============================================================================
