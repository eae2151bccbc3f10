--------------------------- MODULE ChunkerProofs ----------------------------
(***************************************************************************)
(* What Chunker keeps of every text, with every counter and for every      *)
(* configuration: the chunks of a page hold its text and nothing else, and *)
(* none has more tokens than the maximum; where a word is a token, they    *)
(* follow the text and windows repeat the overlap.                         *)
(*                                                                         *)
(* The text of a page under way is in its chunks, in the sentences that    *)
(* are collected, in what is left of a sentence over the maximum and in    *)
(* what is left of the page; a step moves it from one to the next.  That a *)
(* window is not too long takes that a piece has no more tokens than a     *)
(* longer one from the same rune on.                                       *)
(*                                                                         *)
(* What is cut out of a page is a span of its positions, whose tokens are  *)
(* counted by the words that begin in it.  A window that is not the last   *)
(* of its sentence is full, so it ends after what it repeats, and it is    *)
(* never merged with the next.                                             *)
(***************************************************************************)
EXTENDS Chunker, FiniteSetTheorems, SequenceTheorems, TLAPS

LEMMA MinOf ==
  ASSUME NEW S \in SUBSET Nat, S # {}
  PROVE  Min(S) \in S /\ \A y \in S : Min(S) <= y
<1>1. PICK least \in S : \A j \in S : <<j, least>> \notin OpToRel(<, Nat)
  BY NatLessThanWellFounded, WFMin
<1>2. \A j \in S : ~(j < least)
  BY <1>1 DEF OpToRel
<1>3. \A j \in S : least <= j
  BY <1>2
<1>4. QED BY <1>3 DEF Min

LEMMA MaxOf ==
  ASSUME NEW n \in Nat, NEW S \in SUBSET (0 .. n), S # {}
  PROVE  Max(S) \in S /\ \A y \in S : Max(S) >= y
<1> DEFINE B == {k \in Nat : \A y \in S : k >= y}
<1>1. n \in B
  OBVIOUS
<1>2. PICK m : m = Min(B)
  OBVIOUS
<1>3. m \in B /\ \A k \in B : m <= k
  BY <1>1, <1>2, MinOf
<1>4. m \in S
  <2>1. SUFFICES ASSUME m \notin S PROVE FALSE
    OBVIOUS
  <2>2. \A y \in S : y < m
    BY <1>3, <2>1
  <2>3. m > 0
    <3>1. PICK y \in S : y < m
      BY <2>2
    <3>2. QED BY <1>3, <3>1
  <2>4. m - 1 \in B
    BY <1>3, <2>2, <2>3
  <2>5. QED BY <1>3, <2>4
<1>5. \A y \in S : m >= y
  BY <1>3
<1>6. QED BY <1>4, <1>5 DEF Max

-----------------------------------------------------------------------------
(* Pieces.                                                                 *)

Piece == Seq(Nat)

LEMMA PieceFacts ==
  ASSUME NEW s \in Piece
  PROVE  /\ Len(s) \in Nat /\ DOMAIN s = 1 .. Len(s) /\ \A i \in DOMAIN s : s[i] \in Nat
         /\ (s = <<>> <=> Len(s) = 0)
BY EmptySeq, LenProperties DEF Piece

LEMMA SubPiece ==
  ASSUME NEW s \in Piece, NEW m \in Nat, NEW n \in Nat, m > 0, n <= Len(s)
  PROVE  /\ SubSeq(s, m, n) \in Piece
         /\ m <= n => Len(SubSeq(s, m, n)) = n - m + 1
         /\ m > n => SubSeq(s, m, n) = <<>>
         /\ \A i \in 1 .. n - m + 1 : SubSeq(s, m, n)[i] = s[m + i - 1]
<1>1. \A i \in m .. n : s[i] \in Nat
  BY PieceFacts
<1>2. QED BY <1>1, SubSeqProperties, SubSeqEmpty DEF Piece

\* The runes of a piece that are not spaces.
LEMMA InkOfSub ==
  ASSUME NEW s \in Piece, NEW m \in Nat, NEW n \in Nat, m > 0, n <= Len(s)
  PROVE  Ink(SubSeq(s, m, n)) = {s[i] : i \in {j \in m .. n : ~IsSpace(s[j])}}
<1>1. CASE m > n
  <2>1. SubSeq(s, m, n) = <<>>
    BY <1>1, SubPiece
  <2>2. QED BY <1>1, <2>1 DEF Ink, Range
<1>2. CASE m <= n
  <2>1. PICK t : t = SubSeq(s, m, n)
    OBVIOUS
  <2>2. /\ t \in Piece /\ Len(t) = n - m + 1
        /\ \A i \in 1 .. n - m + 1 : t[i] = s[m + i - 1]
    BY <1>2, <2>1, SubPiece
  <2>3. DOMAIN t = 1 .. n - m + 1
    BY <2>2, PieceFacts
  <2>4. \A i \in m .. n : i - m + 1 \in 1 .. n - m + 1 /\ t[i - m + 1] = s[i]
    BY <2>2
  <2>5. \A i \in 1 .. n - m + 1 : m + i - 1 \in m .. n
    OBVIOUS
  <2>6. Range(t) = {s[i] : i \in m .. n}
    <3>1. ASSUME NEW p \in Range(t) PROVE \E i \in m .. n : s[i] = p
      <4>1. PICK i \in 1 .. n - m + 1 : t[i] = p
        BY <2>3 DEF Range
      <4>2. QED BY <2>2, <2>5, <4>1
    <3>2. ASSUME NEW i \in m .. n PROVE s[i] \in Range(t)
      BY <2>3, <2>4 DEF Range
    <3>3. QED BY <3>1, <3>2
  <2>7. QED BY <2>1, <2>6 DEF Ink
<1>3. QED BY <1>1, <1>2

LEMMA InkOfPiece ==
  ASSUME NEW s \in Piece
  PROVE  Ink(s) = {s[i] : i \in {j \in 1 .. Len(s) : ~IsSpace(s[j])}}
BY PieceFacts DEF Ink, Range

LEMMA JoinOf ==
  ASSUME NEW a \in Piece, NEW b \in Piece
  PROVE  /\ Join(a, b) \in Piece /\ Len(Join(a, b)) = Len(a) + 1 + Len(b)
         /\ \A i \in 1 .. Len(a) : Join(a, b)[i] = a[i]
         /\ Join(a, b)[Len(a) + 1] = 0
         /\ \A i \in 1 .. Len(b) : Join(a, b)[Len(a) + 1 + i] = b[i]
<1>1. PICK c : c = a \o <<0>>
  OBVIOUS
<1>2. <<0>> \in Seq(Nat) /\ Len(<<0>>) = 1 /\ <<0>>[1] = 0
  OBVIOUS
<1>3. /\ c \in Piece /\ Len(c) = Len(a) + 1 /\ c[Len(a) + 1] = 0
      /\ \A i \in 1 .. Len(a) : c[i] = a[i]
  BY <1>1, <1>2, PieceFacts, ConcatProperties DEF Piece
<1>4. PICK d : d = c \o b
  OBVIOUS
<1>5. /\ d \in Piece /\ Len(d) = Len(c) + Len(b)
      /\ \A i \in 1 .. Len(c) + Len(b) : d[i] = IF i <= Len(c) THEN c[i] ELSE b[i - Len(c)]
  BY <1>3, <1>4, ConcatProperties DEF Piece
<1>6. Len(a) \in Nat /\ Len(b) \in Nat /\ Len(c) \in Nat
  BY <1>3, PieceFacts
<1>7. ASSUME NEW i \in 1 .. Len(b) PROVE d[Len(c) + i] = b[i]
  <2>1. PICK k : k = Len(c) + i
    OBVIOUS
  <2>2. k \in 1 .. Len(c) + Len(b) /\ ~(k <= Len(c)) /\ k - Len(c) = i
    BY <1>6, <2>1
  <2>3. d[k] = b[k - Len(c)]
    BY <1>5, <2>2
  <2>4. QED BY <2>1, <2>2, <2>3
<1>8. \A i \in 1 .. Len(c) : d[i] = c[i]
  <2>1. \A i \in 1 .. Len(c) : i \in 1 .. Len(c) + Len(b) /\ i <= Len(c)
    BY <1>6
  <2>2. QED BY <1>5, <2>1
<1>9. \A i \in 1 .. Len(a) : d[i] = a[i]
  BY <1>3, <1>6, <1>8
<1>10. d[Len(a) + 1] = 0
  BY <1>3, <1>6, <1>8
<1>11. d = Join(a, b)
  BY <1>1, <1>4 DEF Join
<1>12. QED BY <1>3, <1>5, <1>7, <1>9, <1>10, <1>11

LEMMA InkOfJoin ==
  ASSUME NEW a \in Piece, NEW b \in Piece
  PROVE  Join(a, b) \in Piece /\ Ink(Join(a, b)) = Ink(a) \cup Ink(b)
<1>1. PICK d : d = Join(a, b)
  OBVIOUS
<1>2. /\ d \in Piece /\ Len(d) = Len(a) + 1 + Len(b)
      /\ \A i \in 1 .. Len(a) : d[i] = a[i]
      /\ d[Len(a) + 1] = 0
      /\ \A i \in 1 .. Len(b) : d[Len(a) + 1 + i] = b[i]
  BY <1>1, JoinOf
<1>3. IsSpace(0)
  BY DEF IsSpace
<1>4. /\ Len(a) \in Nat /\ Len(b) \in Nat /\ DOMAIN a = 1 .. Len(a) /\ DOMAIN b = 1 .. Len(b)
      /\ DOMAIN d = 1 .. Len(a) + 1 + Len(b)
  BY <1>2, PieceFacts
<1>5. ASSUME NEW p \in Ink(d) PROVE p \in Ink(a) \cup Ink(b)
  <2>1. PICK i \in 1 .. Len(a) + 1 + Len(b) : d[i] = p
    BY <1>4, <1>5 DEF Ink, Range
  <2>2. ~IsSpace(p)
    BY <1>5 DEF Ink
  <2>3. CASE i <= Len(a)
    BY <1>2, <1>4, <2>1, <2>2, <2>3 DEF Ink, Range
  <2>4. CASE i = Len(a) + 1
    BY <1>2, <1>3, <2>1, <2>2, <2>4
  <2>5. CASE i > Len(a) + 1
    <3>1. PICK k : k = i - (Len(a) + 1)
      OBVIOUS
    <3>2. k \in 1 .. Len(b) /\ Len(a) + 1 + k = i
      <4>1. /\ i \in Nat /\ i <= Len(a) + 1 + Len(b) /\ i > Len(a) + 1
            /\ Len(a) \in Nat /\ Len(b) \in Nat
        BY <1>4, <2>1, <2>5
      <4>2. QED BY <3>1, <4>1
    <3>3. d[i] = b[k]
      BY <1>2, <3>2
    <3>4. QED BY <1>4, <2>1, <2>2, <3>2, <3>3 DEF Ink, Range
  <2>6. QED BY <1>4, <2>1, <2>3, <2>4, <2>5
<1>6. ASSUME NEW p \in Ink(a) PROVE p \in Ink(d)
  <2>1. PICK i \in 1 .. Len(a) : a[i] = p
    BY <1>4, <1>6 DEF Ink, Range
  <2>2. i \in DOMAIN d /\ d[i] = p
    BY <1>2, <1>4, <2>1
  <2>3. QED BY <1>6, <2>2 DEF Ink, Range
<1>7. ASSUME NEW p \in Ink(b) PROVE p \in Ink(d)
  <2>1. PICK i \in 1 .. Len(b) : b[i] = p
    BY <1>4, <1>7 DEF Ink, Range
  <2>2. Len(a) + 1 + i \in DOMAIN d /\ d[Len(a) + 1 + i] = p
    BY <1>2, <1>4, <2>1
  <2>3. QED BY <1>7, <2>2 DEF Ink, Range
<1>8. QED BY <1>1, <1>2, <1>5, <1>6, <1>7

\* A trimmed piece has the same ink and begins with some.
LEMMA TrimOf ==
  ASSUME NEW s \in Piece
  PROVE  /\ Trim(s) \in Piece /\ Ink(Trim(s)) = Ink(s)
         /\ Trim(s) # <<>> => ~IsSpace(Trim(s)[1])
<1> DEFINE ink == {i \in DOMAIN s : ~IsSpace(s[i])}
<1>1. /\ Len(s) \in Nat /\ DOMAIN s = 1 .. Len(s) /\ ink \in SUBSET (0 .. Len(s))
      /\ ink \in SUBSET Nat
  BY PieceFacts
<1>2. CASE ink = {}
  <2>1. Trim(s) = <<>>
    BY <1>2 DEF Trim
  <2>2. Ink(s) = {} /\ Ink(<<>>) = {}
    BY <1>2 DEF Ink, Range
  <2>3. QED BY <2>1, <2>2 DEF Piece
<1>3. CASE ink # {}
  <2>1. PICK a, b : a = Min(ink) /\ b = Max(ink)
    OBVIOUS
  <2>2. Trim(s) = SubSeq(s, a, b)
    BY <1>3, <2>1 DEF Trim
  <2>3. a \in ink /\ b \in ink /\ \A i \in ink : a <= i /\ i <= b
    BY <1>1, <1>3, <2>1, MinOf, MaxOf
  <2>4. a \in 1 .. Len(s) /\ b \in 1 .. Len(s) /\ a <= b /\ ~IsSpace(s[a])
    BY <1>1, <2>3
  <2>5. PICK t : t = SubSeq(s, a, b)
    OBVIOUS
  <2>6. /\ t \in Piece /\ Len(t) = b - a + 1
        /\ \A i \in 1 .. b - a + 1 : t[i] = s[a + i - 1]
    BY <1>1, <2>4, <2>5, SubPiece
  <2>7. t[1] = s[a]
    BY <2>4, <2>6
  <2>8. Ink(t) = {s[i] : i \in {j \in a .. b : ~IsSpace(s[j])}}
    BY <1>1, <2>4, <2>5, InkOfSub
  <2>9. {j \in a .. b : ~IsSpace(s[j])} = {j \in 1 .. Len(s) : ~IsSpace(s[j])}
    BY <1>1, <2>3, <2>4
  <2>10. Ink(t) = Ink(s)
    BY <2>8, <2>9, InkOfPiece
  <2>11. QED BY <2>2, <2>4, <2>5, <2>6, <2>7, <2>10
<1>4. QED BY <1>2, <1>3

-----------------------------------------------------------------------------
(* The token counter.                                                      *)

\* The runes of the first n of a piece that begin a token.
Begin(s, n) == {i \in 1 .. n : BeginsToken(s, i)}

\* Which runes begin a token does not depend on what follows them.
LEMMA PrefixBegins ==
  ASSUME NEW s, NEW t, NEW n \in Nat, \A i \in 1 .. n : t[i] = s[i]
  PROVE  \A i \in 1 .. n : BeginsToken(t, i) <=> BeginsToken(s, i)
<1>1. ASSUME NEW i \in 1 .. n PROVE WordStart(t, i) = WordStart(s, i)
  <2>1. ASSUME NEW j \in 1 .. i
        PROVE  /\ (\A k \in j .. i : ~IsSpace(t[k])) <=> \A k \in j .. i : ~IsSpace(s[k])
               /\ j # 1 => t[j - 1] = s[j - 1]
    <3>1. \A k \in j .. i : t[k] = s[k]
      OBVIOUS
    <3>2. j # 1 => j - 1 \in 1 .. n
      OBVIOUS
    <3>3. QED BY <3>1, <3>2
  <2>2. {j \in 1 .. i : (\A k \in j .. i : ~IsSpace(t[k])) /\ (j = 1 \/ IsSpace(t[j - 1]))}
          = {j \in 1 .. i : (\A k \in j .. i : ~IsSpace(s[k])) /\ (j = 1 \/ IsSpace(s[j - 1]))}
    BY <2>1
  <2>3. QED BY <2>2 DEF WordStart
<1>2. QED BY <1>1 DEF BeginsToken

LEMMA TokensOfPrefix ==
  ASSUME NEW s \in Piece, NEW n \in 0 .. Len(s)
  PROVE  /\ Tokens(SubSeq(s, 1, n)) = Cardinality(Begin(s, n))
         /\ IsFiniteSet(Begin(s, n))
<1>1. PICK t : t = SubSeq(s, 1, n)
  OBVIOUS
<1>2. /\ Len(s) \in Nat /\ n \in Nat /\ DOMAIN t = 1 .. n
      /\ \A i \in 1 .. n : t[i] = s[i]
  <2>1. Len(s) \in Nat /\ n \in Nat /\ n <= Len(s)
    BY PieceFacts
  <2>2. CASE n = 0
    BY <1>1, <2>1, <2>2, SubPiece
  <2>3. CASE n > 0
    <3>1. t \in Piece /\ Len(t) = n - 1 + 1 /\ \A i \in 1 .. n - 1 + 1 : t[i] = s[1 + i - 1]
      BY <1>1, <2>1, <2>3, SubPiece
    <3>2. QED BY <2>1, <2>3, <3>1, PieceFacts
  <2>4. QED BY <2>1, <2>2, <2>3
<1>3. \A i \in 1 .. n : BeginsToken(t, i) <=> BeginsToken(s, i)
  BY <1>2, PrefixBegins
<1>4. {i \in DOMAIN t : BeginsToken(t, i)} = Begin(s, n)
  BY <1>2, <1>3 DEF Begin
<1>5. IsFiniteSet(Begin(s, n))
  <2>1. IsFiniteSet(1 .. n)
    BY <1>2, FS_Interval
  <2>2. QED BY <2>1, FS_Subset DEF Begin
<1>6. QED BY <1>1, <1>4, <1>5 DEF Tokens

LEMMA TokensTyped ==
  ASSUME NEW s \in Piece
  PROVE  Tokens(s) \in Nat
<1>1. SubSeq(s, 1, Len(s)) = s /\ Len(s) \in 0 .. Len(s)
  BY SubSeqFull, PieceFacts DEF Piece
<1>2. QED BY <1>1, TokensOfPrefix, FS_CardinalityType

LEMMA TokensOfNothing == Tokens(<<>>) = 0
<1>1. {i \in DOMAIN <<>> : BeginsToken(<<>>, i)} = {}
  OBVIOUS
<1>2. QED BY <1>1, FS_EmptySet DEF Tokens

\* A piece has no more tokens than a longer one from the same rune on.
LEMMA TokensGrow ==
  ASSUME NEW s \in Piece, NEW n \in 0 .. Len(s), NEW m \in 0 .. n
  PROVE  Tokens(SubSeq(s, 1, m)) <= Tokens(SubSeq(s, 1, n))
<1>1. Len(s) \in Nat /\ n \in Nat /\ m \in 0 .. Len(s) /\ Begin(s, m) \in SUBSET Begin(s, n)
  BY PieceFacts DEF Begin
<1>2. QED BY <1>1, TokensOfPrefix, FS_Subset

LEMMA FirstOf ==
  ASSUME NEW s \in Piece, s # <<>>, ~IsSpace(s[1]), NEW e \in 1 .. Len(s)
  PROVE  \E last \in 1 .. e : /\ First(s, e) = SubSeq(s, 1, last)
                              /\ ~IsSpace(s[last])
                              /\ \A i \in last + 1 .. e : IsSpace(s[i])
<1>1. PICK t : t = SubSeq(s, 1, e)
  OBVIOUS
<1>2. Len(s) \in Nat /\ e \in Nat /\ e > 0 /\ e <= Len(s)
  BY PieceFacts
<1>3. t \in Piece /\ DOMAIN t = 1 .. e /\ \A i \in 1 .. e : t[i] = s[i]
  <2>1. t \in Piece /\ Len(t) = e - 1 + 1 /\ \A i \in 1 .. e - 1 + 1 : t[i] = s[1 + i - 1]
    BY <1>1, <1>2, SubPiece
  <2>2. QED BY <1>2, <2>1, PieceFacts
<1> DEFINE ink == {i \in DOMAIN t : ~IsSpace(t[i])}
<1>4. ink \in SUBSET (0 .. e) /\ ink \in SUBSET Nat /\ 1 \in ink
  BY <1>2, <1>3
<1>5. PICK a, last : a = Min(ink) /\ last = Max(ink)
  OBVIOUS
<1>6. a \in ink /\ last \in ink /\ \A i \in ink : a <= i /\ i <= last
  BY <1>2, <1>4, <1>5, MinOf, MaxOf
<1>7. a = 1
  BY <1>3, <1>4, <1>6
<1>8. Trim(t) = SubSeq(t, 1, last)
  BY <1>4, <1>5, <1>7 DEF Trim
<1>9. last \in 1 .. e /\ ~IsSpace(s[last]) /\ \A i \in last + 1 .. e : IsSpace(s[i])
  BY <1>2, <1>3, <1>6
<1>10. SubSeq(t, 1, last) = SubSeq(s, 1, last)
  <2>1. /\ SubSeq(t, 1, last) \in Piece /\ Len(SubSeq(t, 1, last)) = last - 1 + 1
        /\ \A i \in 1 .. last - 1 + 1 : SubSeq(t, 1, last)[i] = t[1 + i - 1]
    <3>1. last \in Nat /\ last > 0 /\ last <= Len(t)
      BY <1>3, <1>9, PieceFacts
    <3>2. QED BY <1>3, <3>1, SubPiece
  <2>2. /\ SubSeq(s, 1, last) \in Piece /\ Len(SubSeq(s, 1, last)) = last - 1 + 1
        /\ \A i \in 1 .. last - 1 + 1 : SubSeq(s, 1, last)[i] = s[1 + i - 1]
    <3>1. last \in Nat /\ last > 0 /\ last <= Len(s)
      BY <1>2, <1>9
    <3>2. QED BY <3>1, SubPiece
  <2>3. \A i \in 1 .. last : SubSeq(t, 1, last)[i] = SubSeq(s, 1, last)[i]
    BY <1>3, <1>9, <2>1, <2>2
  <2>4. QED BY <1>9, <2>1, <2>2, <2>3, SeqEqual DEF Piece
<1>11. QED BY <1>1, <1>8, <1>9, <1>10 DEF First

LEMMA FirstGrows ==
  ASSUME NEW s \in Piece, s # <<>>, ~IsSpace(s[1]), NEW n \in 1 .. Len(s), NEW m \in 1 .. n
  PROVE  Tokens(First(s, m)) <= Tokens(First(s, n))
<1>1. Len(s) \in Nat /\ n \in Nat /\ m \in 1 .. Len(s)
  BY PieceFacts
<1>2. PICK k \in 1 .. m : First(s, m) = SubSeq(s, 1, k) /\ ~IsSpace(s[k])
  BY <1>1, FirstOf
<1>3. PICK l \in 1 .. n : /\ First(s, n) = SubSeq(s, 1, l)
                          /\ \A i \in l + 1 .. n : IsSpace(s[i])
  BY <1>1, FirstOf
<1>4. k \in 0 .. l /\ l \in 0 .. Len(s)
  BY <1>1, <1>2, <1>3
<1>5. QED BY <1>2, <1>3, <1>4, TokensGrow

-----------------------------------------------------------------------------
(* Cutting a piece.                                                        *)

LEMMA AfterOf ==
  ASSUME NEW s \in Piece, NEW k \in 0 .. Len(s)
  PROVE  /\ After(s, k) \in Piece
         /\ Len(After(s, k)) = Len(s) - k
         /\ After(s, k) # <<>> => k + 1 \in 1 .. Len(s) /\ After(s, k)[1] = s[k + 1]
         /\ Ink(After(s, k)) = {s[i] : i \in {j \in k + 1 .. Len(s) : ~IsSpace(s[j])}}
<1>1. Len(s) \in Nat /\ k \in Nat /\ k <= Len(s) /\ k + 1 \in Nat /\ k + 1 > 0
  BY PieceFacts
<1>2. PICK t : t = SubSeq(s, k + 1, Len(s))
  OBVIOUS
<1>3. /\ t \in Piece
      /\ k + 1 <= Len(s) => Len(t) = Len(s) - (k + 1) + 1
      /\ k + 1 > Len(s) => t = <<>>
      /\ \A i \in 1 .. Len(s) - (k + 1) + 1 : t[i] = s[k + 1 + i - 1]
  BY <1>1, <1>2, SubPiece
<1>4. Len(t) = Len(s) - k
  BY <1>1, <1>3, PieceFacts
<1>5. ASSUME t # <<>> PROVE k + 1 \in 1 .. Len(s) /\ t[1] = s[k + 1]
  <2>1. k + 1 <= Len(s)
    BY <1>1, <1>3, <1>5
  <2>2. 1 \in 1 .. Len(s) - (k + 1) + 1
    BY <1>1, <2>1
  <2>3. t[1] = s[k + 1 + 1 - 1]
    BY <1>3, <2>2
  <2>4. k + 1 + 1 - 1 = k + 1
    BY <1>1
  <2>5. QED BY <1>1, <2>1, <2>3, <2>4
<1>6. Ink(t) = {s[i] : i \in {j \in k + 1 .. Len(s) : ~IsSpace(s[j])}}
  BY <1>1, <1>2, InkOfSub
<1>7. QED BY <1>2, <1>3, <1>4, <1>5, <1>6 DEF After

\* A piece is cut without loss if only spaces are left out.
LEMMA InkSplits ==
  ASSUME NEW s \in Piece, NEW k \in 0 .. Len(s), NEW m \in 0 .. Len(s),
         \A i \in k + 1 .. m : IsSpace(s[i])
  PROVE  First(s, k) \in Piece /\ Ink(First(s, k)) \cup Ink(After(s, m)) = Ink(s)
<1>1. Len(s) \in Nat /\ k \in Nat /\ m \in Nat /\ k <= Len(s) /\ m <= Len(s)
  BY PieceFacts
<1>2. SubSeq(s, 1, k) \in Piece
  BY <1>1, SubPiece
<1>3. First(s, k) \in Piece /\ Ink(First(s, k)) = Ink(SubSeq(s, 1, k))
  BY <1>2, TrimOf DEF First
<1>4. Ink(SubSeq(s, 1, k)) = {s[i] : i \in {j \in 1 .. k : ~IsSpace(s[j])}}
  BY <1>1, InkOfSub
<1>5. Ink(After(s, m)) = {s[i] : i \in {j \in m + 1 .. Len(s) : ~IsSpace(s[j])}}
  BY AfterOf
<1>6. Ink(s) = {s[i] : i \in {j \in 1 .. Len(s) : ~IsSpace(s[j])}}
  BY InkOfPiece
<1>7. {j \in 1 .. k : ~IsSpace(s[j])} \cup {j \in m + 1 .. Len(s) : ~IsSpace(s[j])}
        = {j \in 1 .. Len(s) : ~IsSpace(s[j])}
  <2>1. ASSUME NEW j \in 1 .. Len(s), ~IsSpace(s[j]), j > k PROVE j \in m + 1 .. Len(s)
    BY <1>1, <2>1
  <2>2. QED BY <1>1, <2>1
<1>8. QED BY <1>3, <1>4, <1>5, <1>6, <1>7

LEMMA FirstTyped ==
  ASSUME NEW s \in Piece, NEW k \in 0 .. Len(s)
  PROVE  First(s, k) \in Piece /\ Ink(First(s, k)) \subseteq Ink(s)
<1>1. Len(s) \in Nat /\ \A i \in k + 1 .. k : IsSpace(s[i])
  BY PieceFacts
<1>2. QED BY <1>1, InkSplits

LEMMA BoundedEndOf ==
  ASSUME NEW s \in Piece, BoundedEnd(s) # 0
  PROVE  BoundedEnd(s) \in 1 .. Len(s) /\ Tokens(First(s, BoundedEnd(s))) <= Most
<1> DEFINE ends == {0} \cup {e \in DOMAIN s : Tokens(First(s, e)) <= Most}
<1>1. Len(s) \in Nat /\ DOMAIN s = 1 .. Len(s)
  BY PieceFacts
<1>2. ends \in SUBSET (0 .. Len(s)) /\ ends # {}
  BY <1>1
<1>3. Max(ends) \in ends
  BY <1>1, <1>2, MaxOf
<1>4. BoundedEnd(s) = Max(ends)
  BY DEF BoundedEnd
<1>5. QED BY <1>1, <1>3, <1>4

\* A window has text, and not too many tokens.
LEMMA WindowEndOf ==
  ASSUME NEW s \in Piece, s # <<>>, ~IsSpace(s[1]), BoundedEnd(s) # 0
  PROVE  WindowEnd(s) \in 1 .. Len(s) /\ Tokens(First(s, WindowEnd(s))) <= Most
<1>1. PICK e : e = BoundedEnd(s)
  OBVIOUS
<1>2. Len(s) \in Nat /\ e \in 1 .. Len(s) /\ Tokens(First(s, e)) <= Most
  BY <1>1, BoundedEndOf, PieceFacts
<1> DEFINE spaces == {b \in 1 .. e : IsSpace(s[b])}
<1>3. CASE e < Len(s) /\ spaces # {}
  <2>1. PICK b : b = Max(spaces)
    OBVIOUS
  <2>2. spaces \in SUBSET (0 .. e) /\ e \in Nat
    BY <1>2
  <2>3. b \in spaces
    BY <1>3, <2>1, <2>2, MaxOf
  <2>4. b \in 1 .. e /\ b # 1
    BY <2>3
  <2>5. b - 1 \in 1 .. e
    BY <1>2, <2>4
  <2>6. WindowEnd(s) = b - 1
    BY <1>1, <1>3, <2>1 DEF WindowEnd
  <2>7. Tokens(First(s, b - 1)) <= Tokens(First(s, e))
    BY <1>2, <2>5, FirstGrows
  <2>8. First(s, b - 1) \in Piece /\ First(s, e) \in Piece
    BY <1>2, <2>5, FirstTyped
  <2>9. Tokens(First(s, b - 1)) <= Most
    BY <1>2, <2>7, <2>8, TokensTyped, ConfigAssumption DEF ConfigAssumption
  <2>10. QED BY <1>2, <2>5, <2>6, <2>9
<1>4. CASE ~(e < Len(s) /\ spaces # {})
  <2>1. WindowEnd(s) = e
    BY <1>1, <1>4 DEF WindowEnd
  <2>2. QED BY <1>2, <2>1
<1>5. QED BY <1>3, <1>4

LEMMA OverlapStartOf ==
  ASSUME NEW s \in Piece, NEW end \in 1 .. Len(s)
  PROVE  OverlapStart(s, end) \in Nat /\ OverlapStart(s, end) <= end + 1
<1>1. Len(s) \in Nat /\ end \in Nat /\ end > 0
  BY PieceFacts
<1> DEFINE within == {end + 1} \cup {m \in 2 .. end : Tokens(Trim(SubSeq(s, m, end))) <= Overlap}
<1>2. PICK shortest : shortest = Min(within)
  OBVIOUS
<1>3. shortest \in Nat /\ shortest <= end + 1
  <2>1. within \in SUBSET Nat /\ end + 1 \in within
    BY <1>1
  <2>2. QED BY <1>2, <2>1, MinOf
<1> DEFINE inked == {end + 1} \cup {m \in shortest .. end : ~IsSpace(s[m])}
<1>4. PICK word : word = Min(inked)
  OBVIOUS
<1>5. word \in Nat /\ word <= end + 1
  <2>1. inked \in SUBSET Nat /\ end + 1 \in inked
    BY <1>1, <1>3
  <2>2. QED BY <1>4, <2>1, MinOf
<1> DEFINE starts == {2} \cup {m \in 3 .. word : IsSpace(s[m - 1])}
<1>6. OverlapStart(s, end) = IF word <= 2 THEN word ELSE Max(starts)
  BY <1>2, <1>4 DEF OverlapStart
<1>7. ASSUME word > 2 PROVE Max(starts) \in Nat /\ Max(starts) <= word
  <2>1. starts \in SUBSET (0 .. word) /\ starts # {}
    BY <1>5, <1>7
  <2>2. Max(starts) \in starts
    BY <1>5, <2>1, MaxOf
  <2>3. QED BY <1>5, <2>1, <2>2
<1> HIDE DEF starts
<1>8. CASE word <= 2
  BY <1>5, <1>6, <1>8
<1>9. CASE word > 2
  <2>1. Max(starts) \in Nat /\ Max(starts) <= word /\ OverlapStart(s, end) = Max(starts)
    BY <1>5, <1>6, <1>7, <1>9
  <2>2. QED BY <1>1, <1>5, <2>1
<1>10. QED BY <1>5, <1>8, <1>9

\* The next window begins a rune on at least, with text; what is left out
\* between the two are spaces.
LEMMA NextStartOf ==
  ASSUME NEW s \in Piece, NEW end \in 1 .. Len(s)
  PROVE  /\ NextStart(s, end) \in 2 .. Len(s) + 1
         /\ NextStart(s, end) <= Len(s) => ~IsSpace(s[NextStart(s, end)])
         /\ \A i \in end + 1 .. NextStart(s, end) - 1 : IsSpace(s[i])
<1>1. Len(s) \in Nat /\ end \in Nat /\ end > 0 /\ end <= Len(s)
  BY PieceFacts
<1>2. PICK start : start = OverlapStart(s, end)
  OBVIOUS
<1>3. start \in Nat /\ start <= end + 1
  BY <1>2, OverlapStartOf
<1>4. PICK next : next = Max({start, 2})
  OBVIOUS
<1>5. next \in Nat /\ next >= 2 /\ next <= end + 1
  <2>1. {start, 2} \in SUBSET (0 .. end + 1) /\ {start, 2} # {} /\ end + 1 \in Nat
    BY <1>1, <1>3
  <2>2. next \in {start, 2} /\ \A y \in {start, 2} : next >= y
    BY <1>4, <2>1, MaxOf
  <2>3. QED BY <1>1, <1>3, <2>2
<1> DEFINE inked == {Len(s) + 1} \cup {m \in next .. Len(s) : ~IsSpace(s[m])}
<1>6. PICK n : n = Min(inked)
  OBVIOUS
<1>7. n \in inked /\ \A m \in inked : n <= m
  <2>1. inked \in SUBSET Nat /\ inked # {}
    BY <1>1, <1>5
  <2>2. QED BY <1>6, <2>1, MinOf
<1>8. NextStart(s, end) = n
  BY <1>2, <1>4, <1>6 DEF NextStart
<1>9. n \in Nat /\ n >= 2 /\ n <= Len(s) + 1
  BY <1>1, <1>5, <1>7
<1>10. n <= Len(s) => ~IsSpace(s[n])
  BY <1>1, <1>7
<1>11. ASSUME NEW i \in end + 1 .. n - 1 PROVE IsSpace(s[i])
  <2>1. i \in next .. Len(s) /\ i < n
    BY <1>1, <1>5, <1>9
  <2>2. QED BY <1>7, <2>1
<1>12. QED BY <1>8, <1>9, <1>10, <1>11

-----------------------------------------------------------------------------
(* The chunks.                                                             *)

ChunkRow == [page : 1 .. 2, at : Piece]

\* What the chunks hold of a page.
Held(all, n) == UNION {Ink(all[k].at) : k \in {j \in DOMAIN all : all[j].page = n}}

\* Chunks that fit, of page n from the first one on and of earlier pages before.
ChunksOK(all, first, n) ==
  /\ all \in Seq(ChunkRow)
  /\ first \in 0 .. Len(all)
  /\ \A k \in DOMAIN all :
       /\ Tokens(all[k].at) <= Most
       /\ IF k <= first THEN all[k].page < n ELSE all[k].page = n

LEMMA ChunkFacts ==
  ASSUME NEW all \in Seq(ChunkRow)
  PROVE  /\ Len(all) \in Nat /\ DOMAIN all = 1 .. Len(all)
         /\ \A k \in DOMAIN all : /\ all[k] \in ChunkRow /\ all[k].page \in 1 .. 2
                                  /\ all[k].at \in Piece
                                  /\ all[k] = [page |-> all[k].page, at |-> all[k].at]
<1>1. Len(all) \in Nat /\ DOMAIN all = 1 .. Len(all) /\ \A k \in DOMAIN all : all[k] \in ChunkRow
  BY LenProperties
<1>2. \A r \in ChunkRow : /\ r.page \in 1 .. 2 /\ r.at \in Piece
                          /\ r = [page |-> r.page, at |-> r.at]
  BY DEF ChunkRow
<1>3. QED BY <1>1, <1>2

LEMMA ChunkAppended ==
  ASSUME NEW all, NEW first, NEW n \in 1 .. 2, ChunksOK(all, first, n),
         NEW a \in Piece, Tokens(a) <= Most
  PROVE  LET more == Append(all, [page |-> n, at |-> a])
         IN /\ ChunksOK(more, first, n)
            /\ Held(more, n) = Held(all, n) \cup Ink(a)
            /\ \A m \in 1 .. 2 : m # n => Held(more, m) = Held(all, m)
<1>1. PICK c : c = [page |-> n, at |-> a]
  OBVIOUS
<1>2. c \in ChunkRow /\ c.page = n /\ c.at = a
  BY <1>1 DEF ChunkRow
<1>3. all \in Seq(ChunkRow) /\ first \in 0 .. Len(all) /\ Len(all) \in Nat /\ DOMAIN all = 1 .. Len(all)
  BY ChunkFacts DEF ChunksOK
<1>4. PICK more : more = Append(all, c)
  OBVIOUS
<1>5. /\ more \in Seq(ChunkRow) /\ Len(more) = Len(all) + 1 /\ more[Len(all) + 1] = c
      /\ \A k \in 1 .. Len(all) : more[k] = all[k]
  BY <1>2, <1>3, <1>4, AppendProperties
<1>6. DOMAIN more = 1 .. Len(all) + 1
  BY <1>5, LenProperties
<1>7. ASSUME NEW k \in DOMAIN more
      PROVE  /\ Tokens(more[k].at) <= Most
             /\ IF k <= first THEN more[k].page < n ELSE more[k].page = n
  <2>1. CASE k \in 1 .. Len(all)
    BY <1>3, <1>5, <2>1 DEF ChunksOK
  <2>2. CASE k = Len(all) + 1
    <3>1. ~(k <= first)
      BY <1>3, <2>2
    <3>2. QED BY <1>2, <1>5, <2>2, <3>1
  <2>3. QED BY <1>3, <1>6, <1>7, <2>1, <2>2
<1>8. ChunksOK(more, first, n)
  <2>1. first \in 0 .. Len(more)
    BY <1>3, <1>5
  <2>2. QED BY <1>5, <1>7, <2>1 DEF ChunksOK
<1>9. \A m : {j \in DOMAIN more : more[j].page = m} =
         {j \in DOMAIN all : all[j].page = m} \cup (IF m = n THEN {Len(all) + 1} ELSE {})
  <2>1. ASSUME NEW m, NEW j \in 1 .. Len(all) + 1
        PROVE  more[j].page = m <=>
                 (j \in 1 .. Len(all) /\ all[j].page = m) \/ (j = Len(all) + 1 /\ m = n)
    <3>1. CASE j \in 1 .. Len(all)
      <4>1. j # Len(all) + 1
        BY <1>3, <3>1
      <4>2. QED BY <1>5, <3>1, <4>1
    <3>2. CASE j = Len(all) + 1
      <4>1. j \notin 1 .. Len(all)
        BY <1>3, <3>2
      <4>2. QED BY <1>2, <1>5, <3>2, <4>1
    <3>3. QED BY <1>3, <2>1, <3>1, <3>2
  <2>2. 1 .. Len(all) \subseteq 1 .. Len(all) + 1 /\ Len(all) + 1 \in 1 .. Len(all) + 1
    BY <1>3
  <2>3. QED BY <1>3, <1>6, <2>1, <2>2
<1>10. Held(more, n) = Held(all, n) \cup Ink(a)
  <2>1. {j \in DOMAIN more : more[j].page = n} = {j \in DOMAIN all : all[j].page = n} \cup {Len(all) + 1}
    BY <1>9
  <2>2. \A j \in {j \in DOMAIN all : all[j].page = n} : more[j].at = all[j].at
    BY <1>3, <1>5
  <2>3. more[Len(all) + 1].at = a
    BY <1>2, <1>5
  <2>4. QED BY <2>1, <2>2, <2>3 DEF Held
<1>11. \A m \in 1 .. 2 : m # n => Held(more, m) = Held(all, m)
  <2>1. ASSUME NEW m \in 1 .. 2, m # n PROVE Held(more, m) = Held(all, m)
    <3>1. {j \in DOMAIN more : more[j].page = m} = {j \in DOMAIN all : all[j].page = m}
      BY <1>9, <2>1
    <3>2. \A j \in {j \in DOMAIN all : all[j].page = m} : more[j].at = all[j].at
      BY <1>3, <1>5
    <3>3. QED BY <3>1, <3>2 DEF Held
  <2>2. QED BY <2>1
<1>12. QED BY <1>1, <1>4, <1>8, <1>10, <1>11

\* The last chunk taken off.
LEMMA ChunkRemoved ==
  ASSUME NEW all, NEW first, NEW n \in 1 .. 2, ChunksOK(all, first, n), first < Len(all)
  PROVE  LET fewer == SubSeq(all, 1, Len(all) - 1)
             last == all[Len(all)]
         IN /\ ChunksOK(fewer, first, n) /\ Len(fewer) = Len(all) - 1
            /\ last.at \in Piece /\ Tokens(last.at) <= Most /\ last.page = n
            /\ all = Append(fewer, [page |-> n, at |-> last.at])
            /\ \A k \in 1 .. Len(all) - 1 : fewer[k] = all[k]
<1>1. PICK l, fewer, last : l = Len(all) /\ fewer = SubSeq(all, 1, l - 1) /\ last = all[l]
  OBVIOUS
<1>2. /\ all \in Seq(ChunkRow) /\ first \in 0 .. l /\ l \in Nat /\ l > 0 /\ DOMAIN all = 1 .. l
      /\ first < l
      /\ \A k \in 1 .. l : all[k] \in ChunkRow
  BY <1>1, ChunkFacts DEF ChunksOK
<1>3. /\ last.at \in Piece /\ Tokens(last.at) <= Most /\ last.page = n
      /\ last = [page |-> n, at |-> last.at] /\ last \in ChunkRow
  <2>1. l \in DOMAIN all /\ ~(l <= first)
    BY <1>2
  <2>2. Tokens(last.at) <= Most /\ last.page = n
    BY <1>1, <2>1 DEF ChunksOK
  <2>3. QED BY <1>1, <1>2, <2>1, <2>2, ChunkFacts
<1>4. /\ fewer \in Seq(ChunkRow) /\ Len(fewer) = l - 1
      /\ \A k \in 1 .. l - 1 : fewer[k] = all[k]
  <2>1. \A k \in 1 .. l - 1 : all[k] \in ChunkRow
    BY <1>2
  <2>2. 1 \in Int /\ l - 1 \in Int
    BY <1>2
  <2>3. /\ fewer \in Seq(ChunkRow) /\ Len(fewer) = IF 1 <= l - 1 THEN l - 1 - 1 + 1 ELSE 0
        /\ \A k \in 1 .. l - 1 - 1 + 1 : fewer[k] = all[1 + k - 1]
    BY <1>1, <2>1, <2>2, SubSeqProperties
  <2>4. QED BY <1>2, <2>3
<1>5. DOMAIN fewer = 1 .. l - 1
  BY <1>4, LenProperties
<1>6. ChunksOK(fewer, first, n)
  <2>1. first \in 0 .. Len(fewer)
    BY <1>2, <1>4
  <2>2. \A k \in DOMAIN fewer : k \in DOMAIN all /\ fewer[k] = all[k]
    BY <1>2, <1>4, <1>5
  <2>3. QED BY <1>4, <2>1, <2>2 DEF ChunksOK
<1>7. all = Append(fewer, last)
  <2>1. PICK t : t = Append(fewer, last)
    OBVIOUS
  <2>2. /\ t \in Seq(ChunkRow) /\ Len(t) = l - 1 + 1 /\ t[l - 1 + 1] = last
        /\ \A k \in 1 .. l - 1 : t[k] = fewer[k]
    BY <1>3, <1>4, <2>1, AppendProperties
  <2>3. Len(t) = Len(all) /\ \A k \in 1 .. Len(t) : t[k] = all[k]
    BY <1>1, <1>2, <1>4, <2>2
  <2>4. QED BY <1>2, <2>1, <2>2, <2>3, SeqEqual
<1>8. QED BY <1>1, <1>3, <1>4, <1>6, <1>7

\* mergeTokenTail moves no text to another page.
LEMMA Merges ==
  ASSUME NEW all, page \in 1 .. 2, ChunksOK(all, pageStart, page)
  PROVE  /\ ChunksOK(MergedTail(all), pageStart, page)
         /\ \A m \in 1 .. 2 : Held(MergedTail(all), m) = Held(all, m)
<1>1. PICK l : l = Len(all)
  OBVIOUS
<1>2. all \in Seq(ChunkRow) /\ pageStart \in 0 .. l /\ l \in Nat
  BY <1>1, ChunkFacts DEF ChunksOK
<1>3. CASE MergedTail(all) = all
  BY <1>3
<1>4. CASE MergedTail(all) # all
  <2>1. PICK a, b : a = all[l - 1].at /\ b = all[l].at
    OBVIOUS
  <2>2. /\ l >= pageStart + 2 /\ Tokens(Join(a, b)) <= Most
        /\ MergedTail(all) = Append(SubSeq(all, 1, l - 2), [page |-> page, at |-> Join(a, b)])
    BY <1>1, <1>4, <2>1 DEF MergedTail
  <2>3. PICK one : one = SubSeq(all, 1, l - 1)
    OBVIOUS
  <2>4. pageStart < l
    BY <1>2, <2>2
  <2>5. /\ ChunksOK(one, pageStart, page) /\ Len(one) = l - 1
        /\ b \in Piece /\ Tokens(b) <= Most
        /\ all = Append(one, [page |-> page, at |-> b])
        /\ \A k \in 1 .. l - 1 : one[k] = all[k]
    BY <1>1, <2>1, <2>3, <2>4, ChunkRemoved
  <2>6. PICK two : two = SubSeq(one, 1, Len(one) - 1)
    OBVIOUS
  <2>7. pageStart < Len(one) /\ l - 1 \in 1 .. l - 1
    BY <1>2, <2>2, <2>5
  <2>8. one[Len(one)].at = a
    BY <2>1, <2>5, <2>7
  <2>9. /\ ChunksOK(two, pageStart, page) /\ Len(two) = Len(one) - 1
        /\ a \in Piece /\ Tokens(a) <= Most
        /\ one = Append(two, [page |-> page, at |-> a])
        /\ \A k \in 1 .. Len(one) - 1 : two[k] = one[k]
    <3>1. ChunksOK(one, pageStart, page) /\ pageStart < Len(one)
      BY <2>5, <2>7
    <3>2. /\ ChunksOK(two, pageStart, page) /\ Len(two) = Len(one) - 1
          /\ one[Len(one)].at \in Piece /\ Tokens(one[Len(one)].at) <= Most
          /\ one = Append(two, [page |-> page, at |-> one[Len(one)].at])
          /\ \A k \in 1 .. Len(one) - 1 : two[k] = one[k]
      BY <2>6, <3>1, ChunkRemoved
    <3>3. QED BY <2>8, <3>2
  <2>10. two = SubSeq(all, 1, l - 2)
    <3>1. PICK t : t = SubSeq(all, 1, l - 2)
      OBVIOUS
    <3>2. \A k \in 1 .. l - 2 : all[k] \in ChunkRow
      BY <1>1, <1>2, <2>2, ChunkFacts
    <3>3. l - 2 \in Int /\ l >= 2
      BY <1>2, <2>2
    <3>4. /\ t \in Seq(ChunkRow) /\ Len(t) = IF 1 <= l - 2 THEN l - 2 - 1 + 1 ELSE 0
          /\ \A k \in 1 .. l - 2 - 1 + 1 : t[k] = all[1 + k - 1]
      BY <3>1, <3>2, <3>3, SubSeqProperties
    <3>5. Len(two) = l - 2 /\ Len(t) = l - 2
      BY <1>2, <2>5, <2>9, <3>3, <3>4
    <3>6. \A k \in 1 .. l - 2 : two[k] = all[k]
      BY <1>2, <2>5, <2>9
    <3>7. \A k \in 1 .. l - 2 : t[k] = all[k]
      BY <1>2, <3>4
    <3>8. two \in Seq(ChunkRow)
      BY <2>9 DEF ChunksOK
    <3>9. QED BY <3>1, <3>4, <3>5, <3>6, <3>7, <3>8, SeqEqual
  <2>11. PICK m2 : m2 = Append(two, [page |-> page, at |-> Join(a, b)])
    OBVIOUS
  <2>12. m2 = MergedTail(all)
    BY <2>2, <2>10, <2>11
  <2>13. Join(a, b) \in Piece /\ Ink(Join(a, b)) = Ink(a) \cup Ink(b)
    BY <2>5, <2>9, InkOfJoin
  <2>14. /\ ChunksOK(m2, pageStart, page)
         /\ Held(m2, page) = Held(two, page) \cup Ink(Join(a, b))
         /\ \A m \in 1 .. 2 : m # page => Held(m2, m) = Held(two, m)
    BY <2>2, <2>9, <2>11, <2>13, ChunkAppended
  <2>15. /\ Held(one, page) = Held(two, page) \cup Ink(a)
         /\ \A m \in 1 .. 2 : m # page => Held(one, m) = Held(two, m)
    BY <2>9, ChunkAppended
  <2>16. /\ Held(all, page) = Held(one, page) \cup Ink(b)
         /\ \A m \in 1 .. 2 : m # page => Held(all, m) = Held(one, m)
    BY <2>5, ChunkAppended
  <2>17. ASSUME NEW m \in 1 .. 2 PROVE Held(m2, m) = Held(all, m)
    <3>1. CASE m = page
      BY <2>13, <2>14, <2>15, <2>16, <3>1
    <3>2. CASE m # page
      BY <2>14, <2>15, <2>16, <3>2
    <3>3. QED BY <3>1, <3>2
  <2>18. QED BY <2>12, <2>14, <2>17
<1>5. QED BY <1>3, <1>4

\* The sentences collected become a chunk.
LEMMA Flushes ==
  ASSUME page \in 1 .. 2, ChunksOK(chunks, pageStart, page),
         current \in Piece, Tokens(current) <= Most
  PROVE  /\ ChunksOK(Flushed, pageStart, page)
         /\ Held(Flushed, page) = Held(chunks, page) \cup Ink(current)
         /\ \A m \in 1 .. 2 : m # page => Held(Flushed, m) = Held(chunks, m)
<1>1. CASE current = <<>>
  <2>1. Ink(current) = {}
    BY <1>1 DEF Ink, Range
  <2>2. Flushed = chunks
    BY <1>1 DEF Flushed
  <2>3. QED BY <2>1, <2>2
<1>2. CASE current # <<>>
  <2>1. Flushed = Append(chunks, [page |-> page, at |-> current])
    BY <1>2 DEF Flushed
  <2>2. QED BY <2>1, ChunkAppended
<1>3. QED BY <1>1, <1>2

-----------------------------------------------------------------------------
(* The invariant.                                                          *)

\* Every rune of the page under way that is not a space is in one of its
\* chunks, in the sentences collected, in what is left of a sentence over the
\* maximum or in the rest of the page; the pages before are in their chunks.
Whole(pg, rs, fo, cu, first, cs) ==
  /\ Len(text) \in Nat /\ cut \in 0 .. Len(text)
  /\ pg \in 1 .. 3
  /\ rs \in Piece /\ fo \in Piece /\ cu \in Piece
  /\ fo # <<>> => ~IsSpace(fo[1])
  /\ Tokens(cu) <= Most
  /\ ChunksOK(cs, first, pg)
  /\ pg = 3 => rs = <<>> /\ fo = <<>> /\ cu = <<>>
  /\ \A n \in 1 .. 2 : n < pg => Held(cs, n) = Ink(PageRunes(n))
  /\ pg # 3 => Held(cs, pg) \cup Ink(cu) \cup Ink(fo) \cup Ink(rs) = Ink(PageRunes(pg))

ChunkInv == Whole(page, rest, forced, current, pageStart, chunks)

LEMMA InkOfNothing == <<>> \in Piece /\ Ink(<<>>) = {} /\ Tokens(<<>>) = 0
BY TokensOfNothing DEF Piece, Ink, Range

LEMMA PageTyped ==
  ASSUME Len(text) \in Nat, cut \in 0 .. Len(text), NEW n \in 1 .. 2
  PROVE  PageRunes(n) \in Piece
<1>1. CASE n = 1
  <2>1. PageRunes(n) = [i \in 1 .. cut |-> i]
    BY <1>1 DEF PageRunes
  <2>2. cut \in Nat /\ \A i \in 1 .. cut : i \in Nat
    OBVIOUS
  <2>3. QED BY <2>1, <2>2, IsASeq DEF Piece
<1>2. CASE n = 2
  <2>1. PICK l : l = Len(text) - cut
    OBVIOUS
  <2>2. PageRunes(n) = [i \in 1 .. l |-> cut + i]
    BY <1>2, <2>1 DEF PageRunes
  <2>3. l \in Nat /\ \A i \in 1 .. l : cut + i \in Nat
    BY <2>1
  <2>4. QED BY <2>2, <2>3, IsASeq DEF Piece
<1>3. QED BY <1>1, <1>2

LEMMA SentenceEndOf ==
  ASSUME rest \in Piece, rest # <<>>
  PROVE  SentenceEnd \in 1 .. Len(rest)
<1>1. Len(rest) \in Nat /\ Len(rest) > 0 /\ DOMAIN rest = 1 .. Len(rest)
  BY PieceFacts
<1> DEFINE ends == {Len(rest)} \cup {i \in DOMAIN rest : EndsSentence(rest[i])}
<1>2. ends \in SUBSET Nat /\ ends # {} /\ ends \subseteq 1 .. Len(rest)
  BY <1>1
<1>3. Min(ends) \in ends
  BY <1>2, MinOf
<1>4. QED BY <1>2, <1>3 DEF SentenceEnd

LEMMA SentenceTaken ==
  ASSUME rest \in Piece, rest # <<>>
  PROVE  LET sentence == First(rest, SentenceEnd)
             left == After(rest, SentenceEnd)
         IN /\ sentence \in Piece /\ left \in Piece
            /\ Ink(sentence) \cup Ink(left) = Ink(rest)
            /\ sentence # <<>> => ~IsSpace(sentence[1])
<1>1. PICK e : e = SentenceEnd
  OBVIOUS
<1>2. e \in 1 .. Len(rest) /\ Len(rest) \in Nat
  BY <1>1, SentenceEndOf, PieceFacts
<1>3. e \in 0 .. Len(rest) /\ \A i \in e + 1 .. e : IsSpace(rest[i])
  BY <1>2
<1>4. First(rest, e) \in Piece /\ Ink(First(rest, e)) \cup Ink(After(rest, e)) = Ink(rest)
  BY <1>3, InkSplits
<1>5. After(rest, e) \in Piece
  BY <1>3, AfterOf
<1>6. First(rest, e) # <<>> => ~IsSpace(First(rest, e)[1])
  <2>1. SubSeq(rest, 1, e) \in Piece
    BY <1>2, SubPiece
  <2>2. QED BY <2>1, TrimOf DEF First
<1>7. QED BY <1>1, <1>4, <1>5, <1>6

\* The chunks kept for a page that is not the last: the others keep theirs.
LEMMA StepKeeps ==
  ASSUME ChunkInv, page # 3,
         NEW rs \in Piece, NEW fo \in Piece, NEW cu \in Piece, NEW cs,
         fo # <<>> => ~IsSpace(fo[1]),
         Tokens(cu) <= Most,
         ChunksOK(cs, pageStart, page),
         \A m \in 1 .. 2 : m # page => Held(cs, m) = Held(chunks, m),
         Held(cs, page) \cup Ink(cu) \cup Ink(fo) \cup Ink(rs)
           = Held(chunks, page) \cup Ink(current) \cup Ink(forced) \cup Ink(rest)
  PROVE  Whole(page, rs, fo, cu, pageStart, cs)
<1>1. \A n \in 1 .. 2 : n < page => Held(cs, n) = Ink(PageRunes(n))
  BY DEF ChunkInv, Whole
<1>2. QED BY <1>1 DEF ChunkInv, Whole

LEMMA WindowKeeps ==
  ASSUME ChunkInv, Window
  PROVE  Whole(page', rest', forced', current', pageStart', chunks')
<1>1. PICK end : end = WindowEnd(forced)
  OBVIOUS
<1>2. PICK head : head = First(forced, end)
  OBVIOUS
<1>3. /\ forced \in Piece /\ forced # <<>> /\ ~IsSpace(forced[1]) /\ BoundedEnd(forced) # 0
      /\ page \in 1 .. 2 /\ page # 3 /\ rest \in Piece /\ current \in Piece
      /\ Tokens(current) <= Most /\ ChunksOK(chunks, pageStart, page)
  BY DEF ChunkInv, Whole, Window
<1>4. end \in 1 .. Len(forced) /\ Tokens(head) <= Most
  BY <1>1, <1>2, <1>3, WindowEndOf
<1>5. Len(forced) \in Nat /\ end \in Nat /\ end \in 0 .. Len(forced)
  BY <1>3, <1>4, PieceFacts
<1>6. PICK m : m = IF end >= Len(forced) THEN Len(forced) ELSE NextStart(forced, end) - 1
  OBVIOUS
<1>7. m \in 0 .. Len(forced) /\ \A i \in end + 1 .. m : IsSpace(forced[i])
  <2>1. CASE end >= Len(forced)
    BY <1>5, <1>6, <2>1
  <2>2. CASE ~(end >= Len(forced))
    <3>1. PICK n : n = NextStart(forced, end)
      OBVIOUS
    <3>2. n \in 2 .. Len(forced) + 1 /\ \A i \in end + 1 .. n - 1 : IsSpace(forced[i])
      BY <1>3, <1>4, <3>1, NextStartOf
    <3>3. m = n - 1
      BY <1>6, <2>2, <3>1
    <3>4. QED BY <1>5, <3>2, <3>3
  <2>3. QED BY <2>1, <2>2
<1>8. head \in Piece /\ Ink(head) \cup Ink(After(forced, m)) = Ink(forced)
  BY <1>2, <1>3, <1>5, <1>7, InkSplits
<1>9. forced' \in Piece /\ Ink(forced') = Ink(After(forced, m)) /\ (forced' # <<>> => ~IsSpace(forced'[1]))
  <2>1. CASE end >= Len(forced)
    <3>1. forced' = <<>> /\ m = Len(forced)
      BY <1>1, <1>6, <2>1 DEF Window
    <3>2. Ink(After(forced, m)) = {forced[i] : i \in {j \in m + 1 .. Len(forced) : ~IsSpace(forced[j])}}
      BY <1>3, <1>7, AfterOf
    <3>3. m + 1 .. Len(forced) = {}
      BY <1>5, <3>1
    <3>4. QED BY <3>1, <3>2, <3>3, InkOfNothing
  <2>2. CASE ~(end >= Len(forced))
    <3>1. PICK n : n = NextStart(forced, end)
      OBVIOUS
    <3>2. n \in 2 .. Len(forced) + 1 /\ (n <= Len(forced) => ~IsSpace(forced[n]))
      BY <1>3, <1>4, <3>1, NextStartOf
    <3>3. m = n - 1 /\ forced' = After(forced, m)
      BY <1>1, <1>6, <2>2, <3>1 DEF Window
    <3>4. PICK t : t = After(forced, m)
      OBVIOUS
    <3>5. t \in Piece /\ (t # <<>> => m + 1 \in 1 .. Len(forced) /\ t[1] = forced[m + 1])
      BY <1>3, <1>7, <3>4, AfterOf
    <3>6. m + 1 = n
      BY <3>2, <3>3
    <3>7. t # <<>> => ~IsSpace(t[1])
      BY <3>2, <3>5, <3>6
    <3>8. QED BY <3>3, <3>4, <3>5, <3>7
  <2>3. QED BY <2>1, <2>2
<1>10. /\ ChunksOK(chunks', pageStart, page)
       /\ Held(chunks', page) = Held(chunks, page) \cup Ink(head)
       /\ \A k \in 1 .. 2 : k # page => Held(chunks', k) = Held(chunks, k)
  <2>1. CASE head = <<>>
    <3>1. chunks' = chunks
      BY <1>1, <1>2, <2>1 DEF Window
    <3>2. Ink(head) = {}
      BY <2>1, InkOfNothing
    <3>3. QED BY <1>3, <3>1, <3>2
  <2>2. CASE head # <<>>
    <3>1. chunks' = Append(chunks, [page |-> page, at |-> head])
      BY <1>1, <1>2, <2>2 DEF Window
    <3>2. QED BY <1>3, <1>4, <1>8, <3>1, ChunkAppended
  <2>3. QED BY <2>1, <2>2
<1>11. /\ page' = page /\ rest' = rest /\ current' = current /\ pageStart' = pageStart
  BY DEF Window
<1>12. Held(chunks', page) \cup Ink(current) \cup Ink(forced') \cup Ink(rest)
         = Held(chunks, page) \cup Ink(current) \cup Ink(forced) \cup Ink(rest)
  BY <1>8, <1>9, <1>10
<1>13. PICK fo, cs : fo = forced' /\ cs = chunks'
  OBVIOUS
<1>14. Whole(page, rest, fo, current, pageStart, cs)
  BY <1>3, <1>9, <1>10, <1>12, <1>13, StepKeeps
<1>15. QED BY <1>11, <1>13, <1>14

LEMMA BlankSentenceKeeps ==
  ASSUME ChunkInv, BlankSentence
  PROVE  Whole(page', rest', forced', current', pageStart', chunks')
<1>1. /\ rest \in Piece /\ rest # <<>> /\ forced \in Piece /\ current \in Piece /\ page # 3
      /\ (forced # <<>> => ~IsSpace(forced[1])) /\ Tokens(current) <= Most
      /\ ChunksOK(chunks, pageStart, page)
  BY DEF ChunkInv, Whole, BlankSentence, TakeSentence
<1>2. PICK rs : rs = After(rest, SentenceEnd)
  OBVIOUS
<1>3. rs \in Piece /\ Ink(First(rest, SentenceEnd)) \cup Ink(rs) = Ink(rest)
  BY <1>1, <1>2, SentenceTaken
<1>4. First(rest, SentenceEnd) = <<>>
  BY DEF BlankSentence
<1>5. Ink(rs) = Ink(rest)
  BY <1>3, <1>4, InkOfNothing
<1>6. Whole(page, rs, forced, current, pageStart, chunks)
  BY <1>1, <1>3, <1>5, StepKeeps
<1>7. /\ page' = page /\ rest' = rs /\ forced' = forced /\ current' = current
      /\ pageStart' = pageStart /\ chunks' = chunks
  BY <1>2 DEF BlankSentence, TakeSentence
<1>8. QED BY <1>6, <1>7

LEMMA LongSentenceKeeps ==
  ASSUME ChunkInv, LongSentence
  PROVE  Whole(page', rest', forced', current', pageStart', chunks')
<1>1. /\ rest \in Piece /\ rest # <<>> /\ forced = <<>> /\ current \in Piece
      /\ page \in 1 .. 2 /\ page # 3
      /\ Tokens(current) <= Most /\ ChunksOK(chunks, pageStart, page)
  BY DEF ChunkInv, Whole, LongSentence, TakeSentence
<1>2. PICK rs, fo, cs : rs = After(rest, SentenceEnd) /\ fo = First(rest, SentenceEnd) /\ cs = Flushed
  OBVIOUS
<1>3. /\ rs \in Piece /\ fo \in Piece /\ Ink(fo) \cup Ink(rs) = Ink(rest)
      /\ (fo # <<>> => ~IsSpace(fo[1]))
  BY <1>1, <1>2, SentenceTaken
<1>4. /\ ChunksOK(cs, pageStart, page)
      /\ Held(cs, page) = Held(chunks, page) \cup Ink(current)
      /\ \A m \in 1 .. 2 : m # page => Held(cs, m) = Held(chunks, m)
  BY <1>1, <1>2, Flushes
<1>5. Ink(forced) = {} /\ Ink(<<>>) = {} /\ <<>> \in Piece /\ Tokens(<<>>) <= Most
  BY <1>1, InkOfNothing, ConfigAssumption DEF ConfigAssumption
<1>6. Held(cs, page) \cup Ink(<<>>) \cup Ink(fo) \cup Ink(rs)
        = Held(chunks, page) \cup Ink(current) \cup Ink(forced) \cup Ink(rest)
  BY <1>3, <1>4, <1>5
<1>7. Whole(page, rs, fo, <<>>, pageStart, cs)
  BY <1>1, <1>3, <1>4, <1>5, <1>6, StepKeeps
<1>8. /\ page' = page /\ rest' = rs /\ forced' = fo /\ current' = <<>>
      /\ pageStart' = pageStart /\ chunks' = cs
  BY <1>2 DEF LongSentence, TakeSentence
<1>9. QED BY <1>7, <1>8

LEMMA CollectKeeps ==
  ASSUME ChunkInv, Collect
  PROVE  Whole(page', rest', forced', current', pageStart', chunks')
<1>1. /\ rest \in Piece /\ rest # <<>> /\ forced \in Piece /\ current \in Piece
      /\ page \in 1 .. 2 /\ page # 3 /\ (forced # <<>> => ~IsSpace(forced[1]))
      /\ Tokens(current) <= Most /\ ChunksOK(chunks, pageStart, page)
  BY DEF ChunkInv, Whole, Collect, TakeSentence
<1>2. PICK rs, sentence : rs = After(rest, SentenceEnd) /\ sentence = First(rest, SentenceEnd)
  OBVIOUS
<1>3. rs \in Piece /\ sentence \in Piece /\ Ink(sentence) \cup Ink(rs) = Ink(rest)
  BY <1>1, <1>2, SentenceTaken
<1>4. Tokens(sentence) <= Most
  BY <1>2 DEF Collect
<1>5. PICK candidate : candidate = IF current = <<>> THEN sentence ELSE Join(current, sentence)
  OBVIOUS
<1>6. candidate \in Piece /\ Ink(candidate) = Ink(current) \cup Ink(sentence)
  <2>1. CASE current = <<>>
    BY <1>3, <1>5, <2>1, InkOfNothing
  <2>2. CASE current # <<>>
    BY <1>1, <1>3, <1>5, <2>2, InkOfJoin
  <2>3. QED BY <2>1, <2>2
<1>7. /\ page' = page /\ rest' = rs /\ forced' = forced /\ pageStart' = pageStart
  BY <1>2 DEF Collect, TakeSentence
<1>8. CASE current # <<>> /\ Tokens(candidate) > Target
  <2>1. PICK cs : cs = Flushed
    OBVIOUS
  <2>2. chunks' = cs /\ current' = sentence
    BY <1>2, <1>5, <1>8, <2>1 DEF Collect
  <2>3. /\ ChunksOK(cs, pageStart, page)
        /\ Held(cs, page) = Held(chunks, page) \cup Ink(current)
        /\ \A m \in 1 .. 2 : m # page => Held(cs, m) = Held(chunks, m)
    BY <1>1, <2>1, Flushes
  <2>4. Held(cs, page) \cup Ink(sentence) \cup Ink(forced) \cup Ink(rs)
          = Held(chunks, page) \cup Ink(current) \cup Ink(forced) \cup Ink(rest)
    BY <1>3, <2>3
  <2>5. Whole(page, rs, forced, sentence, pageStart, cs)
    BY <1>1, <1>3, <1>4, <2>3, <2>4, StepKeeps
  <2>6. QED BY <1>7, <2>2, <2>5
<1>9. CASE ~(current # <<>> /\ Tokens(candidate) > Target)
  <2>1. chunks' = chunks /\ current' = candidate
    BY <1>2, <1>5, <1>9 DEF Collect
  <2>2. Tokens(candidate) <= Most
    <3>1. CASE current = <<>>
      BY <1>4, <1>5, <3>1
    <3>2. CASE current # <<>>
      <4>1. ~(Tokens(candidate) > Target) /\ Tokens(candidate) \in Nat
        BY <1>6, <1>9, <3>2, TokensTyped
      <4>2. QED BY <4>1, ConfigAssumption DEF ConfigAssumption
    <3>3. QED BY <3>1, <3>2
  <2>3. Held(chunks, page) \cup Ink(candidate) \cup Ink(forced) \cup Ink(rs)
          = Held(chunks, page) \cup Ink(current) \cup Ink(forced) \cup Ink(rest)
    BY <1>3, <1>6
  <2>4. Whole(page, rs, forced, candidate, pageStart, chunks)
    BY <1>1, <1>3, <1>6, <2>2, <2>3, StepKeeps
  <2>5. QED BY <1>7, <2>1, <2>4
<1>10. QED BY <1>8, <1>9

LEMMA PageEndsKeeps ==
  ASSUME ChunkInv, PageEnds
  PROVE  Whole(page', rest', forced', current', pageStart', chunks')
<1>1. /\ page \in 1 .. 2 /\ page # 3 /\ rest = <<>> /\ forced = <<>> /\ current \in Piece
      /\ Tokens(current) <= Most /\ ChunksOK(chunks, pageStart, page)
      /\ Len(text) \in Nat /\ cut \in 0 .. Len(text)
  BY DEF ChunkInv, Whole, PageEnds
<1>2. PICK all, cs : all = Flushed /\ cs = MergedTail(Flushed)
  OBVIOUS
<1>3. /\ ChunksOK(all, pageStart, page)
      /\ Held(all, page) = Held(chunks, page) \cup Ink(current)
      /\ \A m \in 1 .. 2 : m # page => Held(all, m) = Held(chunks, m)
  BY <1>1, <1>2, Flushes
<1>4. ChunksOK(cs, pageStart, page) /\ \A m \in 1 .. 2 : Held(cs, m) = Held(all, m)
  BY <1>1, <1>2, <1>3, Merges
<1>5. PICK rs : rs = IF page = 1 THEN Trim(PageRunes(2)) ELSE <<>>
  OBVIOUS
<1>6. /\ page' = page + 1 /\ rest' = rs /\ forced' = <<>> /\ current' = <<>>
      /\ chunks' = cs /\ pageStart' = Len(cs)
  BY <1>1, <1>2, <1>5 DEF PageEnds
<1>7. page + 1 \in 1 .. 3 /\ (page + 1 = 3 <=> page = 2) /\ (page + 1 = 2 <=> page = 1)
  BY <1>1
<1>8. ChunksOK(cs, Len(cs), page + 1)
  <2>1. /\ cs \in Seq(ChunkRow) /\ Len(cs) \in Nat /\ DOMAIN cs = 1 .. Len(cs)
    BY <1>4, ChunkFacts DEF ChunksOK
  <2>2. ASSUME NEW k \in DOMAIN cs
        PROVE  Tokens(cs[k].at) <= Most /\ k <= Len(cs) /\ cs[k].page < page + 1
    <3>1. cs[k].page \in 1 .. 2 /\ k <= Len(cs)
      BY <2>1, <2>2, ChunkFacts
    <3>2. Tokens(cs[k].at) <= Most /\ (cs[k].page < page \/ cs[k].page = page)
      BY <1>4, <2>2 DEF ChunksOK
    <3>3. QED BY <1>1, <3>1, <3>2
  <2>3. Len(cs) \in 0 .. Len(cs)
    BY <2>1
  <2>4. QED BY <2>1, <2>2, <2>3 DEF ChunksOK
<1>9. Held(chunks, page) \cup Ink(current) = Ink(PageRunes(page))
  <2>1. Held(chunks, page) \cup Ink(current) \cup Ink(forced) \cup Ink(rest) = Ink(PageRunes(page))
    BY <1>1 DEF ChunkInv, Whole
  <2>2. QED BY <1>1, <2>1, InkOfNothing
<1>10. ASSUME NEW n \in 1 .. 2, n < page + 1 PROVE Held(cs, n) = Ink(PageRunes(n))
  <2>1. CASE n = page
    BY <1>3, <1>4, <1>9, <2>1
  <2>2. CASE n # page
    <3>1. n < page
      BY <1>1, <1>10, <2>2
    <3>2. Held(chunks, n) = Ink(PageRunes(n))
      BY <3>1 DEF ChunkInv, Whole
    <3>3. QED BY <1>3, <1>4, <2>2, <3>2
  <2>3. QED BY <2>1, <2>2
<1>11. /\ rs \in Piece /\ (page + 1 = 3 => rs = <<>>)
       /\ page + 1 # 3 => Held(cs, page + 1) \cup Ink(<<>>) \cup Ink(<<>>) \cup Ink(rs) = Ink(PageRunes(page + 1))
  <2>1. CASE page = 1
    <3>1. PageRunes(2) \in Piece
      BY <1>1, PageTyped
    <3>2. rs \in Piece /\ Ink(rs) = Ink(PageRunes(2))
      BY <1>5, <2>1, <3>1, TrimOf
    <3>3. \A k \in DOMAIN cs : cs[k].page # 2
      <4>1. ASSUME NEW k \in DOMAIN cs PROVE cs[k].page # 2
        <5>1. cs[k].page < 1 \/ cs[k].page = 1
          BY <1>4, <2>1, <4>1 DEF ChunksOK
        <5>2. QED BY <5>1
      <4>2. QED BY <4>1
    <3>4. Held(cs, 2) = {}
      BY <3>3 DEF Held
    <3>5. page + 1 = 2
      BY <2>1
    <3>6. QED BY <3>2, <3>4, <3>5, InkOfNothing
  <2>2. CASE page # 1
    BY <1>5, <1>7, <1>1, <2>2, InkOfNothing
  <2>3. QED BY <2>1, <2>2
<1>12. Tokens(<<>>) <= Most /\ <<>> \in Piece
  BY InkOfNothing, ConfigAssumption DEF ConfigAssumption
<1>13. PICK pg : pg = page + 1
  OBVIOUS
<1>14. Whole(pg, rs, <<>>, <<>>, Len(cs), cs)
  <2>1. pg \in 1 .. 3 /\ (pg = 3 => rs = <<>>)
    BY <1>7, <1>11, <1>13
  <2>2. ChunksOK(cs, Len(cs), pg)
    BY <1>8, <1>13
  <2>3. \A n \in 1 .. 2 : n < pg => Held(cs, n) = Ink(PageRunes(n))
    BY <1>10, <1>13
  <2>4. pg # 3 => Held(cs, pg) \cup Ink(<<>>) \cup Ink(<<>>) \cup Ink(rs) = Ink(PageRunes(pg))
    BY <1>11, <1>13
  <2>5. QED BY <1>1, <1>11, <1>12, <2>1, <2>2, <2>3, <2>4 DEF Whole
<1>15. QED BY <1>6, <1>13, <1>14

\* What the operators say of a piece depends on the text alone.
LEMMA GivenKept ==
  ASSUME given' = given,
         NEW pg, NEW rs, NEW fo, NEW cu, NEW first, NEW cs, Whole(pg, rs, fo, cu, first, cs)
  PROVE  Whole(pg, rs, fo, cu, first, cs)'
<1>1. text' = text /\ cut' = cut /\ tokenRunes' = tokenRunes
  BY DEF given
<1>2. \A p : IsSpace(p)' <=> IsSpace(p)
  BY <1>1 DEF IsSpace
<1>3. \A s : Ink(s)' = Ink(s)
  BY <1>2 DEF Ink
<1>4. \A s, i : WordStart(s, i)' = WordStart(s, i)
  BY <1>2 DEF WordStart
<1>5. \A s : Tokens(s)' = Tokens(s)
  BY <1>1, <1>2, <1>4 DEF Tokens, BeginsToken
<1>6. \A n : PageRunes(n)' = PageRunes(n)
  BY <1>1 DEF PageRunes
<1>7. \A n : Ink(PageRunes(n))' = Ink(PageRunes(n))
  BY <1>3, <1>6
<1>8. \A n : Held(cs, n)' = Held(cs, n)
  BY <1>3 DEF Held
<1>9. ChunksOK(cs, first, pg)' <=> ChunksOK(cs, first, pg)
  BY <1>5 DEF ChunksOK
<1>10. QED BY <1>1, <1>2, <1>3, <1>5, <1>7, <1>8, <1>9 DEF Whole

LEMMA ChunkInvInit == ChunkInit => ChunkInv
<1>1. SUFFICES ASSUME ChunkInit PROVE ChunkInv
  OBVIOUS
<1>2. Len(text) \in Nat /\ cut \in 0 .. Len(text)
  <2>1. text \in Seq({"letter", "space", "stop", "line"})
    BY <1>1, ConfigAssumption DEF ChunkInit, ConfigAssumption
  <2>2. QED BY <1>1, <2>1, LenProperties DEF ChunkInit
<1>3. PageRunes(1) \in Piece
  BY <1>2, PageTyped
<1>4. rest \in Piece /\ Ink(rest) = Ink(PageRunes(1))
  BY <1>1, <1>3, TrimOf DEF ChunkInit
<1>5. page = 1 /\ forced = <<>> /\ current = <<>> /\ chunks = <<>> /\ pageStart = 0
  BY <1>1 DEF ChunkInit
<1>6. <<>> \in Piece /\ Ink(<<>>) = {} /\ Tokens(<<>>) <= Most
  BY InkOfNothing, ConfigAssumption DEF ConfigAssumption
<1>7. ChunksOK(<<>>, 0, 1)
  <2>1. <<>> \in Seq(ChunkRow) /\ Len(<<>>) = 0 /\ DOMAIN <<>> = {}
    BY EmptySeq
  <2>2. QED BY <2>1 DEF ChunksOK
<1>8. Held(<<>>, 1) = {}
  BY DEF Held
<1>9. QED BY <1>2, <1>4, <1>5, <1>6, <1>7, <1>8 DEF ChunkInv, Whole

LEMMA ChunkInvNext == ChunkInv /\ [ChunkNext]_chunkVars => ChunkInv'
<1>1. SUFFICES ASSUME ChunkInv, [ChunkNext]_chunkVars PROVE ChunkInv'
  OBVIOUS
<1>2. given' = given
  BY <1>1 DEF ChunkNext, Window, BlankSentence, LongSentence, Collect, TakeSentence, PageEnds,
              chunkVars
<1>3. Whole(page', rest', forced', current', pageStart', chunks')
  <2>1. CASE Window
    BY <1>1, <2>1, WindowKeeps
  <2>2. CASE BlankSentence
    BY <1>1, <2>2, BlankSentenceKeeps
  <2>3. CASE LongSentence
    BY <1>1, <2>3, LongSentenceKeeps
  <2>4. CASE Collect
    BY <1>1, <2>4, CollectKeeps
  <2>5. CASE PageEnds
    BY <1>1, <2>5, PageEndsKeeps
  <2>6. CASE UNCHANGED chunkVars
    BY <1>1, <2>6 DEF chunkVars, ChunkInv
  <2>7. QED BY <1>1, <2>1, <2>2, <2>3, <2>4, <2>5, <2>6 DEF ChunkNext
<1>4. PICK pg, rs, fo, cu, first, cs :
        /\ pg = page' /\ rs = rest' /\ fo = forced' /\ cu = current'
        /\ first = pageStart' /\ cs = chunks'
  OBVIOUS
<1>5. Whole(pg, rs, fo, cu, first, cs)
  BY <1>3, <1>4
<1>6. Whole(pg, rs, fo, cu, first, cs)'
  BY <1>2, <1>5, GivenKept
<1>7. QED BY <1>4, <1>6 DEF ChunkInv

LEMMA ChunkInvTextIsKept == ChunkInv => TextIsKept
<1>1. SUFFICES ASSUME ChunkInv PROVE TextIsKept
  OBVIOUS
<1>2. ASSUME NEW n \in 1 .. page - 1
      PROVE  UNION {InkOf(k) : k \in {j \in DOMAIN chunks : chunks[j].page = n}} = Ink(PageRunes(n))
  <2>1. page \in 1 .. 3
    BY <1>1 DEF ChunkInv, Whole
  <2>2. n \in 1 .. 2 /\ n < page
    BY <2>1
  <2>3. Held(chunks, n) = Ink(PageRunes(n))
    BY <1>1, <2>2 DEF ChunkInv, Whole
  <2>4. QED BY <2>3 DEF Held, InkOf
<1>3. ChunksFit
  BY <1>1 DEF ChunkInv, Whole, ChunksOK, ChunksFit
<1>4. QED BY <1>2, <1>3 DEF TextIsKept, NothingIsLost

\* TextIsKept: chunkPages, forcedTokenSplit and mergeTokenTail lose no rune of
\* a page, move none to another page, and give no chunk more tokens than the
\* embedding model takes, whatever the text, the configuration and the counter.
THEOREM TextKept == ChunkSpec => []TextIsKept
<1>1. ChunkInv /\ [ChunkNext]_chunkVars => ChunkInv'
  BY ChunkInvNext
<1>2. QED BY ChunkInvInit, <1>1, ChunkInvTextIsKept, PTL DEF ChunkSpec

\* The page ends, or less is left of it, or less of the sentence under way.
Advances ==
  \/ page' = page + 1
  \/ page' = page /\ Len(rest') < Len(rest)
  \/ page' = page /\ rest' = rest /\ Len(forced') < Len(forced)

LEMMA StepAdvances == ChunkInv /\ ChunkNext => Advances
<1>1. SUFFICES ASSUME ChunkInv, ChunkNext PROVE Advances
  OBVIOUS
<1>2. rest \in Piece /\ forced \in Piece /\ (forced # <<>> => ~IsSpace(forced[1]))
  BY <1>1 DEF ChunkInv, Whole
<1>3. ASSUME TakeSentence PROVE Len(rest') < Len(rest)
  <2>1. PICK e : e = SentenceEnd
    OBVIOUS
  <2>2. rest # <<>> /\ rest' = After(rest, e)
    BY <1>3, <2>1 DEF TakeSentence
  <2>3. e \in 1 .. Len(rest) /\ Len(rest) \in Nat
    BY <1>2, <2>1, <2>2, SentenceEndOf, PieceFacts
  <2>4. Len(After(rest, e)) = Len(rest) - e
    BY <1>2, <2>3, AfterOf
  <2>5. QED BY <2>2, <2>3, <2>4
<1>4. CASE Window
  <2>1. PICK end : end = WindowEnd(forced)
    OBVIOUS
  <2>2. forced # <<>> /\ BoundedEnd(forced) # 0 /\ page' = page /\ rest' = rest
    BY <1>4 DEF Window
  <2>3. end \in 1 .. Len(forced) /\ Len(forced) \in Nat /\ Len(forced) > 0
    BY <1>2, <2>1, <2>2, WindowEndOf, PieceFacts
  <2>4. CASE end >= Len(forced)
    <3>1. forced' = <<>>
      BY <1>4, <2>1, <2>4 DEF Window
    <3>2. QED BY <2>2, <2>3, <3>1 DEF Advances
  <2>5. CASE ~(end >= Len(forced))
    <3>1. PICK n : n = NextStart(forced, end)
      OBVIOUS
    <3>2. n \in 2 .. Len(forced) + 1
      BY <1>2, <2>3, <3>1, NextStartOf
    <3>3. forced' = After(forced, n - 1)
      BY <1>4, <2>1, <2>5, <3>1 DEF Window
    <3>4. n - 1 \in 0 .. Len(forced)
      BY <2>3, <3>2
    <3>5. Len(After(forced, n - 1)) = Len(forced) - (n - 1)
      BY <1>2, <3>4, AfterOf
    <3>6. QED BY <2>2, <2>3, <3>2, <3>3, <3>5 DEF Advances
  <2>6. QED BY <2>4, <2>5
<1>5. CASE BlankSentence \/ LongSentence \/ Collect
  <2>1. TakeSentence
    BY <1>5 DEF BlankSentence, LongSentence, Collect
  <2>2. page' = page
    BY <2>1 DEF TakeSentence
  <2>3. QED BY <1>3, <2>1, <2>2 DEF Advances
<1>6. CASE PageEnds
  BY <1>6 DEF PageEnds, Advances
<1>7. QED BY <1>1, <1>4, <1>5, <1>6 DEF ChunkNext

\* The loops of chunkPages and forcedTokenSplit end with every text: each turn
\* takes something off the page or off the sentence it cuts, and turns no page
\* back.
THEOREM ChunkingAdvances == ChunkSpec => [][Advances]_chunkVars
<1>1. ChunkInv /\ [ChunkNext]_chunkVars => ChunkInv'
  BY ChunkInvNext
<1>2. ChunkInv /\ [ChunkNext]_chunkVars => [Advances]_chunkVars
  BY StepAdvances
<1>3. QED BY ChunkInvInit, <1>1, <1>2, PTL DEF ChunkSpec

-----------------------------------------------------------------------------
(* Words.  What is cut out of a page is a span of positions.  With more    *)
(* runes to a token than the text has, the tokens of a span are its words. *)

Span(a, b) == [i \in 1 .. b - a + 1 |-> a + i - 1]

\* The words that begin in a span, by the position of their first rune.
WordsIn(a, b) == {p \in a .. b : ~IsSpace(p) /\ (p = a \/ IsSpace(p - 1))}

LEMMA SameLength ==
  ASSUME NEW m \in Nat, NEW n \in Nat, 1 .. m = 1 .. n
  PROVE  m = n
<1>1. CASE m < n
  <2>1. n \in 1 .. n /\ n \notin 1 .. m
    BY <1>1
  <2>2. QED BY <2>1
<1>2. CASE n < m
  <2>1. m \in 1 .. m /\ m \notin 1 .. n
    BY <1>2
  <2>2. QED BY <2>1
<1>3. QED BY <1>1, <1>2

LEMMA SpanFacts ==
  ASSUME NEW a \in Nat, a > 0, NEW b \in Nat, a <= b + 1
  PROVE  /\ Span(a, b) \in Piece /\ Len(Span(a, b)) = b - a + 1
         /\ DOMAIN Span(a, b) = 1 .. b - a + 1
         /\ \A i \in 1 .. b - a + 1 : Span(a, b)[i] = a + i - 1
         /\ Range(Span(a, b)) = a .. b
<1>1. PICK n : n = b - a + 1
  OBVIOUS
<1>2. n \in Nat /\ \A i \in 1 .. n : a + i - 1 \in Nat
  BY <1>1
<1>3. PICK s : s = Span(a, b)
  OBVIOUS
<1>4. s = [i \in 1 .. n |-> a + i - 1]
  BY <1>1, <1>3 DEF Span
<1>5. s \in Seq(Nat)
  BY <1>2, <1>4, IsASeq
<1>6. DOMAIN s = 1 .. n /\ \A i \in 1 .. n : s[i] = a + i - 1
  BY <1>4
<1>7. Len(s) = n
  <2>1. Len(s) \in Nat /\ DOMAIN s = 1 .. Len(s)
    BY <1>5, LenProperties
  <2>2. 1 .. Len(s) = 1 .. n
    BY <1>6, <2>1
  <2>3. QED BY <1>2, <2>1, <2>2, SameLength
<1>8. Range(s) = a .. b
  <2>1. ASSUME NEW p \in a .. b PROVE p \in Range(s)
    <3>1. PICK i : i = p - a + 1
      OBVIOUS
    <3>2. i \in 1 .. n /\ a + i - 1 = p
      BY <1>1, <3>1
    <3>3. QED BY <1>6, <3>2 DEF Range
  <2>2. ASSUME NEW i \in 1 .. n PROVE s[i] \in a .. b
    BY <1>1, <1>6
  <2>3. QED BY <1>6, <2>1, <2>2 DEF Range
<1>9. QED BY <1>1, <1>3, <1>5, <1>6, <1>7, <1>8 DEF Piece

LEMMA SpanSub ==
  ASSUME NEW a \in Nat, a > 0, NEW b \in Nat, a <= b + 1,
         NEW m \in Nat, m > 0, NEW e \in Nat, m <= e + 1, e <= b - a + 1
  PROVE  SubSeq(Span(a, b), m, e) = Span(a + m - 1, a + e - 1)
<1>1. PICK s, t, u : s = Span(a, b) /\ t = SubSeq(s, m, e) /\ u = Span(a + m - 1, a + e - 1)
  OBVIOUS
<1>2. s \in Piece /\ Len(s) = b - a + 1 /\ \A i \in 1 .. b - a + 1 : s[i] = a + i - 1
  BY <1>1, SpanFacts
<1>3. /\ t \in Piece
      /\ m <= e => Len(t) = e - m + 1
      /\ m > e => t = <<>>
      /\ \A i \in 1 .. e - m + 1 : t[i] = s[m + i - 1]
  BY <1>1, <1>2, SubPiece
<1>4. /\ a + m - 1 \in Nat /\ a + m - 1 > 0 /\ a + e - 1 \in Nat /\ a + m - 1 <= a + e - 1 + 1
      /\ (a + e - 1) - (a + m - 1) + 1 = e - m + 1
  OBVIOUS
<1>5. u \in Piece /\ Len(u) = e - m + 1 /\ \A i \in 1 .. e - m + 1 : u[i] = a + m - 1 + i - 1
  <2>1. PICK x, y : x = a + m - 1 /\ y = a + e - 1
    OBVIOUS
  <2>2. x \in Nat /\ x > 0 /\ y \in Nat /\ x <= y + 1 /\ u = Span(x, y)
    BY <1>1, <1>4, <2>1
  <2>3. u \in Piece /\ Len(u) = y - x + 1 /\ \A i \in 1 .. y - x + 1 : u[i] = x + i - 1
    BY <2>2, SpanFacts
  <2>4. QED BY <1>4, <2>1, <2>3
<1>6. Len(t) = e - m + 1
  BY <1>3, PieceFacts
<1>7. ASSUME NEW i \in 1 .. e - m + 1 PROVE t[i] = u[i]
  <2>1. m + i - 1 \in 1 .. b - a + 1 /\ a + (m + i - 1) - 1 = a + m - 1 + i - 1
    OBVIOUS
  <2>2. QED BY <1>2, <1>3, <1>5, <2>1
<1>8. t = u
  BY <1>3, <1>5, <1>6, <1>7, SeqEqual DEF Piece
<1>9. QED BY <1>1, <1>8

LEMMA SpanPrefix ==
  ASSUME NEW a \in Nat, a > 0, NEW b \in Nat, a <= b + 1, NEW e \in Nat, e <= b - a + 1
  PROVE  SubSeq(Span(a, b), 1, e) = Span(a, a + e - 1)
<1>1. PICK m : m = 1
  OBVIOUS
<1>2. m \in Nat /\ m > 0 /\ m <= e + 1 /\ a + m - 1 = a
  BY <1>1
<1>3. SubSeq(Span(a, b), m, e) = Span(a + m - 1, a + e - 1)
  BY <1>2, SpanSub, ZenonT(40)
<1>4. QED BY <1>1, <1>2, <1>3

LEMMA SpanSuffix ==
  ASSUME NEW a \in Nat, a > 0, NEW b \in Nat, a <= b + 1,
         NEW m \in Nat, m > 0, m <= b - a + 1 + 1
  PROVE  SubSeq(Span(a, b), m, b - a + 1) = Span(a + m - 1, b)
<1>1. PICK l : l = b - a + 1
  OBVIOUS
<1>2. l \in Nat /\ m <= l + 1 /\ l <= b - a + 1
  BY <1>1
<1>3. SubSeq(Span(a, b), m, l) = Span(a + m - 1, a + l - 1)
  BY <1>2, SpanSub, ZenonT(40)
<1>4. a + l - 1 = b
  BY <1>1
<1>5. QED BY <1>1, <1>3, <1>4

LEMMA SpanInk ==
  ASSUME NEW a \in Nat, a > 0, NEW b \in Nat, a <= b + 1
  PROVE  Ink(Span(a, b)) = {p \in a .. b : ~IsSpace(p)}
BY SpanFacts DEF Ink

LEMMA SpanTrim ==
  ASSUME NEW a \in Nat, a > 0, NEW b \in Nat, a <= b + 1
  PROVE  \/ Trim(Span(a, b)) = <<>> /\ \A p \in a .. b : IsSpace(p)
         \/ \E lo, hi \in a .. b :
              /\ lo <= hi /\ Trim(Span(a, b)) = Span(lo, hi)
              /\ ~IsSpace(lo) /\ ~IsSpace(hi)
              /\ \A p \in a .. b : p < lo \/ p > hi => IsSpace(p)
<1>1. PICK s : s = Span(a, b)
  OBVIOUS
<1>2. PICK n : n = b - a + 1
  OBVIOUS
<1>3. n \in Nat /\ DOMAIN s = 1 .. n /\ \A i \in 1 .. n : s[i] = a + i - 1
  <2>1. DOMAIN s = 1 .. b - a + 1 /\ \A k \in 1 .. b - a + 1 : s[k] = a + k - 1
    BY <1>1, SpanFacts
  <2>2. QED BY <1>2, <2>1
<1> DEFINE ink == {i \in DOMAIN s : ~IsSpace(s[i])}
<1>4. \A p \in a .. b : p - a + 1 \in 1 .. n /\ s[p - a + 1] = p
  <2>1. ASSUME NEW p \in a .. b PROVE p - a + 1 \in 1 .. n /\ s[p - a + 1] = p
    <3>1. PICK i : i = p - a + 1
      OBVIOUS
    <3>2. i \in 1 .. n /\ a + i - 1 = p
      BY <1>2, <3>1
    <3>3. QED BY <1>3, <3>1, <3>2
  <2>2. QED BY <2>1
<1>5. CASE ink = {}
  <2>1. Trim(s) = <<>>
    BY <1>5 DEF Trim
  <2>2. \A p \in a .. b : IsSpace(p)
    <3>1. ASSUME NEW p \in a .. b PROVE IsSpace(p)
      <4>1. p - a + 1 \in DOMAIN s /\ s[p - a + 1] = p
        BY <1>3, <1>4
      <4>2. QED BY <1>5, <4>1
    <3>2. QED BY <3>1
  <2>3. QED BY <1>1, <2>1, <2>2
<1>6. CASE ink # {}
  <2>1. PICK f, l : f = Min(ink) /\ l = Max(ink)
    OBVIOUS
  <2>2. Trim(s) = SubSeq(s, f, l)
    BY <1>6, <2>1 DEF Trim
  <2>3. f \in ink /\ l \in ink /\ \A i \in ink : f <= i /\ i <= l
    <3>1. ink \in SUBSET (0 .. n) /\ ink \in SUBSET Nat
      BY <1>3
    <3>2. QED BY <1>3, <1>6, <2>1, <3>1, MinOf, MaxOf
  <2>4. f \in 1 .. n /\ l \in 1 .. n /\ f <= l /\ ~IsSpace(s[f]) /\ ~IsSpace(s[l])
    BY <1>3, <2>3
  <2>5. PICK lo, hi : lo = a + f - 1 /\ hi = a + l - 1
    OBVIOUS
  <2>6. lo \in a .. b /\ hi \in a .. b /\ lo <= hi
    BY <1>2, <2>4, <2>5
  <2>7. ~IsSpace(lo) /\ ~IsSpace(hi)
    BY <1>3, <2>4, <2>5
  <2>8. SubSeq(s, f, l) = Span(lo, hi)
    <3>1. f \in Nat /\ f > 0 /\ l \in Nat /\ f <= l + 1 /\ l <= b - a + 1
      BY <1>2, <2>4
    <3>2. SubSeq(Span(a, b), f, l) = Span(a + f - 1, a + l - 1)
      BY <3>1, SpanSub, ZenonT(40)
    <3>3. QED BY <1>1, <2>5, <3>2
  <2>9. ASSUME NEW p \in a .. b, p < lo \/ p > hi PROVE IsSpace(p)
    <3>1. PICK i : i = p - a + 1
      OBVIOUS
    <3>2. i \in 1 .. n /\ s[i] = p
      BY <1>4, <3>1
    <3>3. i < f \/ i > l
      BY <2>4, <2>5, <2>9, <3>1
    <3>4. i \notin ink
      BY <2>3, <2>4, <3>2, <3>3
    <3>5. QED BY <1>3, <3>2, <3>4
  <2>10. QED BY <1>1, <2>2, <2>6, <2>7, <2>8, <2>9
<1>7. QED BY <1>5, <1>6

\* With more runes to a token than the text has, each word is one token.
WordCounter == tokenRunes \in Nat /\ Len(text) \in Nat /\ tokenRunes > Len(text)

LEMMA SmallRemainder ==
  ASSUME NEW n \in Nat, NEW d \in 0 .. n - 1
  PROVE  d % n = 0 <=> d = 0
OBVIOUS

LEMMA WordBegins ==
  ASSUME WordCounter, NEW a \in Nat, a > 0, NEW b \in Nat, a <= b + 1, b <= Len(text),
         NEW i \in 1 .. b - a + 1
  PROVE  BeginsToken(Span(a, b), i) <=> a + i - 1 \in WordsIn(a, b)
<1>1. PICK s : s = Span(a, b)
  OBVIOUS
<1>2. PICK n : n = b - a + 1
  OBVIOUS
<1>3. n \in Nat /\ \A k \in 1 .. n : s[k] = a + k - 1
  <2>1. DOMAIN s = 1 .. b - a + 1 /\ \A k \in 1 .. b - a + 1 : s[k] = a + k - 1
    BY <1>1, SpanFacts
  <2>2. QED BY <1>2, <2>1
<1>4. PICK p : p = a + i - 1
  OBVIOUS
<1>5. p \in a .. b /\ s[i] = p /\ i \in 1 .. n
  BY <1>2, <1>3, <1>4
<1>6. p \in WordsIn(a, b) <=> ~IsSpace(s[i]) /\ (i = 1 \/ IsSpace(s[i - 1]))
  <2>1. p = a <=> i = 1
    BY <1>4
  <2>2. i # 1 => s[i - 1] = p - 1
    <3>1. i # 1 => i - 1 \in 1 .. n /\ a + (i - 1) - 1 = p - 1
      BY <1>2, <1>4
    <3>2. QED BY <1>3, <3>1
  <2>3. QED BY <1>5, <2>1, <2>2 DEF WordsIn
<1>7. CASE IsSpace(s[i])
  BY <1>1, <1>4, <1>6, <1>7 DEF BeginsToken
<1>8. CASE ~IsSpace(s[i])
  <2> DEFINE run == {j \in 1 .. i : \A k \in j .. i : ~IsSpace(s[k])}
             starts == {j \in 1 .. i : /\ \A k \in j .. i : ~IsSpace(s[k])
                                       /\ j = 1 \/ IsSpace(s[j - 1])}
  <2>1. WordStart(s, i) = Max(starts)
    BY DEF WordStart
  <2>2. i \in run /\ run \in SUBSET Nat
    BY <1>5, <1>8
  <2>3. PICK j : j = Min(run)
    OBVIOUS
  <2>4. j \in run /\ \A k \in run : j <= k
    BY <2>2, <2>3, MinOf
  <2>5. j \in starts
    <3>1. ASSUME j # 1, ~IsSpace(s[j - 1]) PROVE FALSE
      <4>1. j \in Nat /\ i \in Nat /\ j - 1 \in 1 .. i
        BY <1>5, <2>4, <3>1
      <4>2. ASSUME NEW k \in j - 1 .. i PROVE ~IsSpace(s[k])
        <5>1. k = j - 1 \/ k \in j .. i
          BY <4>1, <4>2
        <5>2. QED BY <2>4, <3>1, <5>1
      <4>3. j - 1 \in run
        BY <4>1, <4>2
      <4>4. QED BY <2>4, <4>1, <4>3
    <3>2. QED BY <2>4, <3>1
  <2>6. PICK w : w = Max(starts)
    OBVIOUS
  <2>7. w \in starts /\ \A k \in starts : w >= k
    <3>1. starts \in SUBSET (0 .. i) /\ i \in Nat
      BY <1>5
    <3>2. QED BY <2>5, <2>6, <3>1, MaxOf
  <2>8. w \in 1 .. i
    BY <2>7
  <2>9. i \in starts <=> i = 1 \/ IsSpace(s[i - 1])
    BY <1>5, <2>2
  <2>10. w = i <=> i = 1 \/ IsSpace(s[i - 1])
    <3>1. w = i => i \in starts
      BY <2>7
    <3>2. i \in starts => w = i
      BY <1>5, <2>7, <2>8
    <3>3. QED BY <2>9, <3>1, <3>2
  <2> HIDE DEF starts, run
  <2>11. (i - w) % tokenRunes = 0 <=> w = i
    <3>1. PICK d : d = i - w
      OBVIOUS
    <3>2. d \in 0 .. tokenRunes - 1 /\ tokenRunes \in Nat
      <4>1. i \in Nat /\ w \in Nat /\ w > 0 /\ w <= i /\ i <= b - a + 1
        BY <1>5, <2>8
      <4>2. tokenRunes \in Nat /\ b < tokenRunes
        BY DEF WordCounter
      <4>3. QED BY <3>1, <4>1, <4>2
    <3>3. d % tokenRunes = 0 <=> d = 0
      BY <3>2, SmallRemainder
    <3>4. d = 0 <=> w = i
      BY <1>5, <2>8, <3>1
    <3>5. QED BY <3>1, <3>3, <3>4
  <2>12. BeginsToken(s, i) <=> w = i
    BY <1>8, <2>1, <2>6, <2>11 DEF BeginsToken
  <2>13. QED BY <1>1, <1>4, <1>6, <1>8, <2>10, <2>12
<1>9. QED BY <1>7, <1>8

LEMMA WordsFinite ==
  ASSUME NEW a \in Nat, NEW b \in Nat
  PROVE  IsFiniteSet(WordsIn(a, b)) /\ Cardinality(WordsIn(a, b)) \in Nat
<1>1. IsFiniteSet(a .. b)
  BY FS_Interval
<1>2. IsFiniteSet(WordsIn(a, b))
  BY <1>1, FS_Subset DEF WordsIn
<1>3. QED BY <1>2, FS_CardinalityType

LEMMA SpanTokens ==
  ASSUME WordCounter, NEW a \in Nat, a > 0, NEW b \in Nat, a <= b + 1, b <= Len(text)
  PROVE  Tokens(Span(a, b)) = Cardinality(WordsIn(a, b))
<1>1. PICK s : s = Span(a, b)
  OBVIOUS
<1>2. PICK n : n = b - a + 1
  OBVIOUS
<1>3. n \in Nat /\ DOMAIN s = 1 .. n
  <2>1. DOMAIN s = 1 .. b - a + 1 /\ \A k \in 1 .. b - a + 1 : s[k] = a + k - 1
    BY <1>1, SpanFacts
  <2>2. QED BY <1>2, <2>1
<1> DEFINE begins == {i \in DOMAIN s : BeginsToken(s, i)}
           f == [p \in WordsIn(a, b) |-> p - a + 1]
<1>4. ASSUME NEW p \in WordsIn(a, b) PROVE f[p] \in begins
  <2>1. PICK i : i = p - a + 1
    OBVIOUS
  <2>2. p \in a .. b
    BY DEF WordsIn
  <2>3. i \in 1 .. b - a + 1 /\ a + i - 1 = p
    BY <2>1, <2>2
  <2>4. BeginsToken(s, i)
    BY <1>1, <2>3, WordBegins
  <2>5. QED BY <1>2, <1>3, <2>1, <2>3, <2>4
<1>5. ASSUME NEW i \in begins PROVE \E p \in WordsIn(a, b) : f[p] = i
  <2>1. i \in 1 .. b - a + 1 /\ BeginsToken(s, i)
    BY <1>2, <1>3
  <2>2. a + i - 1 \in WordsIn(a, b)
    BY <1>1, <2>1, WordBegins
  <2>3. f[a + i - 1] = i
    BY <2>1, <2>2
  <2>4. QED BY <2>2, <2>3
<1>6. ASSUME NEW p \in WordsIn(a, b), NEW q \in WordsIn(a, b), f[p] = f[q] PROVE p = q
  <2>1. p \in Int /\ q \in Int
    BY DEF WordsIn
  <2>2. QED BY <1>6, <2>1
<1>7. f \in Bijection(WordsIn(a, b), begins)
  <2>1. f \in [WordsIn(a, b) -> begins]
    BY <1>4
  <2>2. QED BY <1>5, <1>6, <2>1 DEF Bijection, Injection, Surjection, IsInjective
<1>8. Cardinality(begins) = Cardinality(WordsIn(a, b))
  BY <1>7, WordsFinite, FS_Bijection DEF ExistsBijection
<1>9. QED BY <1>1, <1>8 DEF Tokens

Count(a, b) == Cardinality(WordsIn(a, b))

LEMMA WordsGrow ==
  ASSUME NEW a \in Nat, NEW b \in Nat, NEW c \in Nat, b <= c
  PROVE  Count(a, b) <= Count(a, c)
<1>1. WordsIn(a, b) \in SUBSET WordsIn(a, c)
  BY DEF WordsIn
<1>2. QED BY <1>1, WordsFinite, FS_Subset DEF Count

\* One rune more is a word more only if it follows a space.
LEMMA WordsNext ==
  ASSUME NEW a \in Nat, NEW b \in Nat, a <= b, Count(a, b + 1) > Count(a, b)
  PROVE  IsSpace(b) /\ Count(a, b + 1) = Count(a, b) + 1
<1>1. WordsIn(a, b + 1) \in SUBSET (WordsIn(a, b) \cup {b + 1})
  BY DEF WordsIn
<1>2. /\ IsFiniteSet(WordsIn(a, b) \cup {b + 1})
      /\ Cardinality(WordsIn(a, b) \cup {b + 1}) <= Count(a, b) + 1
  <2>1. /\ IsFiniteSet(WordsIn(a, b) \cup {b + 1})
        /\ Cardinality(WordsIn(a, b) \cup {b + 1})
             = IF b + 1 \in WordsIn(a, b) THEN Count(a, b) ELSE Count(a, b) + 1
    BY WordsFinite, FS_AddElement DEF Count
  <2>2. Count(a, b) \in Nat
    BY WordsFinite DEF Count
  <2>3. QED BY <2>1, <2>2
<1>3. Count(a, b + 1) <= Count(a, b) + 1
  <2>1. Count(a, b + 1) <= Cardinality(WordsIn(a, b) \cup {b + 1})
    BY <1>1, <1>2, FS_Subset DEF Count
  <2>2. Count(a, b + 1) \in Nat /\ Count(a, b) \in Nat /\ Cardinality(WordsIn(a, b) \cup {b + 1}) \in Nat
    BY <1>2, WordsFinite, FS_CardinalityType DEF Count
  <2>3. QED BY <1>2, <2>1, <2>2
<1>4. ASSUME ~IsSpace(b) PROVE FALSE
  <2>1. b + 1 \notin WordsIn(a, b + 1)
    <3>1. b + 1 # a /\ b + 1 - 1 = b
      OBVIOUS
    <3>2. QED BY <1>4, <3>1 DEF WordsIn
  <2>2. WordsIn(a, b + 1) \in SUBSET WordsIn(a, b)
    BY <1>1, <2>1
  <2>3. Count(a, b + 1) <= Count(a, b)
    BY <2>2, WordsFinite, FS_Subset DEF Count
  <2>4. Count(a, b + 1) \in Nat /\ Count(a, b) \in Nat
    BY WordsFinite DEF Count
  <2>5. QED BY <2>3, <2>4
<1>5. Count(a, b + 1) \in Nat /\ Count(a, b) \in Nat
  BY WordsFinite DEF Count
<1>6. QED BY <1>3, <1>4, <1>5

LEMMA WordsTrail ==
  ASSUME NEW a \in Nat, NEW b \in Nat, NEW hi \in Nat, hi <= b, \A p \in hi + 1 .. b : IsSpace(p)
  PROVE  Count(a, b) = Count(a, hi)
<1>1. ASSUME NEW p \in a .. b, ~IsSpace(p) PROVE p \in a .. hi
  BY <1>1
<1>2. WordsIn(a, b) = WordsIn(a, hi)
  BY <1>1 DEF WordsIn
<1>3. QED BY <1>2 DEF Count

LEMMA WordsLead ==
  ASSUME NEW a \in Nat, NEW b \in Nat, NEW lo \in Nat, a < lo, lo <= b,
         \A p \in a .. lo - 1 : IsSpace(p)
  PROVE  Count(a, b) = Count(lo, b)
<1>1. IsSpace(a) /\ IsSpace(lo - 1)
  OBVIOUS
<1>2. ASSUME NEW p \in a .. b, ~IsSpace(p) PROVE p \in lo .. b /\ p # a
  BY <1>1, <1>2
<1>3. WordsIn(a, b) \subseteq WordsIn(lo, b)
  BY <1>2 DEF WordsIn
<1>4. WordsIn(lo, b) \subseteq WordsIn(a, b)
  BY <1>1 DEF WordsIn
<1>5. WordsIn(a, b) = WordsIn(lo, b)
  BY <1>3, <1>4
<1>6. QED BY <1>5 DEF Count

\* One rune more in front is at most one word more, and that only if a space
\* follows it.
LEMMA WordsBack ==
  ASSUME NEW a \in Nat, a > 0, NEW b \in Nat, a <= b, Count(a - 1, b) > Count(a, b)
  PROVE  IsSpace(a) /\ Count(a - 1, b) = Count(a, b) + 1
<1>1. PICK z : z = a - 1
  OBVIOUS
<1>2. z \in Nat /\ z < a /\ a = z + 1
  BY <1>1
<1>3. Count(z, b) \in Nat /\ Count(a, b) \in Nat /\ Count(z, b) > Count(a, b)
  BY <1>1, <1>2, WordsFinite DEF Count
<1>4. IsFiniteSet(WordsIn(a, b)) /\ IsFiniteSet(WordsIn(z, b))
  BY <1>2, WordsFinite
<1>5. WordsIn(z, b) \in SUBSET (WordsIn(a, b) \cup {z})
  <2>1. ASSUME NEW p \in WordsIn(z, b), p # z PROVE p \in WordsIn(a, b)
    <3>1. p \in a .. b /\ ~IsSpace(p) /\ IsSpace(p - 1)
      BY <1>2, <2>1 DEF WordsIn
    <3>2. QED BY <3>1 DEF WordsIn
  <2>2. QED BY <2>1
<1>6. z \notin WordsIn(a, b)
  BY <1>2 DEF WordsIn
<1>7. /\ IsFiniteSet(WordsIn(a, b) \cup {z})
      /\ Cardinality(WordsIn(a, b) \cup {z}) = Count(a, b) + 1
  BY <1>4, <1>6, FS_AddElement DEF Count
<1>8. Count(z, b) <= Count(a, b) + 1
  BY <1>5, <1>7, FS_Subset DEF Count
<1>9. ASSUME ~IsSpace(a) PROVE FALSE
  <2>1. a \in WordsIn(a, b)
    BY <1>9 DEF WordsIn
  <2>2. CASE IsSpace(z)
    <3>1. z \notin WordsIn(z, b)
      BY <2>2 DEF WordsIn
    <3>2. WordsIn(z, b) \in SUBSET WordsIn(a, b)
      BY <1>5, <3>1
    <3>3. Count(z, b) <= Count(a, b)
      BY <1>4, <3>2, FS_Subset DEF Count
    <3>4. QED BY <1>3, <3>3
  <2>3. CASE ~IsSpace(z)
    <3>1. a \notin WordsIn(z, b)
      BY <1>1, <1>2, <2>3 DEF WordsIn
    <3>2. WordsIn(z, b) \in SUBSET ((WordsIn(a, b) \ {a}) \cup {z})
      BY <1>5, <3>1
    <3>3. /\ IsFiniteSet(WordsIn(a, b) \ {a})
          /\ Cardinality(WordsIn(a, b) \ {a}) = Count(a, b) - 1
      BY <1>4, <2>1, FS_RemoveElement DEF Count
    <3>4. z \notin WordsIn(a, b) \ {a}
      BY <1>6
    <3>5. /\ IsFiniteSet((WordsIn(a, b) \ {a}) \cup {z})
          /\ Cardinality((WordsIn(a, b) \ {a}) \cup {z}) = Count(a, b) - 1 + 1
      BY <3>3, <3>4, FS_AddElement
    <3>6. Count(z, b) <= Cardinality((WordsIn(a, b) \ {a}) \cup {z})
      BY <3>2, <3>5, FS_Subset DEF Count
    <3>7. QED BY <1>3, <3>5, <3>6
  <2>4. QED BY <2>2, <2>3
<1>10. Count(z, b) = Count(a, b) + 1
  BY <1>3, <1>8
<1>11. QED BY <1>1, <1>9, <1>10

LEMMA WordsNone ==
  ASSUME NEW a \in Nat, NEW b \in Nat, \A p \in a .. b : IsSpace(p)
  PROVE  Count(a, b) = 0
<1>1. WordsIn(a, b) = {}
  BY DEF WordsIn
<1>2. QED BY <1>1, FS_EmptySet DEF Count

LEMMA SpanTrimTokens ==
  ASSUME WordCounter, NEW a \in Nat, a > 0, NEW b \in Nat, a <= b + 1, b <= Len(text)
  PROVE  Tokens(Trim(Span(a, b))) = Count(a, b)
<1>1. CASE Trim(Span(a, b)) = <<>> /\ \A p \in a .. b : IsSpace(p)
  BY <1>1, TokensOfNothing, WordsNone
<1>2. ASSUME NEW lo \in a .. b, NEW hi \in a .. b,
             lo <= hi, Trim(Span(a, b)) = Span(lo, hi),
             \A p \in a .. b : p < lo \/ p > hi => IsSpace(p)
      PROVE  Tokens(Trim(Span(a, b))) = Count(a, b)
  <2>1. lo \in Nat /\ lo > 0 /\ hi \in Nat /\ lo <= hi + 1 /\ hi <= Len(text) /\ Len(text) \in Nat
    BY <1>2 DEF WordCounter
  <2>2. Tokens(Span(lo, hi)) = Count(lo, hi)
    BY <2>1, SpanTokens DEF Count
  <2>3. Count(a, b) = Count(a, hi)
    <3>1. \A p \in hi + 1 .. b : IsSpace(p)
      BY <1>2, <2>1
    <3>2. QED BY <2>1, <3>1, WordsTrail
  <2>4. Count(a, hi) = Count(lo, hi)
    <3>1. CASE a = lo
      BY <3>1
    <3>2. CASE a < lo
      <4>1. \A p \in a .. lo - 1 : IsSpace(p)
        BY <1>2, <2>1
      <4>2. QED BY <1>2, <2>1, <3>2, <4>1, WordsLead
    <3>3. QED BY <1>2, <3>1, <3>2
  <2>5. QED BY <1>2, <2>2, <2>3, <2>4
<1>3. QED BY <1>1, <1>2, SpanTrim

\* The first runes of a span that begins with a word.
LEMMA SpanFirst ==
  ASSUME WordCounter, NEW a \in Nat, a > 0, NEW b \in Nat, a <= b, b <= Len(text), ~IsSpace(a),
         NEW e \in 1 .. b - a + 1
  PROVE  /\ \E hi \in a .. a + e - 1 :
              /\ First(Span(a, b), e) = Span(a, hi) /\ ~IsSpace(hi)
              /\ \A p \in hi + 1 .. a + e - 1 : IsSpace(p)
         /\ Tokens(First(Span(a, b), e)) = Count(a, a + e - 1)
<1>1. PICK z : z = a + e - 1
  OBVIOUS
<1>2. z \in Nat /\ a <= z /\ z <= b /\ z <= Len(text)
  BY <1>1 DEF WordCounter
<1>3. SubSeq(Span(a, b), 1, e) = Span(a, z)
  <2>1. e \in Nat /\ e <= b - a + 1 /\ a <= b + 1
    OBVIOUS
  <2>2. SubSeq(Span(a, b), 1, e) = Span(a, a + e - 1)
    BY <2>1, SpanPrefix
  <2>3. QED BY <1>1, <2>2
<1>4. First(Span(a, b), e) = Trim(Span(a, z))
  BY <1>3 DEF First
<1>5. Tokens(Trim(Span(a, z))) = Count(a, z)
  BY <1>2, SpanTrimTokens
<1>6. \E hi \in a .. z : /\ Trim(Span(a, z)) = Span(a, hi) /\ ~IsSpace(hi)
                         /\ \A p \in hi + 1 .. z : IsSpace(p)
  <2>1. a \in a .. z
    BY <1>2
  <2>2. PICK lo, hi \in a .. z :
          /\ lo <= hi /\ Trim(Span(a, z)) = Span(lo, hi) /\ ~IsSpace(hi)
          /\ \A p \in a .. z : p < lo \/ p > hi => IsSpace(p)
    BY <1>2, <2>1, SpanTrim
  <2>3. lo = a
    BY <1>2, <2>1, <2>2
  <2>4. \A p \in hi + 1 .. z : IsSpace(p)
    BY <1>2, <2>2
  <2>5. QED BY <2>2, <2>3, <2>4
<1>7. QED BY <1>1, <1>4, <1>5, <1>6

\* Where every word is a token, a window that is not the last has as many as
\* it may have.
LEMMA WindowWords ==
  ASSUME WordCounter, NEW a \in Nat, a > 0, NEW b \in Nat, a <= b, b <= Len(text), ~IsSpace(a),
         BoundedEnd(Span(a, b)) # 0
  PROVE  /\ WindowEnd(Span(a, b)) \in 1 .. b - a + 1
         /\ WindowEnd(Span(a, b)) < b - a + 1 => Count(a, a + WindowEnd(Span(a, b)) - 1) = Most
<1>1. PICK s, n : s = Span(a, b) /\ n = b - a + 1
  OBVIOUS
<1>2. PICK e : e = BoundedEnd(s)
  OBVIOUS
<1>3. /\ s \in Piece /\ Len(s) = n /\ DOMAIN s = 1 .. n /\ n \in Nat /\ n > 0 /\ e # 0
      /\ \A i \in 1 .. n : s[i] = a + i - 1
  <2>1. a <= b + 1
    OBVIOUS
  <2>2. /\ s \in Piece /\ Len(s) = b - a + 1 /\ DOMAIN s = 1 .. b - a + 1
        /\ \A i \in 1 .. b - a + 1 : s[i] = a + i - 1
    BY <1>1, <2>1, SpanFacts
  <2>3. QED BY <1>1, <1>2, <2>2
<1>4. e \in 1 .. n /\ Tokens(First(s, e)) <= Most
  BY <1>2, <1>3, BoundedEndOf
<1> DEFINE spaces == {k \in 1 .. e : IsSpace(s[k])}
<1>5. WindowEnd(s) = IF e < n /\ spaces # {} THEN Max(spaces) - 1 ELSE e
  BY <1>2, <1>3 DEF WindowEnd
<1>6. CASE e = n
  <2>1. ~(e < n)
    BY <1>3, <1>6
  <2> HIDE DEF spaces
  <2>2. WindowEnd(s) = n
    BY <1>5, <1>6, <2>1
  <2>3. n \in 1 .. n /\ ~(n < n)
    BY <1>3
  <2>4. QED BY <1>1, <2>2, <2>3
<1>7. CASE e < n
  <2>1. e + 1 \in 1 .. n /\ ~(Tokens(First(s, e + 1)) <= Most)
    <3>1. e + 1 \in 1 .. n
      BY <1>3, <1>4, <1>7
    <3>2. ASSUME Tokens(First(s, e + 1)) <= Most PROVE FALSE
      <4> DEFINE ends == {0} \cup {k \in DOMAIN s : Tokens(First(s, k)) <= Most}
      <4>1. ends \in SUBSET (0 .. n) /\ ends # {} /\ e + 1 \in ends
        BY <1>3, <3>1, <3>2
      <4>2. Max(ends) >= e + 1
        BY <1>3, <4>1, MaxOf
      <4>3. e = Max(ends)
        BY <1>2 DEF BoundedEnd
      <4> HIDE DEF ends
      <4>4. QED BY <1>4, <4>2, <4>3
    <3>3. QED BY <3>1, <3>2
  <2>2. PICK z : z = a + e - 1
    OBVIOUS
  <2>3. z \in Nat /\ a <= z /\ z + 1 = a + (e + 1) - 1
    BY <1>4, <2>2
  <2>4. Tokens(First(s, e)) = Count(a, z) /\ Tokens(First(s, e + 1)) = Count(a, z + 1)
    <3>1. e \in 1 .. b - a + 1 /\ e + 1 \in 1 .. b - a + 1
      BY <1>1, <1>4, <2>1
    <3>2. Tokens(First(s, e)) = Count(a, a + e - 1)
      BY <1>1, <3>1, SpanFirst
    <3>3. Tokens(First(s, e + 1)) = Count(a, a + (e + 1) - 1)
      BY <1>1, <3>1, SpanFirst
    <3>4. QED BY <2>2, <2>3, <3>2, <3>3
  <2>5. Count(a, z) \in Nat /\ Count(a, z + 1) \in Nat /\ Most \in Nat
    <3>1. z + 1 \in Nat
      BY <2>3
    <3>2. Count(a, z) \in Nat
      BY <2>3, WordsFinite DEF Count
    <3>3. Count(a, z + 1) \in Nat
      BY <3>1, WordsFinite DEF Count
    <3>4. Most \in Nat
      BY ConfigAssumption DEF ConfigAssumption
    <3>5. QED BY <3>2, <3>3, <3>4
  <2>6. Count(a, z + 1) > Count(a, z) /\ Count(a, z) <= Most /\ Count(a, z + 1) > Most
    BY <1>4, <2>1, <2>4, <2>5
  <2>7. IsSpace(z) /\ Count(a, z + 1) = Count(a, z) + 1
    BY <2>3, <2>6, WordsNext
  <2>8. Count(a, z) = Most
    BY <2>5, <2>6, <2>7
  <2>9. s[e] = z /\ s[1] = a
    <3>1. 1 \in 1 .. n /\ a + 1 - 1 = a
      BY <1>3
    <3>2. QED BY <1>3, <1>4, <2>2, <3>1
  <2>10. e \in spaces /\ spaces \in SUBSET (0 .. e) /\ e \in Nat /\ e # 1
    BY <1>4, <2>7, <2>9
  <2>11. PICK k : k = Max(spaces)
    OBVIOUS
  <2>12. k \in spaces /\ k >= e
    BY <2>10, <2>11, MaxOf
  <2>13. k = e
    BY <1>4, <2>12
  <2>14. WindowEnd(s) = e - 1
    BY <1>5, <1>7, <2>10, <2>11, <2>13
  <2>15. e - 1 \in 1 .. n /\ a + (e - 1) - 1 = z - 1 /\ z - 1 \in Nat /\ a <= z - 1
    BY <1>3, <1>4, <2>2, <2>10
  <2>16. Count(a, z) = Count(a, z - 1)
    <3>1. \A p \in z - 1 + 1 .. z : IsSpace(p)
      BY <2>3, <2>7
    <3>2. QED BY <2>3, <2>15, <3>1, WordsTrail
  <2>17. Count(a, a + (e - 1) - 1) = Most
    BY <2>8, <2>15, <2>16
  <2>18. QED BY <1>1, <2>14, <2>15, <2>17
<1>8. QED BY <1>3, <1>4, <1>6, <1>7

\* The next window begins with the last words of the window, as many as the
\* overlap has.
LEMMA OverlapWords ==
  ASSUME WordCounter, Overlap > 0,
         NEW a \in Nat, a > 0, NEW b \in Nat, a <= b, b <= Len(text), ~IsSpace(a),
         NEW end \in 1 .. b - a + 1, Count(a, a + end - 1) > Overlap
  PROVE  \E w \in 2 .. end : /\ NextStart(Span(a, b), end) = w
                             /\ ~IsSpace(a + w - 1) /\ IsSpace(a + w - 1 - 1)
                             /\ Count(a + w - 1, a + end - 1) = Overlap
<1>1. PICK s, n, z : s = Span(a, b) /\ n = b - a + 1 /\ z = a + end - 1
  OBVIOUS
<1>2. Overlap \in Nat /\ Overlap > 0
  BY ConfigAssumption DEF ConfigAssumption
<1>3. /\ s \in Piece /\ Len(s) = n /\ n \in Nat /\ n > 0
      /\ end \in Nat /\ end > 0 /\ end <= n /\ z \in Nat /\ a <= z /\ z <= Len(text)
      /\ \A i \in 1 .. n : s[i] = a + i - 1
  <2>1. a <= b + 1
    OBVIOUS
  <2>2. s \in Piece /\ Len(s) = b - a + 1 /\ \A i \in 1 .. b - a + 1 : s[i] = a + i - 1
    BY <1>1, <2>1, SpanFacts
  <2>3. Len(text) \in Nat
    BY DEF WordCounter
  <2>4. QED BY <1>1, <2>2, <2>3
<1>4. ASSUME NEW m \in 1 .. end
      PROVE  /\ Tokens(Trim(SubSeq(s, m, end))) = Count(a + m - 1, z)
             /\ a + m - 1 \in Nat /\ a + m - 1 > 0 /\ a + m - 1 <= z
             /\ s[m] = a + m - 1 /\ Count(a + m - 1, z) \in Nat
  <2>1. m \in Nat /\ m > 0 /\ m <= end + 1 /\ end <= b - a + 1 /\ a <= b + 1 /\ end \in Nat
    OBVIOUS
  <2>2. SubSeq(s, m, end) = Span(a + m - 1, z)
    <3>1. SubSeq(Span(a, b), m, end) = Span(a + m - 1, a + end - 1)
      BY <2>1, SpanSub, ZenonT(40)
    <3>2. QED BY <1>1, <3>1
  <2>3. PICK x : x = a + m - 1
    OBVIOUS
  <2>4. x \in Nat /\ x > 0 /\ x <= z /\ x <= z + 1
    BY <1>1, <1>3, <2>1, <2>3
  <2>5. Tokens(Trim(Span(x, z))) = Count(x, z)
    BY <1>3, <2>4, SpanTrimTokens
  <2>6. Count(x, z) \in Nat
    BY <1>3, <2>4, WordsFinite DEF Count
  <2>7. s[m] = x
    BY <1>3, <2>1, <2>3
  <2>8. QED BY <2>2, <2>3, <2>4, <2>5, <2>6, <2>7
<1> DEFINE within == {end + 1} \cup {m \in 2 .. end : Tokens(Trim(SubSeq(s, m, end))) <= Overlap}
<1>5. PICK k : k = Min(within)
  OBVIOUS
<1>6. k \in within /\ \A m \in within : k <= m
  <2>1. within \in SUBSET Nat /\ within # {}
    BY <1>3
  <2>2. QED BY <1>5, <2>1, MinOf
<1>7. ASSUME NEW m \in 2 .. end, Count(a + m - 1, z) <= Overlap PROVE k <= m
  <2>1. m \in 1 .. end
    OBVIOUS
  <2>2. Tokens(Trim(SubSeq(s, m, end))) = Count(a + m - 1, z)
    BY <1>4, <2>1
  <2>3. m \in within
    BY <1>7, <2>2
  <2>4. QED BY <1>6, <2>3
<1>8. k # end + 1
  <2>1. SUFFICES ASSUME k = end + 1 PROVE FALSE
    OBVIOUS
  <2>2. Count(z, z) > Overlap
    <3>1. CASE end = 1
      BY <1>1, <3>1
    <3>2. CASE end # 1
      <4>1. end \in 2 .. end /\ ~(k <= end)
        BY <1>3, <2>1, <3>2
      <4>2. ~(Count(a + end - 1, z) <= Overlap) /\ end \in 1 .. end
        BY <1>7, <4>1
      <4>3. Count(a + end - 1, z) \in Nat
        BY <1>4, <4>2
      <4>4. QED BY <1>1, <1>2, <4>2, <4>3
    <3>3. QED BY <3>1, <3>2
  <2>3. WordsIn(z, z) \in SUBSET {z}
    BY <1>3 DEF WordsIn
  <2>4. Count(z, z) <= 1
    <3>1. IsFiniteSet({z}) /\ Cardinality({z}) = 1
      BY FS_Singleton
    <3>2. Cardinality(WordsIn(z, z)) <= Cardinality({z})
      BY <2>3, <3>1, FS_Subset
    <3>3. QED BY <3>1, <3>2 DEF Count
  <2>5. Count(z, z) \in Nat
    BY <1>3, WordsFinite DEF Count
  <2>6. QED BY <1>2, <2>2, <2>4, <2>5
<1>9. k \in 2 .. end /\ Tokens(Trim(SubSeq(s, k, end))) <= Overlap
  BY <1>6, <1>8
<1>10. PICK m : m = a + k - 1
  OBVIOUS
<1>11. /\ m \in Nat /\ m > 0 /\ m <= z /\ s[k] = m /\ m - 1 = a + (k - 1) - 1
       /\ Count(m, z) \in Nat /\ Count(m, z) <= Overlap
  <2>1. k \in 1 .. end
    BY <1>9
  <2>2. QED BY <1>4, <1>9, <1>10, <2>1
<1>12. Count(m - 1, z) > Overlap
  <2>1. CASE k = 2
    <3>1. m - 1 = a
      BY <1>10, <2>1
    <3>2. QED BY <1>1, <3>1
  <2>2. CASE k # 2
    <3>1. k - 1 \in 2 .. end /\ ~(k <= k - 1) /\ k - 1 \in 1 .. end
      BY <1>9, <2>2
    <3>2. ~(Count(a + (k - 1) - 1, z) <= Overlap)
      BY <1>7, <3>1
    <3>3. Count(a + (k - 1) - 1, z) \in Nat
      BY <1>4, <3>1
    <3>4. QED BY <1>2, <1>11, <3>2, <3>3
  <2>3. QED BY <2>1, <2>2
<1>13. IsSpace(m) /\ Count(m, z) = Overlap
  <2>1. m - 1 \in Nat
    BY <1>11
  <2>2. Count(m - 1, z) \in Nat
    BY <1>3, <2>1, WordsFinite DEF Count
  <2>3. Count(m - 1, z) > Count(m, z)
    BY <1>2, <1>11, <1>12, <2>2
  <2>4. IsSpace(m) /\ Count(m - 1, z) = Count(m, z) + 1
    BY <1>3, <1>11, <2>3, WordsBack
  <2>5. QED BY <1>2, <1>11, <1>12, <2>2, <2>4
<1> DEFINE inked == {end + 1} \cup {i \in k .. end : ~IsSpace(s[i])}
<1>14. PICK w : w = Min(inked)
  OBVIOUS
<1>15. w \in inked /\ \A i \in inked : w <= i
  <2>1. inked \in SUBSET Nat /\ inked # {}
    BY <1>3, <1>9
  <2>2. QED BY <1>14, <2>1, MinOf
<1>16. w # end + 1
  <2>1. SUFFICES ASSUME w = end + 1 PROVE FALSE
    OBVIOUS
  <2>2. ASSUME NEW p \in m .. z PROVE IsSpace(p)
    <3>1. PICK i : i = p - a + 1
      OBVIOUS
    <3>2. i \in k .. end /\ i \in 1 .. n /\ a + i - 1 = p
      <4>1. p \in Nat /\ m <= p /\ p <= z /\ k \in Nat /\ k >= 2
        BY <1>3, <1>9, <1>11, <2>2
      <4>2. QED BY <1>1, <1>3, <1>10, <3>1, <4>1
    <3>3. s[i] = p
      BY <1>3, <3>2
    <3>4. i \notin inked
      <4>1. ~(w <= i)
        BY <1>3, <2>1, <3>2
      <4>2. QED BY <1>15, <4>1
    <3>5. QED BY <3>2, <3>3, <3>4
  <2>3. Count(m, z) = 0
    BY <1>3, <1>11, <2>2, WordsNone
  <2>4. QED BY <1>2, <1>13, <2>3
<1>17. w \in k .. end /\ ~IsSpace(s[w])
  BY <1>15, <1>16
<1>18. w # k
  BY <1>11, <1>13, <1>17
<1>19. w \in Nat /\ k \in Nat /\ k >= 2 /\ w > k /\ w <= end /\ w >= 3 /\ w \in 1 .. n
  BY <1>3, <1>9, <1>17, <1>18
<1>20. ASSUME NEW i \in k .. w - 1 PROVE IsSpace(s[i])
  <2>1. i \in k .. end /\ ~(w <= i)
    BY <1>19
  <2>2. QED BY <1>15, <2>1
<1>21. OverlapStart(s, end) = w
  <2> DEFINE starts == {2} \cup {i \in 3 .. w : IsSpace(s[i - 1])}
  <2>1. OverlapStart(s, end) = IF w <= 2 THEN w ELSE Max(starts)
    BY <1>5, <1>14 DEF OverlapStart
  <2>2. starts \in SUBSET (0 .. w) /\ starts # {}
    BY <1>19
  <2>3. Max(starts) \in starts /\ \A i \in starts : Max(starts) >= i
    BY <1>19, <2>2, MaxOf
  <2>4. w \in starts
    <3>1. w - 1 \in k .. w - 1 /\ w \in 3 .. w
      BY <1>19
    <3>2. QED BY <1>20, <3>1
  <2>5. PICK x : x = Max(starts)
    OBVIOUS
  <2>6. x \in starts /\ x >= w
    BY <2>3, <2>4, <2>5
  <2> HIDE DEF starts
  <2>7. x \in 0 .. w
    BY <2>2, <2>6
  <2>8. x = w
    BY <1>19, <2>6, <2>7
  <2>9. QED BY <1>19, <2>1, <2>5, <2>8
<1>22. NextStart(s, end) = w
  <2>1. PICK x : x = Max({w, 2})
    OBVIOUS
  <2>2. x = w
    <3>1. {w, 2} \in SUBSET (0 .. w) /\ {w, 2} # {}
      BY <1>19
    <3>2. x \in {w, 2} /\ x >= w
      BY <1>19, <2>1, <3>1, MaxOf
    <3>3. QED BY <1>19, <3>2
  <2> DEFINE later == {Len(s) + 1} \cup {i \in w .. Len(s) : ~IsSpace(s[i])}
  <2>3. PICK y : y = Min(later)
    OBVIOUS
  <2>4. y = w
    <3>1. later \in SUBSET Nat /\ w \in later /\ \A i \in later : w <= i
      BY <1>3, <1>17, <1>19
    <3>2. y \in later /\ y <= w
      BY <2>3, <3>1, MinOf
    <3> HIDE DEF later
    <3>3. y \in Nat /\ w <= y
      BY <3>1, <3>2
    <3>4. QED BY <1>19, <3>2, <3>3
  <2>5. NextStart(s, end) = y
    BY <1>21, <2>1, <2>2, <2>3 DEF NextStart
  <2>6. QED BY <2>4, <2>5
<1>23. PICK x : x = a + w - 1
  OBVIOUS
<1>24. x \in Nat /\ m < x /\ x <= z /\ s[w] = x
  BY <1>1, <1>3, <1>10, <1>19, <1>23
<1>25. \A p \in m .. x - 1 : IsSpace(p)
  <2>1. ASSUME NEW p \in m .. x - 1 PROVE IsSpace(p)
    <3>1. PICK i : i = p - a + 1
      OBVIOUS
    <3>2. i \in k .. w - 1 /\ i \in 1 .. n /\ a + i - 1 = p
      <4>1. p \in Nat /\ m <= p /\ p <= x - 1
        BY <1>11, <1>24, <2>1
      <4>2. QED BY <1>3, <1>10, <1>19, <1>23, <3>1, <4>1
    <3>3. s[i] = p
      BY <1>3, <3>2
    <3>4. QED BY <1>20, <3>2, <3>3
  <2>2. QED BY <2>1
<1>26. Count(m, z) = Count(x, z)
  BY <1>3, <1>11, <1>24, <1>25, WordsLead
<1>27. w \in 2 .. end /\ ~IsSpace(x) /\ IsSpace(x - 1) /\ Count(x, z) = Overlap
  <2>1. x - 1 \in m .. x - 1
    BY <1>11, <1>24
  <2>2. QED BY <1>13, <1>17, <1>19, <1>24, <1>25, <1>26, <2>1
<1>28. QED BY <1>1, <1>22, <1>23, <1>27

-----------------------------------------------------------------------------
(* Chunks in order.                                                        *)

Below(A, B) == \A p \in A, q \in B : p < q

\* B begins after A does, and ends after it does.
BeginsAfter(A, B) == \E p \in A : \A q \in B : p < q

GoesOn(A, B) == BeginsAfter(A, B) /\ \E q \in B : \A p \in A : p < q

\* The tokens of d that begin in text of c.
Shared(c, d) == {i \in DOMAIN d : BeginsToken(d, i) /\ d[i] \in Ink(c)}

\* The chunk after c may be d.  Only a full chunk shares text with the next.
Follows(c, d) ==
  /\ GoesOn(Ink(c), Ink(d))
  /\ Below(Ink(c), Ink(d)) \/ Tokens(c) = Most
  /\ Cardinality(Shared(c, d)) \in {0, Overlap}

\* Chunks that are not neighbours.
Apart(A, B) == 2 * Overlap <= Most => Below(A, B)

InOrder(cs) ==
  /\ \A k \in DOMAIN cs : Ink(cs[k].at) # {}
  /\ \A j, k \in DOMAIN cs : j < k =>
       /\ BeginsAfter(Ink(cs[j].at), Ink(cs[k].at))
       /\ k = j + 1 => Follows(cs[j].at, cs[k].at)
       /\ k # j + 1 => Apart(Ink(cs[j].at), Ink(cs[k].at))

LEMMA InkTyped ==
  ASSUME NEW s \in Piece
  PROVE  Ink(s) \in SUBSET Nat
BY PieceFacts DEF Ink, Range

LEMMA BelowGoesOn ==
  ASSUME NEW A \in SUBSET Nat, NEW B \in SUBSET Nat, A # {}, B # {}, Below(A, B)
  PROVE  GoesOn(A, B)
<1>1. PICK p \in A, q \in B : TRUE
  OBVIOUS
<1>2. (\A y \in B : p < y) /\ (\A y \in A : y < q)
  BY DEF Below
<1>3. QED BY <1>1, <1>2 DEF GoesOn, BeginsAfter

LEMMA BelowFollows ==
  ASSUME NEW c \in Piece, NEW d \in Piece, Ink(c) # {}, Ink(d) # {}, Below(Ink(c), Ink(d))
  PROVE  Follows(c, d)
<1>1. Ink(c) \in SUBSET Nat /\ Ink(d) \in SUBSET Nat
  BY InkTyped
<1>2. GoesOn(Ink(c), Ink(d))
  BY <1>1, BelowGoesOn
<1>3. ASSUME NEW i \in DOMAIN d, BeginsToken(d, i), d[i] \in Ink(c) PROVE FALSE
  <2>1. d[i] \in Ink(d)
    BY <1>3 DEF BeginsToken, Ink, Range
  <2>2. d[i] < d[i] /\ d[i] \in Nat
    BY <1>1, <1>3, <2>1 DEF Below
  <2>3. QED BY <2>2
<1>4. Shared(c, d) = {}
  BY <1>3 DEF Shared
<1>5. Cardinality(Shared(c, d)) = 0
  BY <1>4, FS_EmptySet
<1>6. QED BY <1>2, <1>5 DEF Follows

LEMMA AfterThat ==
  ASSUME NEW A \in SUBSET Nat, NEW B \in SUBSET Nat, NEW C \in SUBSET Nat,
         BeginsAfter(A, B), BeginsAfter(B, C)
  PROVE  BeginsAfter(A, C)
<1>1. PICK p \in A : \A q \in B : p < q
  BY DEF BeginsAfter
<1>2. PICK q \in B : \A r \in C : q < r
  BY DEF BeginsAfter
<1>3. \A r \in C : p < r
  BY <1>1, <1>2
<1>4. QED BY <1>3 DEF BeginsAfter

\* A chunk is added.
LEMMA OrderAppended ==
  ASSUME NEW cs \in Seq(ChunkRow), InOrder(cs), NEW n \in 1 .. 2, NEW d \in Piece, Ink(d) # {},
         \A k \in DOMAIN cs : k < Len(cs) => Apart(Ink(cs[k].at), Ink(d)),
         cs # <<>> => Follows(cs[Len(cs)].at, d)
  PROVE  InOrder(Append(cs, [page |-> n, at |-> d]))
<1>1. PICK r, l, more : r = [page |-> n, at |-> d] /\ l = Len(cs) /\ more = Append(cs, r)
  OBVIOUS
<1>2. r \in ChunkRow /\ r.at = d
  BY <1>1 DEF ChunkRow
<1>3. /\ l \in Nat /\ DOMAIN cs = 1 .. l
      /\ \A k \in 1 .. l : cs[k].at \in Piece /\ Ink(cs[k].at) \in SUBSET Nat
  BY <1>1, ChunkFacts, InkTyped
<1>4. /\ more \in Seq(ChunkRow) /\ Len(more) = l + 1 /\ more[l + 1] = r
      /\ \A k \in 1 .. l : more[k] = cs[k]
  BY <1>1, <1>2, AppendProperties
<1>5. DOMAIN more = 1 .. l + 1 /\ more[l + 1].at = d
  BY <1>2, <1>4, LenProperties
<1>6. Ink(d) \in SUBSET Nat
  BY InkTyped
<1>7. ASSUME NEW j \in 1 .. l PROVE BeginsAfter(Ink(cs[j].at), Ink(d))
  <2>1. cs # <<>> /\ l \in 1 .. l /\ j \in DOMAIN cs /\ l \in DOMAIN cs
    BY <1>1, <1>3, EmptySeq
  <2>2. BeginsAfter(Ink(cs[l].at), Ink(d))
    BY <1>1, <2>1 DEF Follows, GoesOn
  <2>3. CASE j = l
    BY <2>2, <2>3
  <2>4. CASE j < l
    <3>1. BeginsAfter(Ink(cs[j].at), Ink(cs[l].at))
      BY <2>1, <2>4 DEF InOrder
    <3>2. QED BY <1>3, <1>6, <2>1, <2>2, <3>1, AfterThat
  <2>5. QED BY <1>3, <2>3, <2>4
<1>8. ASSUME NEW k \in 1 .. l + 1 PROVE Ink(more[k].at) # {}
  <2>1. CASE k \in 1 .. l
    BY <1>3, <1>4, <2>1 DEF InOrder
  <2>2. CASE k = l + 1
    BY <1>5, <2>2
  <2>3. QED BY <1>3, <2>1, <2>2
<1>9. ASSUME NEW j \in 1 .. l + 1, NEW k \in 1 .. l + 1, j < k
      PROVE  /\ BeginsAfter(Ink(more[j].at), Ink(more[k].at))
             /\ k = j + 1 => Follows(more[j].at, more[k].at)
             /\ k # j + 1 => Apart(Ink(more[j].at), Ink(more[k].at))
  <2>1. j \in 1 .. l /\ more[j] = cs[j]
    BY <1>3, <1>4, <1>9
  <2>2. CASE k \in 1 .. l
    <3>1. more[k] = cs[k] /\ j \in DOMAIN cs /\ k \in DOMAIN cs
      BY <1>3, <1>4, <2>1, <2>2
    <3>2. QED BY <1>9, <2>1, <3>1 DEF InOrder
  <2>3. CASE k = l + 1
    <3>1. more[k].at = d
      BY <1>5, <2>3
    <3>2. BeginsAfter(Ink(cs[j].at), Ink(d))
      BY <1>7, <2>1
    <3>3. ASSUME k = j + 1 PROVE Follows(cs[j].at, d)
      <4>1. j = l /\ cs # <<>>
        BY <1>1, <1>3, <2>1, <2>3, <3>3, EmptySeq
      <4>2. QED BY <1>1, <4>1
    <3>4. ASSUME k # j + 1 PROVE Apart(Ink(cs[j].at), Ink(d))
      <4>1. j < l /\ j \in DOMAIN cs
        BY <1>3, <2>1, <2>3, <3>4
      <4>2. QED BY <1>1, <4>1
    <3>5. QED BY <2>1, <3>1, <3>2, <3>3, <3>4
  <2>4. QED BY <1>3, <2>2, <2>3
<1>10. InOrder(more)
  BY <1>5, <1>8, <1>9 DEF InOrder
<1>11. QED BY <1>1, <1>10

\* A piece joined to another has more tokens, if it has text.
LEMMA JoinedTokens ==
  ASSUME WordCounter, NEW a \in Piece, NEW b \in Piece, Ink(b) # {}
  PROVE  Tokens(Join(a, b)) > Tokens(a)
<1>1. PICK s, l, m : s = Join(a, b) /\ l = Len(a) /\ m = Len(b)
  OBVIOUS
<1>2. /\ s \in Piece /\ Len(s) = l + 1 + m /\ l \in Nat /\ m \in Nat
      /\ DOMAIN a = 1 .. l /\ DOMAIN b = 1 .. m
      /\ \A i \in 1 .. l : s[i] = a[i]
      /\ s[l + 1] = 0
      /\ \A i \in 1 .. m : s[l + 1 + i] = b[i]
  BY <1>1, JoinOf, PieceFacts, ZenonT(40)
<1>3. DOMAIN s = 1 .. l + 1 + m
  BY <1>2, PieceFacts
<1> DEFINE inked == {i \in 1 .. m : ~IsSpace(b[i])}
<1>4. inked \in SUBSET Nat /\ inked # {}
  BY <1>2 DEF Ink, Range
<1>5. PICK f : f = Min(inked)
  OBVIOUS
<1>6. f \in inked /\ \A i \in inked : f <= i
  BY <1>4, <1>5, MinOf
<1>7. PICK q : q = l + 1 + f
  OBVIOUS
<1>8. /\ f \in 1 .. m /\ ~IsSpace(b[f])
      /\ q \in 1 .. l + 1 + m /\ q \in Nat /\ q > l + 1 /\ s[q] = b[f]
  BY <1>2, <1>6, <1>7
<1>9. IsSpace(s[q - 1])
  <2>1. CASE f = 1
    <3>1. q - 1 = l + 1
      BY <1>2, <1>7, <2>1
    <3>2. QED BY <1>2, <3>1 DEF IsSpace
  <2>2. CASE f # 1
    <3>1. f - 1 \in 1 .. m /\ q - 1 = l + 1 + (f - 1) /\ ~(f <= f - 1)
      BY <1>2, <1>7, <1>8, <2>2
    <3>2. IsSpace(b[f - 1])
      BY <1>6, <3>1
    <3>3. s[l + 1 + (f - 1)] = b[f - 1]
      BY <1>2, <3>1
    <3>4. QED BY <3>1, <3>2, <3>3
  <2>3. QED BY <2>1, <2>2
<1>10. WordStart(s, q) = q
  <2> DEFINE starts == {j \in 1 .. q : /\ \A k \in j .. q : ~IsSpace(s[k])
                                       /\ j = 1 \/ IsSpace(s[j - 1])}
  <2>1. q \in starts
    <3>1. \A k \in q .. q : k = q
      BY <1>8
    <3>2. q \in 1 .. q
      BY <1>8
    <3>3. QED BY <1>8, <1>9, <3>1, <3>2
  <2>2. starts \in SUBSET (0 .. q)
    OBVIOUS
  <2>3. PICK w : w = Max(starts)
    OBVIOUS
  <2>4. w \in starts /\ w >= q
    BY <1>8, <2>1, <2>2, <2>3, MaxOf
  <2>5. w \in 1 .. q
    BY <2>4
  <2>6. w = q
    BY <1>8, <2>4, <2>5
  <2>7. WordStart(s, q) = w
    BY <2>3 DEF WordStart
  <2>8. QED BY <2>6, <2>7
<1>11. BeginsToken(s, q)
  <2>1. q - WordStart(s, q) = 0
    BY <1>8, <1>10
  <2>2. 0 % tokenRunes = 0
    <3>1. tokenRunes \in Nat /\ 0 \in 0 .. tokenRunes - 1
      BY DEF WordCounter
    <3>2. QED BY <3>1, SmallRemainder
  <2>3. QED BY <1>8, <2>1, <2>2 DEF BeginsToken
<1> DEFINE begins == {i \in DOMAIN s : BeginsToken(s, i)}
           first == {i \in DOMAIN a : BeginsToken(a, i)}
<1>12. first \in SUBSET begins /\ q \in begins /\ q \notin first
  <2>1. \A i \in 1 .. l : BeginsToken(s, i) <=> BeginsToken(a, i)
    BY <1>2, PrefixBegins
  <2>2. \A i \in 1 .. l : i \in DOMAIN s
    BY <1>2, <1>3
  <2>3. q \in DOMAIN s /\ q \notin 1 .. l
    BY <1>2, <1>3, <1>8
  <2>4. QED BY <1>2, <1>11, <2>1, <2>2, <2>3
<1>13. IsFiniteSet(begins)
  <2>1. IsFiniteSet(1 .. l + 1 + m)
    BY <1>2, FS_Interval
  <2>2. QED BY <1>3, <2>1, FS_Subset
<1>14. Tokens(s) = Cardinality(begins) /\ Tokens(a) = Cardinality(first)
  BY DEF Tokens
<1> HIDE DEF begins, first
<1>15. IsFiniteSet(first) /\ first \cup {q} \in SUBSET begins
  BY <1>12, <1>13, FS_Subset
<1>16. Cardinality(first \cup {q}) = Cardinality(first) + 1
  BY <1>12, <1>15, FS_AddElement
<1>17. Cardinality(first \cup {q}) <= Cardinality(begins)
  BY <1>13, <1>15, FS_Subset
<1>18. Cardinality(first) \in Nat /\ Cardinality(begins) \in Nat
  BY <1>13, <1>15, FS_CardinalityType
<1>19. QED BY <1>1, <1>14, <1>16, <1>17, <1>18

LEMMA JoinFollows ==
  ASSUME NEW c \in Piece, NEW a \in Piece, NEW b \in Piece, Ink(a) # {},
         Follows(c, a), Below(Ink(a), Ink(b))
  PROVE  Follows(c, Join(a, b))
<1>1. PICK s : s = Join(a, b)
  OBVIOUS
<1>2. PICK C, A, B : C = Ink(c) /\ A = Ink(a) /\ B = Ink(b)
  OBVIOUS
<1>3. /\ C \in SUBSET Nat /\ A \in SUBSET Nat /\ B \in SUBSET Nat
      /\ A # {} /\ Ink(s) = A \cup B /\ Below(A, B)
  BY <1>1, <1>2, InkTyped, InkOfJoin
<1>4. /\ \E p \in C : \A q \in A : p < q
      /\ \E q \in A : \A p \in C : p < q
      /\ Below(C, A) \/ Tokens(c) = Most
      /\ Cardinality(Shared(c, a)) \in {0, Overlap}
  BY <1>2 DEF Follows, GoesOn, BeginsAfter
<1>5. \A p \in C : \A q \in B : p < q
  <2>1. PICK x \in A : \A p \in C : p < x
    BY <1>4
  <2>2. \A q \in B : x < q
    BY <1>3 DEF Below
  <2>3. QED BY <1>3, <2>1, <2>2
<1>6. GoesOn(C, A \cup B)
  BY <1>4, <1>5 DEF GoesOn, BeginsAfter
<1>7. Below(C, A) => Below(C, A \cup B)
  BY <1>5 DEF Below
<1>8. Shared(c, s) = Shared(c, a)
  <2>1. PICK l, m : l = Len(a) /\ m = Len(b)
    OBVIOUS
  <2>2. /\ s \in Piece /\ Len(s) = l + 1 + m /\ l \in Nat /\ m \in Nat
        /\ DOMAIN a = 1 .. l /\ DOMAIN b = 1 .. m
        /\ \A i \in 1 .. l : s[i] = a[i]
        /\ s[l + 1] = 0
        /\ \A i \in 1 .. m : s[l + 1 + i] = b[i]
    <3>1. l \in Nat /\ m \in Nat /\ DOMAIN a = 1 .. l /\ DOMAIN b = 1 .. m
      BY <2>1, PieceFacts
    <3>2. /\ s \in Piece /\ Len(s) = l + 1 + m
          /\ \A i \in 1 .. l : s[i] = a[i]
          /\ s[l + 1] = 0
          /\ \A i \in 1 .. m : s[l + 1 + i] = b[i]
      BY <1>1, <2>1, JoinOf
    <3>3. QED BY <3>1, <3>2
  <2>3. DOMAIN s = 1 .. l + 1 + m
    BY <2>2, PieceFacts
  <2>4. \A i \in 1 .. l : BeginsToken(s, i) <=> BeginsToken(a, i)
    BY <2>2, PrefixBegins
  <2>5. ASSUME NEW i \in 1 .. l + 1 + m, BeginsToken(s, i), s[i] \in C PROVE i \in 1 .. l
    <3>1. ~IsSpace(s[i])
      BY <2>5 DEF BeginsToken
    <3>2. CASE i = l + 1
      BY <2>2, <3>1, <3>2 DEF IsSpace
    <3>3. CASE i > l + 1
      <4>1. PICK k : k = i - (l + 1)
        OBVIOUS
      <4>2. k \in 1 .. m /\ l + 1 + k = i
        BY <2>2, <3>3, <4>1
      <4>3. s[i] = b[k]
        BY <2>2, <4>2
      <4>4. s[i] \in B
        BY <1>2, <2>2, <3>1, <4>2, <4>3 DEF Ink, Range
      <4>5. s[i] < s[i] /\ s[i] \in Nat
        BY <1>3, <1>5, <2>5, <4>4
      <4>6. QED BY <4>5
    <3>4. CASE i < l + 1
      BY <2>2, <3>4
    <3>5. QED BY <2>2, <3>2, <3>3, <3>4
  <2>6. 1 .. l \subseteq 1 .. l + 1 + m
    BY <2>2
  <2>7. QED BY <1>2, <2>2, <2>3, <2>4, <2>5, <2>6 DEF Shared
<1>9. QED BY <1>1, <1>2, <1>3, <1>4, <1>6, <1>7, <1>8 DEF Follows

\* A full chunk is not merged with the next: the chunks stay in order.
LEMMA OrderMerged ==
  ASSUME WordCounter, page \in 1 .. 2, pageStart \in Nat, NEW all \in Seq(ChunkRow), InOrder(all)
  PROVE  InOrder(MergedTail(all))
<1>1. CASE MergedTail(all) = all
  BY <1>1
<1>2. CASE MergedTail(all) # all
  <2>1. PICK l : l = Len(all)
    OBVIOUS
  <2>2. PICK a, b : a = all[l - 1].at /\ b = all[l].at
    OBVIOUS
  <2>3. PICK two, s : two = SubSeq(all, 1, l - 2) /\ s = Join(a, b)
    OBVIOUS
  <2>4. /\ l >= pageStart + 2 /\ Tokens(s) <= Most
        /\ MergedTail(all) = Append(two, [page |-> page, at |-> s])
    BY <1>2, <2>1, <2>2, <2>3 DEF MergedTail
  <2>5. /\ l \in Nat /\ l >= 2 /\ DOMAIN all = 1 .. l
        /\ \A k \in 1 .. l : all[k] \in ChunkRow /\ all[k].at \in Piece /\ Ink(all[k].at) \in SUBSET Nat
    BY <2>1, <2>4, ChunkFacts, InkTyped
  <2>6. l - 1 \in 1 .. l /\ l \in 1 .. l /\ l - 1 < l /\ l = (l - 1) + 1 /\ l - 2 \in Nat
    BY <2>5
  <2>7. a \in Piece /\ b \in Piece /\ Ink(a) # {} /\ Ink(b) # {} /\ Follows(a, b)
    BY <2>2, <2>5, <2>6 DEF InOrder
  <2>8. s \in Piece /\ Ink(s) = Ink(a) \cup Ink(b)
    BY <2>3, <2>7, InkOfJoin
  <2>9. Below(Ink(a), Ink(b))
    <3>1. Tokens(s) > Tokens(a)
      BY <2>3, <2>7, JoinedTokens
    <3>2. Tokens(s) \in Nat /\ Tokens(a) \in Nat /\ Most \in Nat
      BY <2>7, <2>8, TokensTyped, ConfigAssumption DEF ConfigAssumption
    <3>3. Tokens(a) # Most
      BY <2>4, <3>1, <3>2
    <3>4. QED BY <2>7, <3>3 DEF Follows
  <2>10. /\ two \in Seq(ChunkRow) /\ Len(two) = l - 2
         /\ \A k \in 1 .. l - 2 : two[k] = all[k]
    <3>1. \A k \in 1 .. l - 2 : all[k] \in ChunkRow
      BY <2>5
    <3>2. 1 \in Int /\ l - 2 \in Int
      BY <2>5
    <3>3. /\ two \in Seq(ChunkRow) /\ Len(two) = IF 1 <= l - 2 THEN l - 2 - 1 + 1 ELSE 0
          /\ \A k \in 1 .. l - 2 - 1 + 1 : two[k] = all[1 + k - 1]
      BY <2>3, <3>1, <3>2, SubSeqProperties
    <3>4. QED BY <2>5, <3>3
  <2>11. DOMAIN two = 1 .. l - 2
    BY <2>10, LenProperties
  <2>12. InOrder(two)
    <3>1. \A k \in DOMAIN two : k \in DOMAIN all /\ two[k] = all[k]
      BY <2>5, <2>10, <2>11
    <3>2. QED BY <3>1 DEF InOrder
  <2>13. ASSUME NEW k \in 1 .. l - 2, k < l - 2 PROVE Apart(Ink(two[k].at), Ink(s))
    <3>1. k \in 1 .. l /\ k < l - 1 /\ l - 1 # k + 1 /\ k < l /\ l # k + 1
      BY <2>5, <2>13
    <3>2. Apart(Ink(all[k].at), Ink(a)) /\ Apart(Ink(all[k].at), Ink(b))
      BY <2>2, <2>5, <2>6, <3>1 DEF InOrder
    <3>3. QED BY <2>8, <2>10, <2>13, <3>2 DEF Apart, Below
  <2>14. ASSUME two # <<>> PROVE Follows(two[l - 2].at, s)
    <3>1. l - 2 \in 1 .. l - 2
      <4>1. l - 2 # 0
        BY <2>10, <2>14, EmptySeq
      <4>2. QED BY <2>6, <4>1
    <3>2. l - 2 \in 1 .. l /\ l - 2 < l - 1 /\ l - 1 = (l - 2) + 1
      BY <2>5, <3>1
    <3>3. Follows(all[l - 2].at, a)
      BY <2>2, <2>5, <2>6, <3>2 DEF InOrder
    <3>4. all[l - 2].at \in Piece
      BY <2>5, <3>2
    <3>5. QED BY <2>3, <2>7, <2>9, <2>10, <3>1, <3>3, <3>4, JoinFollows
  <2>15. Ink(s) # {}
    BY <2>7, <2>8
  <2>16. InOrder(Append(two, [page |-> page, at |-> s]))
    BY <2>8, <2>10, <2>11, <2>12, <2>13, <2>14, <2>15, OrderAppended
  <2>17. QED BY <2>4, <2>16
<1>3. QED BY <1>1, <1>2

\* What InOrder says of the chunks.
LEMMA OrderIsGood ==
  ASSUME chunks \in Seq(ChunkRow), InOrder(chunks)
  PROVE  ChunksInOrder /\ EveryChunkAddsText /\ OverlapIsConfigured
<1>1. PICK l : l = Len(chunks)
  OBVIOUS
<1>2. /\ l \in Nat /\ DOMAIN chunks = 1 .. l
      /\ \A k \in 1 .. l : /\ chunks[k].at \in Piece /\ Ink(chunks[k].at) = InkOf(k)
                           /\ InkOf(k) \in SUBSET Nat /\ InkOf(k) # {}
  BY <1>1, ChunkFacts, InkTyped DEF InkOf, InOrder
<1>3. ASSUME NEW j \in 1 .. l, NEW k \in 1 .. l, j < k
      PROVE  /\ BeginsAfter(InkOf(j), InkOf(k))
             /\ k = j + 1 => Follows(chunks[j].at, chunks[k].at)
             /\ k # j + 1 => Apart(InkOf(j), InkOf(k))
  BY <1>2, <1>3 DEF InOrder
<1>4. ASSUME NEW k \in 2 .. l
      PROVE  /\ k \in 1 .. l /\ k - 1 \in 1 .. l
             /\ GoesOn(InkOf(k - 1), InkOf(k))
             /\ Cardinality(Shared(chunks[k - 1].at, chunks[k].at)) \in {0, Overlap}
  <2>1. k \in 1 .. l /\ k - 1 \in 1 .. l /\ k - 1 < k /\ k = (k - 1) + 1
    BY <1>2
  <2>2. Follows(chunks[k - 1].at, chunks[k].at)
    BY <1>3, <2>1
  <2>3. QED BY <1>2, <2>1, <2>2 DEF Follows
<1>5. ChunksInOrder
  <2>1. ASSUME NEW j \in 1 .. l, NEW k \in 1 .. l, j < k PROVE Min(InkOf(j)) < Min(InkOf(k))
    <3>1. PICK x, y : x = Min(InkOf(j)) /\ y = Min(InkOf(k))
      OBVIOUS
    <3>2. x \in InkOf(j) /\ y \in InkOf(k) /\ \A p \in InkOf(j) : x <= p
      BY <1>2, <3>1, MinOf
    <3>3. PICK p \in InkOf(j) : \A q \in InkOf(k) : p < q
      BY <1>3, <2>1 DEF BeginsAfter
    <3>4. x \in Nat /\ y \in Nat /\ p \in Nat
      BY <1>2, <3>2, <3>3
    <3>5. x <= p /\ p < y
      BY <3>2, <3>3
    <3>6. QED BY <3>1, <3>4, <3>5
  <2>2. ASSUME NEW j \in 1 .. l, NEW k \in 1 .. l, j < k, k > j + 1, 2 * Overlap <= Most
        PROVE  InkOf(j) \cap InkOf(k) = {}
    <3>1. k # j + 1
      BY <2>2
    <3>2. Below(InkOf(j), InkOf(k))
      BY <1>3, <2>2, <3>1 DEF Apart
    <3>3. ASSUME NEW p \in InkOf(j), p \in InkOf(k) PROVE FALSE
      <4>1. p < p /\ p \in Nat
        BY <1>2, <3>2, <3>3 DEF Below
      <4>2. QED BY <4>1
    <3>4. QED BY <3>3
  <2>3. QED BY <1>2, <2>1, <2>2 DEF ChunksInOrder
<1>6. EveryChunkAddsText
  <2>1. ASSUME NEW k \in 2 .. l PROVE ~(InkOf(k) \subseteq InkOf(k - 1))
    <3>1. PICK q \in InkOf(k) : \A p \in InkOf(k - 1) : p < q
      BY <1>4 DEF GoesOn
    <3>2. q \in Nat
      BY <1>2, <1>4, <3>1
    <3>3. QED BY <3>1, <3>2
  <2>2. QED BY <1>1, <2>1 DEF EveryChunkAddsText
<1>7. OverlapIsConfigured
  <2>1. ASSUME NEW k \in 2 .. l PROVE Cardinality(Repeated(k)) \in {0, Overlap}
    <3>1. Repeated(k) = Shared(chunks[k - 1].at, chunks[k].at)
      BY DEF Repeated, Shared, InkOf
    <3>2. QED BY <1>4, <3>1
  <2>2. QED BY <1>1, <2>1 DEF OverlapIsConfigured
<1>8. QED BY <1>5, <1>6, <1>7

-----------------------------------------------------------------------------
(* What is left of a sentence follows the last window cut off it.          *)

\* The window c and what is left of its sentence share the overlap.
Laps(c, s) ==
  \E a, n, h, b \in 1 .. Len(text) :
    /\ c = Span(a, h) /\ s = Span(n, b)
    /\ a < n /\ n <= h /\ h < b /\ ~IsSpace(a) /\ ~IsSpace(h)
    /\ Count(n, h) = Overlap /\ Tokens(c) = Most

LEMMA LapFollows ==
  ASSUME WordCounter,
         NEW a \in 1 .. Len(text), NEW n \in 1 .. Len(text),
         NEW h \in 1 .. Len(text), NEW z \in 1 .. Len(text),
         a < n, n <= h, h < z, ~IsSpace(a), ~IsSpace(z),
         Count(n, h) = Overlap, Tokens(Span(a, h)) = Most
  PROVE  Follows(Span(a, h), Span(n, z))
<1>1. PICK c, d : c = Span(a, h) /\ d = Span(n, z)
  OBVIOUS
<1>2. PICK k : k = h - n + 1
  OBVIOUS
<1>3. /\ Len(text) \in Nat
      /\ a \in Nat /\ a > 0 /\ n \in Nat /\ n > 0 /\ h \in Nat /\ z \in Nat
      /\ a <= h + 1 /\ n <= z + 1 /\ n <= h + 1
      /\ a <= h /\ n <= z /\ z <= Len(text) /\ h <= Len(text)
      /\ k \in Nat /\ k > 0 /\ k <= z - n + 1
  BY <1>2 DEF WordCounter
<1>4. /\ Ink(c) = {p \in a .. h : ~IsSpace(p)}
      /\ Ink(d) = {p \in n .. z : ~IsSpace(p)}
  BY <1>1, <1>3, SpanInk
<1>5. GoesOn(Ink(c), Ink(d))
  <2>1. a \in Ink(c) /\ \A q \in Ink(d) : a < q
    BY <1>3, <1>4
  <2>2. z \in Ink(d) /\ \A p \in Ink(c) : p < z
    BY <1>3, <1>4
  <2>3. QED BY <2>1, <2>2 DEF GoesOn, BeginsAfter
<1>6. /\ d \in Piece /\ Len(d) = z - n + 1 /\ DOMAIN d = 1 .. z - n + 1
      /\ \A i \in 1 .. z - n + 1 : d[i] = n + i - 1
  BY <1>1, <1>3, SpanFacts
<1>7. Shared(c, d) = Begin(d, k)
  <2>1. ASSUME NEW i \in 1 .. z - n + 1, BeginsToken(d, i)
        PROVE  d[i] \in Ink(c) <=> i \in 1 .. k
    <3>1. ~IsSpace(d[i])
      BY <2>1 DEF BeginsToken
    <3>2. d[i] \in Ink(c) <=> d[i] \in a .. h
      BY <1>4, <3>1
    <3>3. d[i] = n + i - 1
      BY <1>6
    <3>4. n + i - 1 \in a .. h <=> i \in 1 .. k
      BY <1>2, <1>3
    <3>5. QED BY <3>2, <3>3, <3>4
  <2>2. 1 .. k \subseteq 1 .. z - n + 1
    BY <1>3
  <2>3. QED BY <1>6, <2>1, <2>2 DEF Shared, Begin
<1>8. Cardinality(Begin(d, k)) = Overlap
  <2>1. k \in 0 .. Len(d)
    BY <1>3, <1>6
  <2>2. Tokens(SubSeq(d, 1, k)) = Cardinality(Begin(d, k))
    BY <1>6, <2>1, TokensOfPrefix
  <2>3. SubSeq(d, 1, k) = Span(n, h)
    <3>1. n \in Nat /\ n > 0 /\ z \in Nat /\ n <= z + 1 /\ k \in Nat /\ k <= z - n + 1
      BY <1>3
    <3>2. SubSeq(Span(n, z), 1, k) = Span(n, n + k - 1)
      BY <3>1, SpanPrefix
    <3>3. n + k - 1 = h
      BY <1>2, <1>3
    <3>4. QED BY <1>1, <3>2, <3>3
  <2>4. Tokens(Span(n, h)) = Count(n, h)
    BY <1>3, SpanTokens DEF Count
  <2>5. QED BY <2>2, <2>3, <2>4
<1>9. QED BY <1>1, <1>5, <1>7, <1>8 DEF Follows

\* Where the overlap is no more than half of a window, its last words are not
\* in the window before it.
LEMMA OverlapPasses ==
  ASSUME NEW n \in Nat, NEW h \in Nat, NEW z \in Nat, NEW m \in Nat,
         n < m, m <= z, ~IsSpace(m), IsSpace(m - 1),
         2 * Overlap <= Most, Count(n, z) = Most, Count(n, h) = Overlap, Count(m, z) = Overlap
  PROVE  h < m
<1>1. SUFFICES ASSUME m <= h PROVE FALSE
  OBVIOUS
<1>2. PICK x : x = m - 1
  OBVIOUS
<1>3. x \in Nat /\ n <= x /\ x < m /\ x < h
  BY <1>1, <1>2
<1>4. /\ IsFiniteSet(WordsIn(n, x)) /\ IsFiniteSet(WordsIn(m, z)) /\ IsFiniteSet(WordsIn(n, h))
      /\ Count(n, x) \in Nat /\ Overlap \in Nat /\ Most \in Nat
  <2>1. IsFiniteSet(WordsIn(n, x)) /\ Count(n, x) \in Nat
    BY <1>3, WordsFinite DEF Count
  <2>2. IsFiniteSet(WordsIn(m, z)) /\ IsFiniteSet(WordsIn(n, h))
    BY WordsFinite
  <2>3. Overlap \in Nat /\ Most \in Nat
    BY ConfigAssumption DEF ConfigAssumption
  <2>4. QED BY <2>1, <2>2, <2>3
<1>5. Most <= Count(n, x) + Overlap
  <2>1. WordsIn(n, z) \in SUBSET (WordsIn(n, x) \cup WordsIn(m, z))
    <3>1. ASSUME NEW p \in n .. z, p \notin n .. x PROVE p \in m .. z /\ p # n
      BY <1>2, <1>3, <3>1
    <3>2. QED BY <3>1 DEF WordsIn
  <2>2. /\ IsFiniteSet(WordsIn(n, x) \cup WordsIn(m, z))
        /\ Cardinality(WordsIn(n, x) \cup WordsIn(m, z))
             = Count(n, x) + Count(m, z) - Cardinality(WordsIn(n, x) \cap WordsIn(m, z))
    BY <1>4, FS_Union DEF Count
  <2>3. Cardinality(WordsIn(n, x) \cap WordsIn(m, z)) \in Nat
    <3>1. WordsIn(n, x) \cap WordsIn(m, z) \in SUBSET WordsIn(n, x)
      OBVIOUS
    <3>2. QED BY <1>4, <3>1, FS_Subset, FS_CardinalityType
  <2>4. Cardinality(WordsIn(n, z)) <= Cardinality(WordsIn(n, x) \cup WordsIn(m, z))
    BY <2>1, <2>2, FS_Subset
  <2>5. Count(n, z) = Cardinality(WordsIn(n, z))
    BY DEF Count
  <2>6. QED BY <1>4, <2>2, <2>3, <2>4, <2>5
<1>6. Count(n, x) + 1 <= Overlap
  <2>1. m \notin WordsIn(n, x) /\ WordsIn(n, x) \cup {m} \in SUBSET WordsIn(n, h)
    <3>1. m \in WordsIn(n, h)
      BY <1>1 DEF WordsIn
    <3>2. WordsIn(n, x) \subseteq WordsIn(n, h)
      BY <1>3 DEF WordsIn
    <3>3. m \notin WordsIn(n, x)
      BY <1>3 DEF WordsIn
    <3>4. QED BY <3>1, <3>2, <3>3
  <2>2. Cardinality(WordsIn(n, x) \cup {m}) = Count(n, x) + 1
    BY <1>4, <2>1, FS_AddElement DEF Count
  <2>3. Cardinality(WordsIn(n, x) \cup {m}) <= Count(n, h)
    BY <1>4, <2>1, FS_Subset DEF Count
  <2>4. QED BY <2>2, <2>3
<1>7. QED BY <1>4, <1>5, <1>6

\* What is left of a sentence follows the chunks.
CutOff(s, cs) ==
  /\ \E n, b \in 1 .. Len(text) : n <= b /\ s = Span(n, b) /\ ~IsSpace(n) /\ ~IsSpace(b)
  /\ \A k \in DOMAIN cs : k < Len(cs) => Apart(Ink(cs[k].at), Ink(s))
  /\ cs # <<>> => Below(Ink(cs[Len(cs)].at), Ink(s)) \/ Laps(cs[Len(cs)].at, s)

\* First the chunks, then the sentences collected or what is left of one over
\* the maximum, then the rest of the page.
Placed(rs, fo, cu, cs) ==
  /\ InOrder(cs)
  /\ rs # <<>> => \E a, b \in 1 .. Len(text) : a <= b /\ rs = Span(a, b)
  /\ cu # <<>> => Ink(cu) # {}
  /\ Below(Ink(cu), Ink(rs)) /\ Below(Ink(fo), Ink(rs))
  /\ \A k \in DOMAIN cs : Below(Ink(cs[k].at), Ink(cu)) /\ Below(Ink(cs[k].at), Ink(rs))
  /\ fo # <<>> => cu = <<>> /\ CutOff(fo, cs)

WordInv ==
  /\ tokenRunes \in Nat
  /\ tokenRunes > Len(text) /\ Overlap > 0 => Placed(rest, forced, current, chunks)

LEMMA ChunkAdded ==
  ASSUME NEW cs \in Seq(ChunkRow), NEW n \in 1 .. 2, NEW d \in Piece
  PROVE  LET more == Append(cs, [page |-> n, at |-> d])
         IN /\ more \in Seq(ChunkRow) /\ more # <<>>
            /\ Len(cs) \in Nat /\ DOMAIN cs = 1 .. Len(cs)
            /\ Len(more) = Len(cs) + 1 /\ DOMAIN more = 1 .. Len(cs) + 1
            /\ more[Len(cs) + 1].at = d
            /\ \A k \in 1 .. Len(cs) : more[k] = cs[k]
<1>1. PICK r, more : r = [page |-> n, at |-> d] /\ more = Append(cs, r)
  OBVIOUS
<1>2. r \in ChunkRow /\ r.at = d
  BY <1>1 DEF ChunkRow
<1>3. Len(cs) \in Nat /\ DOMAIN cs = 1 .. Len(cs)
  BY LenProperties
<1>4. /\ more \in Seq(ChunkRow) /\ Len(more) = Len(cs) + 1 /\ more[Len(cs) + 1] = r
      /\ \A k \in 1 .. Len(cs) : more[k] = cs[k]
  BY <1>1, <1>2, AppendProperties
<1>5. DOMAIN more = 1 .. Len(cs) + 1 /\ more # <<>>
  BY <1>3, <1>4, LenProperties, EmptySeq
<1>6. QED BY <1>1, <1>2, <1>3, <1>4, <1>5

\* What a window leaves of a sentence laps over the window.
LEMMA WindowCuts ==
  ASSUME WordCounter, Overlap > 0,
         NEW n \in 1 .. Len(text), NEW b \in 1 .. Len(text), n <= b, ~IsSpace(n), ~IsSpace(b),
         BoundedEnd(Span(n, b)) # 0
  PROVE  LET s == Span(n, b)
             end == WindowEnd(s)
         IN /\ end \in 1 .. b - n + 1
            /\ \E h \in n .. b :
                 /\ First(s, end) = Span(n, h) /\ ~IsSpace(h)
                 /\ end >= b - n + 1 => h = b
                 /\ end < b - n + 1 =>
                      /\ h < b /\ Count(n, h) = Most /\ Tokens(Span(n, h)) = Most
                      /\ \E m \in n + 1 .. h :
                           /\ After(s, NextStart(s, end) - 1) = Span(m, b)
                           /\ ~IsSpace(m) /\ IsSpace(m - 1) /\ Count(m, h) = Overlap
<1>1. PICK s, end : s = Span(n, b) /\ end = WindowEnd(s)
  OBVIOUS
<1>2. /\ Len(text) \in Nat /\ n \in Nat /\ n > 0 /\ b \in Nat /\ b <= Len(text) /\ n <= b + 1
  BY DEF WordCounter
<1>3. /\ end \in 1 .. b - n + 1
      /\ end < b - n + 1 => Count(n, n + end - 1) = Most
  BY <1>1, <1>2, WindowWords
<1>4. PICK z : z = n + end - 1
  OBVIOUS
<1>5. z \in Nat /\ n <= z /\ z <= b /\ (end < b - n + 1 <=> z < b) /\ (end >= b - n + 1 <=> z = b)
  BY <1>2, <1>3, <1>4
<1>6. PICK h \in n .. z : /\ First(s, end) = Span(n, h) /\ ~IsSpace(h)
                          /\ \A p \in h + 1 .. z : IsSpace(p)
  BY <1>1, <1>2, <1>3, <1>4, SpanFirst
<1>7. h \in n .. b /\ h \in Nat /\ h <= z
  BY <1>2, <1>5, <1>6
<1>8. ASSUME end >= b - n + 1 PROVE h = b
  <2>1. z = b
    BY <1>5, <1>8
  <2>2. b \notin h + 1 .. z
    BY <1>6
  <2>3. QED BY <1>2, <1>7, <2>1, <2>2
<1>9. ASSUME end < b - n + 1
      PROVE  /\ h < b /\ Count(n, h) = Most /\ Tokens(Span(n, h)) = Most
             /\ \E m \in n + 1 .. h :
                  /\ After(s, NextStart(s, end) - 1) = Span(m, b)
                  /\ ~IsSpace(m) /\ IsSpace(m - 1) /\ Count(m, h) = Overlap
  <2>1. z < b /\ h < b
    BY <1>2, <1>5, <1>7, <1>9
  <2>2. Count(n, z) = Count(n, h)
    BY <1>2, <1>5, <1>6, <1>7, WordsTrail
  <2>3. Count(n, z) = Most
    BY <1>3, <1>4, <1>9
  <2>4. Tokens(Span(n, h)) = Count(n, h)
    <3>1. n <= h + 1 /\ h <= Len(text)
      BY <1>2, <1>7
    <3>2. QED BY <1>2, <1>7, <3>1, SpanTokens DEF Count
  <2>5. Most > Overlap
    BY ConfigAssumption DEF ConfigAssumption
  <2>6. PICK w \in 2 .. end : /\ NextStart(s, end) = w
                              /\ ~IsSpace(n + w - 1) /\ IsSpace(n + w - 1 - 1)
                              /\ Count(n + w - 1, n + end - 1) = Overlap
    <3>1. Count(n, n + end - 1) > Overlap
      BY <1>4, <2>3, <2>5
    <3>2. QED BY <1>1, <1>2, <1>3, <3>1, OverlapWords
  <2>7. PICK m : m = n + w - 1
    OBVIOUS
  <2>8. m \in Nat /\ m > n /\ m <= z /\ ~IsSpace(m) /\ IsSpace(m - 1) /\ Count(m, z) = Overlap
    <3>1. w \in Nat /\ w >= 2 /\ w <= end
      BY <2>6
    <3>2. m \in Nat /\ m > n /\ m <= z
      BY <1>2, <1>3, <1>4, <2>7, <3>1
    <3>3. QED BY <1>4, <2>6, <2>7, <3>2
  <2>9. m <= h
    <3>1. m \notin h + 1 .. z
      BY <1>6, <2>8
    <3>2. QED BY <1>7, <2>8, <3>1
  <2>10. Count(m, h) = Overlap
    <3>1. Count(m, z) = Count(m, h)
      BY <1>5, <1>6, <1>7, <2>8, WordsTrail
    <3>2. QED BY <2>8, <3>1
  <2>11. After(s, w - 1) = Span(m, b)
    <3>1. Len(s) = b - n + 1
      BY <1>1, <1>2, SpanFacts
    <3>2. /\ n \in Nat /\ n > 0 /\ b \in Nat /\ n <= b + 1
          /\ w \in Nat /\ w > 0 /\ w <= b - n + 1 + 1
      BY <1>2, <1>3, <2>6
    <3>3. SubSeq(Span(n, b), w, b - n + 1) = Span(n + w - 1, b)
      BY <3>2, SpanSuffix
    <3>4. (w - 1) + 1 = w
      BY <3>2
    <3>5. QED BY <1>1, <2>7, <3>1, <3>3, <3>4 DEF After
  <2>12. m \in n + 1 .. h
    BY <1>2, <1>7, <2>8, <2>9
  <2>13. QED BY <2>1, <2>2, <2>3, <2>4, <2>6, <2>8, <2>10, <2>11, <2>12
<1>10. QED BY <1>1, <1>3, <1>6, <1>7, <1>8, <1>9

LEMMA SpanSame ==
  ASSUME NEW a \in Nat, a > 0, NEW b \in Nat, a <= b,
         NEW c \in Nat, c > 0, NEW d \in Nat, c <= d, Span(a, b) = Span(c, d)
  PROVE  a = c /\ b = d
<1>1. a <= b + 1 /\ c <= d + 1
  OBVIOUS
<1>2. a .. b = c .. d
  <2>1. Range(Span(a, b)) = a .. b /\ Range(Span(c, d)) = c .. d
    BY <1>1, SpanFacts
  <2>2. QED BY <2>1
<1>3. a \in c .. d /\ b \in c .. d /\ c \in a .. b /\ d \in a .. b
  <2>1. a \in a .. b /\ b \in a .. b /\ c \in c .. d /\ d \in c .. d
    OBVIOUS
  <2>2. QED BY <1>2, <2>1
<1>4. QED BY <1>3

\* The next window, Span(n, z), after the last chunk c.
LEMMA WindowFollows ==
  ASSUME WordCounter, NEW n \in 1 .. Len(text), NEW b \in 1 .. Len(text), n <= b,
         NEW z \in n .. b, ~IsSpace(n), ~IsSpace(z), z = b \/ Count(n, z) = Most,
         NEW c \in Piece, Ink(c) # {},
         Below(Ink(c), Ink(Span(n, b))) \/ Laps(c, Span(n, b))
  PROVE  /\ Follows(c, Span(n, z))
         /\ \A m \in n + 1 .. z :
              Count(n, z) = Most /\ ~IsSpace(m) /\ IsSpace(m - 1) /\ Count(m, z) = Overlap
                => Apart(Ink(c), Ink(Span(m, b)))
<1>1. /\ Len(text) \in Nat /\ n \in Nat /\ n > 0 /\ b \in Nat /\ b > 0 /\ b <= Len(text)
      /\ z \in Nat /\ n <= z /\ z <= b /\ n <= b + 1 /\ n <= z + 1
  BY DEF WordCounter
<1>2. /\ Ink(Span(n, b)) = {p \in n .. b : ~IsSpace(p)}
      /\ Ink(Span(n, z)) = {p \in n .. z : ~IsSpace(p)}
  BY <1>1, SpanInk
<1>3. ASSUME NEW m \in n + 1 .. z PROVE Ink(Span(m, b)) = {p \in m .. b : ~IsSpace(p)}
  <2>1. m \in Nat /\ m > 0 /\ m <= b + 1
    BY <1>1
  <2>2. QED BY <1>1, <2>1, SpanInk
<1>4. CASE Below(Ink(c), Ink(Span(n, b)))
  <2>1. Below(Ink(c), Ink(Span(n, z)))
    BY <1>1, <1>2, <1>4 DEF Below
  <2>2. Span(n, z) \in Piece /\ Ink(Span(n, z)) # {}
    <3>1. Span(n, z) \in Piece
      BY <1>1, SpanFacts
    <3>2. n \in Ink(Span(n, z))
      BY <1>1, <1>2
    <3>3. QED BY <3>1, <3>2
  <2>3. Follows(c, Span(n, z))
    BY <2>1, <2>2, BelowFollows
  <2>4. ASSUME NEW m \in n + 1 .. z PROVE Below(Ink(c), Ink(Span(m, b)))
    BY <1>1, <1>2, <1>3, <1>4 DEF Below
  <2>5. QED BY <2>3, <2>4 DEF Apart
<1>5. CASE Laps(c, Span(n, b))
  <2>1. PICK a, nn, h, bb \in 1 .. Len(text) :
          /\ c = Span(a, h) /\ Span(n, b) = Span(nn, bb)
          /\ a < nn /\ nn <= h /\ h < bb /\ ~IsSpace(a) /\ ~IsSpace(h)
          /\ Count(nn, h) = Overlap /\ Tokens(c) = Most
    BY <1>5 DEF Laps
  <2>2. /\ a \in Nat /\ a > 0 /\ nn \in Nat /\ nn > 0 /\ h \in Nat /\ bb \in Nat /\ nn <= bb
    BY <1>1, <2>1
  <2>3. nn = n /\ bb = b
    BY <1>1, <2>1, <2>2, SpanSame
  <2>4. Overlap < Most /\ Overlap \in Nat /\ Most \in Nat
    BY ConfigAssumption DEF ConfigAssumption
  <2>5. h < z
    <3>1. SUFFICES ASSUME z <= h PROVE FALSE
      BY <1>1, <2>2
    <3>2. z # b
      BY <1>1, <2>1, <2>2, <2>3, <3>1
    <3>3. Count(n, z) <= Count(n, h)
      BY <1>1, <2>2, <3>1, WordsGrow
    <3>4. QED BY <2>1, <2>3, <2>4, <3>2, <3>3
  <2>6. Follows(c, Span(n, z))
    <3>1. z \in 1 .. Len(text) /\ a < n /\ n <= h
      BY <1>1, <2>1, <2>3
    <3>2. Count(n, h) = Overlap /\ Tokens(Span(a, h)) = Most
      BY <2>1, <2>3
    <3>3. Follows(Span(a, h), Span(n, z))
      BY <2>1, <2>5, <3>1, <3>2, LapFollows
    <3>4. QED BY <2>1, <3>3
  <2>7. ASSUME NEW m \in n + 1 .. z,
               Count(n, z) = Most, ~IsSpace(m), IsSpace(m - 1), Count(m, z) = Overlap,
               2 * Overlap <= Most
        PROVE  Below(Ink(c), Ink(Span(m, b)))
    <3>1. m \in Nat /\ n < m /\ m <= z
      BY <1>1
    <3>2. Count(n, h) = Overlap
      BY <2>1, <2>3
    <3>3. h < m
      BY <1>1, <2>2, <2>7, <3>1, <3>2, OverlapPasses
    <3>4. Ink(c) = {p \in a .. h : ~IsSpace(p)}
      <4>1. a <= h + 1
        BY <2>1, <2>2, <2>3
      <4>2. QED BY <2>1, <2>2, <4>1, SpanInk
    <3>5. Ink(Span(m, b)) = {p \in m .. b : ~IsSpace(p)}
      BY <1>3
    <3>6. ASSUME NEW p \in a .. h, NEW q \in m .. b PROVE p < q
      BY <1>1, <2>2, <3>1, <3>3
    <3>7. QED BY <3>4, <3>5, <3>6 DEF Below
  <2>8. QED BY <2>6, <2>7 DEF Apart
<1>6. QED BY <1>4, <1>5

LEMMA WindowPlaces ==
  ASSUME WordCounter, Overlap > 0, ChunkInv, Placed(rest, forced, current, chunks), Window
  PROVE  Placed(rest', forced', current', chunks')
<1>1. /\ forced # <<>> /\ BoundedEnd(forced) # 0 /\ page \in 1 .. 2 /\ forced \in Piece
      /\ chunks \in Seq(ChunkRow) /\ rest' = rest /\ current' = current
  BY DEF ChunkInv, Whole, ChunksOK, Window
<1>2. /\ current = <<>> /\ CutOff(forced, chunks) /\ InOrder(chunks) /\ Ink(current) = {}
      /\ rest # <<>> => \E a, b \in 1 .. Len(text) : a <= b /\ rest = Span(a, b)
      /\ Below(Ink(forced), Ink(rest))
      /\ \A k \in DOMAIN chunks : Below(Ink(chunks[k].at), Ink(rest))
  BY <1>1, InkOfNothing DEF Placed
<1>3. PICK n, b \in 1 .. Len(text) : n <= b /\ forced = Span(n, b) /\ ~IsSpace(n) /\ ~IsSpace(b)
  BY <1>2 DEF CutOff
<1>4. PICK end : end = WindowEnd(forced)
  OBVIOUS
<1>5. PICK h \in n .. b :
        /\ First(forced, end) = Span(n, h) /\ ~IsSpace(h)
        /\ end >= b - n + 1 => h = b
        /\ end < b - n + 1 =>
             /\ h < b /\ Count(n, h) = Most /\ Tokens(Span(n, h)) = Most
             /\ \E m \in n + 1 .. h :
                  /\ After(forced, NextStart(forced, end) - 1) = Span(m, b)
                  /\ ~IsSpace(m) /\ IsSpace(m - 1) /\ Count(m, h) = Overlap
  BY <1>1, <1>3, <1>4, WindowCuts
<1>6. /\ Len(text) \in Nat /\ n \in Nat /\ n > 0 /\ b \in Nat /\ b <= Len(text)
      /\ h \in Nat /\ n <= h /\ h <= b /\ n <= b + 1 /\ n <= h + 1 /\ end \in Int
  <2>1. end \in 1 .. b - n + 1
    BY <1>1, <1>3, <1>4, WindowCuts
  <2>2. QED BY <1>3, <1>5, <2>1 DEF WordCounter
<1>7. Len(forced) = b - n + 1
  BY <1>3, <1>6, SpanFacts
<1>8. h = b \/ Count(n, h) = Most
  BY <1>5, <1>6
<1>9. PICK d : d = Span(n, h)
  OBVIOUS
<1>10. d \in Piece /\ d # <<>> /\ Ink(d) # {} /\ Ink(d) \subseteq Ink(forced) /\ First(forced, end) = d
  <2>1. d \in Piece /\ Len(d) = h - n + 1
    BY <1>6, <1>9, SpanFacts
  <2>2. d # <<>>
    BY <1>6, <2>1, PieceFacts
  <2>3. Ink(d) = {p \in n .. h : ~IsSpace(p)} /\ Ink(forced) = {p \in n .. b : ~IsSpace(p)}
    BY <1>3, <1>6, <1>9, SpanInk
  <2>4. QED BY <1>3, <1>5, <1>6, <1>9, <2>1, <2>2, <2>3
<1>11. PICK cs, l : cs = Append(chunks, [page |-> page, at |-> d]) /\ l = Len(chunks)
  OBVIOUS
<1>12. chunks' = cs
  BY <1>4, <1>10, <1>11 DEF Window
<1>13. /\ cs # <<>> /\ l \in Nat /\ DOMAIN chunks = 1 .. l /\ Len(cs) = l + 1
       /\ DOMAIN cs = 1 .. l + 1 /\ cs[l + 1].at = d /\ \A k \in 1 .. l : cs[k] = chunks[k]
  BY <1>1, <1>10, <1>11, ChunkAdded
<1>14. ASSUME chunks # <<>>
       PROVE  /\ l \in 1 .. l /\ Follows(chunks[l].at, d)
              /\ \A m \in n + 1 .. h :
                   Count(n, h) = Most /\ ~IsSpace(m) /\ IsSpace(m - 1) /\ Count(m, h) = Overlap
                     => Apart(Ink(chunks[l].at), Ink(Span(m, b)))
  <2>1. l \in 1 .. l
    BY <1>1, <1>11, <1>13, <1>14, EmptySeq
  <2>2. PICK c : c = chunks[l].at
    OBVIOUS
  <2>3. c \in Piece /\ Ink(c) # {}
    BY <1>1, <1>2, <1>13, <2>1, <2>2, ChunkFacts DEF InOrder
  <2>4. Below(Ink(c), Ink(Span(n, b))) \/ Laps(c, Span(n, b))
    BY <1>2, <1>3, <1>11, <1>14, <2>2 DEF CutOff
  <2>5. QED BY <1>3, <1>5, <1>8, <1>9, <2>1, <2>2, <2>3, <2>4, WindowFollows
<1>15. ASSUME NEW k \in 1 .. l, k < l PROVE Apart(Ink(chunks[k].at), Ink(forced))
  BY <1>2, <1>11, <1>13, <1>15 DEF CutOff
<1>16. InOrder(cs)
  <2>1. ASSUME NEW k \in 1 .. l, k < l PROVE Apart(Ink(chunks[k].at), Ink(d))
    BY <1>10, <1>15, <2>1 DEF Apart, Below
  <2>2. QED BY <1>1, <1>2, <1>10, <1>11, <1>13, <1>14, <2>1, OrderAppended
<1>17. ASSUME NEW k \in 1 .. l + 1
       PROVE  Below(Ink(cs[k].at), Ink(current)) /\ Below(Ink(cs[k].at), Ink(rest))
  <2>1. CASE k \in 1 .. l
    BY <1>2, <1>13, <2>1 DEF Below
  <2>2. CASE k = l + 1
    BY <1>2, <1>10, <1>13, <2>2 DEF Below
  <2>3. QED BY <1>13, <2>1, <2>2
<1>18. Below(Ink(current), Ink(rest))
  BY <1>2 DEF Below
<1>19. CASE end >= b - n + 1
  <2>1. forced' = <<>> /\ Ink(<<>>) = {}
    BY <1>4, <1>7, <1>19, InkOfNothing DEF Window
  <2>2. Below(Ink(<<>>), Ink(rest))
    BY <2>1 DEF Below
  <2>3. Placed(rest, <<>>, current, cs)
    BY <1>2, <1>13, <1>16, <1>17, <1>18, <2>2 DEF Placed
  <2>4. QED BY <1>1, <1>12, <2>1, <2>3
<1>20. CASE end < b - n + 1
  <2>1. PICK m \in n + 1 .. h :
          /\ After(forced, NextStart(forced, end) - 1) = Span(m, b)
          /\ ~IsSpace(m) /\ IsSpace(m - 1) /\ Count(m, h) = Overlap
    BY <1>5, <1>20
  <2>2. PICK fo : fo = Span(m, b)
    OBVIOUS
  <2>3. forced' = fo
    <3>1. ~(end >= b - n + 1)
      BY <1>6, <1>20
    <3>2. QED BY <1>4, <1>7, <2>1, <2>2, <3>1 DEF Window
  <2>4. m \in 1 .. Len(text) /\ m \in Nat /\ m > 0 /\ n < m /\ m <= h /\ m <= b /\ m <= b + 1
    BY <1>6, <2>1
  <2>5. Ink(fo) \subseteq Ink(forced)
    <3>1. Ink(fo) = {p \in m .. b : ~IsSpace(p)} /\ Ink(forced) = {p \in n .. b : ~IsSpace(p)}
      BY <1>3, <1>6, <2>2, <2>4, SpanInk
    <3>2. QED BY <1>6, <2>4, <3>1
  <2>6. ASSUME NEW k \in 1 .. l + 1, k < l + 1 PROVE Apart(Ink(cs[k].at), Ink(fo))
    <3>1. k \in 1 .. l /\ cs[k] = chunks[k]
      BY <1>13, <2>6
    <3>2. CASE k < l
      BY <1>15, <2>5, <3>1, <3>2 DEF Apart, Below
    <3>3. CASE k = l
      <4>1. chunks # <<>>
        BY <1>1, <1>11, <1>13, <3>1, EmptySeq
      <4>2. Count(n, h) = Most
        BY <1>5, <1>20
      <4>3. Apart(Ink(chunks[l].at), Ink(Span(m, b)))
        BY <1>14, <2>1, <4>1, <4>2
      <4>4. QED BY <2>2, <3>1, <3>3, <4>3
    <3>4. QED BY <1>13, <3>1, <3>2, <3>3
  <2>7. Laps(d, fo)
    <3>1. /\ n \in 1 .. Len(text) /\ h \in 1 .. Len(text) /\ b \in 1 .. Len(text)
          /\ h < b /\ Tokens(d) = Most
      BY <1>5, <1>6, <1>9, <1>20
    <3>2. QED BY <1>3, <1>5, <1>9, <2>1, <2>2, <2>4, <3>1 DEF Laps
  <2>8. CutOff(fo, cs)
    <3>1. \E x, y \in 1 .. Len(text) : x <= y /\ fo = Span(x, y) /\ ~IsSpace(x) /\ ~IsSpace(y)
      BY <1>3, <2>1, <2>2, <2>4
    <3>2. QED BY <1>13, <2>6, <2>7, <3>1 DEF CutOff
  <2>9. Below(Ink(fo), Ink(rest))
    BY <1>2, <2>5 DEF Below
  <2>10. Placed(rest, fo, current, cs)
    BY <1>2, <1>13, <1>16, <1>17, <1>18, <2>8, <2>9 DEF Placed
  <2>11. QED BY <1>1, <1>12, <2>3, <2>10
<1>21. QED BY <1>6, <1>19, <1>20

LEMMA SentencePlaced ==
  ASSUME Len(text) \in Nat, rest \in Piece, rest # <<>>,
         NEW a \in 1 .. Len(text), NEW b \in 1 .. Len(text), a <= b, rest = Span(a, b)
  PROVE  LET s == First(rest, SentenceEnd)
             left == After(rest, SentenceEnd)
         IN /\ s # <<>> =>
                 /\ \E n, h \in 1 .. Len(text) : n <= h /\ s = Span(n, h) /\ ~IsSpace(n) /\ ~IsSpace(h)
                 /\ Ink(s) # {}
            /\ left # <<>> => \E x, y \in 1 .. Len(text) : x <= y /\ left = Span(x, y)
            /\ Below(Ink(s), Ink(left))
<1>1. PICK e, l : e = SentenceEnd /\ l = b - a + 1
  OBVIOUS
<1>2. /\ a \in Nat /\ a > 0 /\ b \in Nat /\ b <= Len(text) /\ a <= b + 1 /\ l \in Nat
  BY <1>1
<1>3. Len(rest) = l
  BY <1>1, <1>2, SpanFacts
<1>4. e \in Nat /\ e > 0 /\ e <= l /\ e + 1 \in Nat /\ e + 1 > 0 /\ e + 1 <= l + 1
  <2>1. e \in 1 .. Len(rest)
    BY <1>1, SentenceEndOf
  <2>2. QED BY <1>2, <1>3, <2>1
<1>5. PICK z : z = a + e - 1
  OBVIOUS
<1>6. z \in Nat /\ a <= z /\ z <= b /\ a <= z + 1 /\ z + 1 \in Nat /\ z + 1 > 0 /\ z + 1 <= b + 1
  BY <1>1, <1>2, <1>4, <1>5
<1>7. First(rest, e) = Trim(Span(a, z))
  <2>1. a \in Nat /\ a > 0 /\ b \in Nat /\ a <= b + 1 /\ e \in Nat /\ e <= b - a + 1
    BY <1>1, <1>2, <1>4
  <2>2. SubSeq(Span(a, b), 1, e) = Span(a, a + e - 1)
    BY <2>1, SpanPrefix
  <2>3. QED BY <1>5, <2>2 DEF First
<1>8. After(rest, e) = Span(z + 1, b)
  <2>1. PICK m : m = e + 1
    OBVIOUS
  <2>2. /\ a \in Nat /\ a > 0 /\ b \in Nat /\ a <= b + 1
        /\ m \in Nat /\ m > 0 /\ m <= b - a + 1 + 1
    BY <1>1, <1>2, <1>4, <2>1
  <2>3. SubSeq(Span(a, b), m, b - a + 1) = Span(a + m - 1, b)
    BY <2>2, SpanSuffix
  <2>4. a + m - 1 = z + 1
    BY <1>2, <1>4, <1>5, <2>1
  <2>5. QED BY <1>1, <1>3, <2>1, <2>3, <2>4 DEF After
<1>9. PICK s, left : s = First(rest, e) /\ left = After(rest, e)
  OBVIOUS
<1>10. Ink(s) = {p \in a .. z : ~IsSpace(p)} /\ Ink(left) = {p \in z + 1 .. b : ~IsSpace(p)}
  <2>1. Span(a, z) \in Piece
    BY <1>2, <1>6, SpanFacts
  <2>2. Ink(s) = Ink(Span(a, z))
    BY <1>7, <1>9, <2>1, TrimOf
  <2>3. Ink(Span(a, z)) = {p \in a .. z : ~IsSpace(p)}
    BY <1>2, <1>6, SpanInk
  <2>4. PICK x : x = z + 1
    OBVIOUS
  <2>5. x \in Nat /\ x > 0 /\ x <= b + 1 /\ left = Span(x, b)
    BY <1>6, <1>8, <1>9, <2>4
  <2>6. Ink(left) = {p \in x .. b : ~IsSpace(p)}
    BY <1>2, <2>5, SpanInk
  <2>7. QED BY <2>2, <2>3, <2>4, <2>6
<1>11. Below(Ink(s), Ink(left))
  <2>1. ASSUME NEW p \in a .. z, NEW q \in z + 1 .. b PROVE p < q
    BY <1>2, <1>6
  <2>2. QED BY <1>10, <2>1 DEF Below
<1>12. ASSUME s # <<>>
       PROVE  /\ \E n, h \in 1 .. Len(text) : n <= h /\ s = Span(n, h) /\ ~IsSpace(n) /\ ~IsSpace(h)
              /\ Ink(s) # {}
  <2>1. PICK n, h \in a .. z : n <= h /\ s = Span(n, h) /\ ~IsSpace(n) /\ ~IsSpace(h)
    BY <1>2, <1>6, <1>7, <1>9, <1>12, SpanTrim
  <2>2. n \in 1 .. Len(text) /\ h \in 1 .. Len(text)
    BY <1>2, <1>6
  <2>3. n \in Ink(s)
    BY <1>10, <2>1
  <2>4. QED BY <2>1, <2>2, <2>3
<1>13. ASSUME left # <<>> PROVE \E x, y \in 1 .. Len(text) : x <= y /\ left = Span(x, y)
  <2>1. PICK x : x = z + 1
    OBVIOUS
  <2>2. x \in Nat /\ x > 0 /\ x <= b + 1 /\ left = Span(x, b)
    BY <1>6, <1>8, <1>9, <2>1
  <2>3. left \in Piece /\ Len(left) = b - x + 1
    BY <1>2, <2>2, SpanFacts
  <2>4. x <= b
    <3>1. Len(left) # 0
      BY <1>13, <2>3, PieceFacts
    <3>2. QED BY <1>2, <2>2, <2>3, <3>1
  <2>5. x \in 1 .. Len(text)
    BY <1>2, <2>2, <2>4
  <2>6. QED BY <2>2, <2>4, <2>5
<1>14. QED BY <1>1, <1>9, <1>11, <1>12, <1>13

LEMMA FlushPlaces ==
  ASSUME ChunkInv, Placed(rest, forced, current, chunks), page \in 1 .. 2
  PROVE  /\ Flushed \in Seq(ChunkRow) /\ InOrder(Flushed)
         /\ \A k \in DOMAIN Flushed : Below(Ink(Flushed[k].at), Ink(rest))
<1>1. chunks \in Seq(ChunkRow) /\ current \in Piece
  BY DEF ChunkInv, Whole, ChunksOK
<1>2. /\ InOrder(chunks) /\ (current # <<>> => Ink(current) # {}) /\ Below(Ink(current), Ink(rest))
      /\ \A k \in DOMAIN chunks :
           Below(Ink(chunks[k].at), Ink(current)) /\ Below(Ink(chunks[k].at), Ink(rest))
  BY DEF Placed
<1>3. CASE current = <<>>
  <2>1. Flushed = chunks
    BY <1>3 DEF Flushed
  <2>2. QED BY <1>1, <1>2, <2>1
<1>4. CASE current # <<>>
  <2>1. PICK cs, l : cs = Append(chunks, [page |-> page, at |-> current]) /\ l = Len(chunks)
    OBVIOUS
  <2>2. Flushed = cs
    BY <1>4, <2>1 DEF Flushed
  <2>3. /\ cs \in Seq(ChunkRow) /\ l \in Nat /\ DOMAIN chunks = 1 .. l
        /\ DOMAIN cs = 1 .. l + 1 /\ cs[l + 1].at = current /\ \A k \in 1 .. l : cs[k] = chunks[k]
    BY <1>1, <2>1, ChunkAdded
  <2>4. ASSUME chunks # <<>> PROVE Follows(chunks[l].at, current)
    <3>1. l \in 1 .. l
      BY <1>1, <2>1, <2>3, <2>4, EmptySeq
    <3>2. chunks[l].at \in Piece /\ Ink(chunks[l].at) # {}
      BY <1>1, <1>2, <2>3, <3>1, ChunkFacts DEF InOrder
    <3>3. Below(Ink(chunks[l].at), Ink(current))
      BY <1>2, <2>3, <3>1
    <3>4. QED BY <1>1, <1>2, <1>4, <3>2, <3>3, BelowFollows
  <2>5. \A k \in DOMAIN chunks : Apart(Ink(chunks[k].at), Ink(current))
    BY <1>2 DEF Apart
  <2>6. InOrder(cs)
    BY <1>1, <1>2, <1>4, <2>1, <2>4, <2>5, OrderAppended
  <2>7. ASSUME NEW k \in 1 .. l + 1 PROVE Below(Ink(cs[k].at), Ink(rest))
    <3>1. CASE k \in 1 .. l
      BY <1>2, <2>3, <3>1
    <3>2. CASE k = l + 1
      BY <1>2, <2>3, <3>2
    <3>3. QED BY <2>3, <3>1, <3>2
  <2>8. QED BY <2>2, <2>3, <2>6, <2>7
<1>5. QED BY <1>3, <1>4

LEMMA SentencesPlace ==
  ASSUME ChunkInv, Placed(rest, forced, current, chunks), BlankSentence \/ LongSentence \/ Collect
  PROVE  Placed(rest', forced', current', chunks')
<1>1. PICK s, rs, cs : s = First(rest, SentenceEnd) /\ rs = After(rest, SentenceEnd) /\ cs = Flushed
  OBVIOUS
<1>2. /\ rest # <<>> /\ forced = <<>> /\ rest' = rs /\ Len(text) \in Nat
      /\ page \in 1 .. 2 /\ rest \in Piece /\ current \in Piece /\ chunks \in Seq(ChunkRow)
  BY <1>1 DEF BlankSentence, LongSentence, Collect, TakeSentence, ChunkInv, Whole, ChunksOK
<1>3. /\ InOrder(chunks) /\ (current # <<>> => Ink(current) # {}) /\ Below(Ink(current), Ink(rest))
      /\ \A k \in DOMAIN chunks :
           Below(Ink(chunks[k].at), Ink(current)) /\ Below(Ink(chunks[k].at), Ink(rest))
      /\ \E a, b \in 1 .. Len(text) : a <= b /\ rest = Span(a, b)
  BY <1>2 DEF Placed
<1>4. /\ s # <<>> =>
           /\ \E n, h \in 1 .. Len(text) : n <= h /\ s = Span(n, h) /\ ~IsSpace(n) /\ ~IsSpace(h)
           /\ Ink(s) # {}
      /\ rs # <<>> => \E x, y \in 1 .. Len(text) : x <= y /\ rs = Span(x, y)
      /\ Below(Ink(s), Ink(rs))
  BY <1>1, <1>2, <1>3, SentencePlaced
<1>5. s \in Piece /\ Ink(s) \subseteq Ink(rest) /\ Ink(rs) \subseteq Ink(rest)
  BY <1>1, <1>2, SentenceTaken
<1>6. /\ cs \in Seq(ChunkRow) /\ InOrder(cs)
      /\ \A k \in DOMAIN cs : Below(Ink(cs[k].at), Ink(s)) /\ Below(Ink(cs[k].at), Ink(rs))
  BY <1>1, <1>2, <1>5, FlushPlaces DEF Below
<1>7. /\ \A k \in DOMAIN chunks : /\ Below(Ink(chunks[k].at), Ink(s))
                                  /\ Below(Ink(chunks[k].at), Ink(rs))
      /\ Below(Ink(current), Ink(rs)) /\ Below(Ink(current), Ink(s))
  BY <1>3, <1>5 DEF Below
<1>8. Ink(<<>>) = {} /\ \A R : Below({}, R) /\ Below(R, {})
  BY InkOfNothing DEF Below
<1>9. CASE BlankSentence
  <2>1. forced' = <<>> /\ current' = current /\ chunks' = chunks
    BY <1>2, <1>9 DEF BlankSentence
  <2>2. Placed(rs, <<>>, current, chunks)
    BY <1>3, <1>4, <1>7, <1>8 DEF Placed
  <2>3. QED BY <1>2, <2>1, <2>2
<1>10. CASE LongSentence
  <2>1. forced' = s /\ current' = <<>> /\ chunks' = cs
    BY <1>1, <1>10 DEF LongSentence
  <2>2. ASSUME s # <<>> PROVE CutOff(s, cs)
    <3>1. \A k \in DOMAIN cs : Apart(Ink(cs[k].at), Ink(s))
      BY <1>6 DEF Apart
    <3>2. cs # <<>> => Len(cs) \in DOMAIN cs
      BY <1>6, LenProperties, EmptySeq
    <3>3. QED BY <1>4, <1>6, <2>2, <3>1, <3>2 DEF CutOff
  <2>3. Placed(rs, s, <<>>, cs)
    BY <1>4, <1>6, <1>8, <2>2 DEF Placed
  <2>4. QED BY <1>2, <2>1, <2>3
<1>11. CASE Collect
  <2>1. PICK candidate : candidate = IF current = <<>> THEN s ELSE Join(current, s)
    OBVIOUS
  <2>2. /\ s # <<>> /\ forced' = <<>>
        /\ \/ chunks' = cs /\ current' = s
           \/ chunks' = chunks /\ current' = candidate
    BY <1>1, <1>2, <1>11, <2>1 DEF Collect
  <2>3. Ink(candidate) = Ink(current) \cup Ink(s)
    <3>1. CASE current = <<>>
      BY <1>8, <2>1, <3>1
    <3>2. CASE current # <<>>
      BY <1>2, <1>5, <2>1, <3>2, InkOfJoin
    <3>3. QED BY <3>1, <3>2
  <2>4. Placed(rs, <<>>, s, cs)
    BY <1>4, <1>6, <1>8 DEF Placed
  <2>5. Placed(rs, <<>>, candidate, chunks)
    <3>1. Ink(candidate) # {}
      BY <1>4, <2>2, <2>3
    <3>2. Below(Ink(candidate), Ink(rs))
      BY <1>4, <1>7, <2>3 DEF Below
    <3>3. \A k \in DOMAIN chunks : Below(Ink(chunks[k].at), Ink(candidate))
      BY <1>3, <1>7, <2>3 DEF Below
    <3>4. QED BY <1>3, <1>4, <1>7, <1>8, <3>1, <3>2, <3>3 DEF Placed
  <2>6. QED BY <1>2, <2>2, <2>4, <2>5
<1>12. QED BY <1>9, <1>10, <1>11

LEMMA PageSpans ==
  ASSUME Len(text) \in Nat, cut \in 0 .. Len(text)
  PROVE  PageRunes(1) = Span(1, cut) /\ PageRunes(2) = Span(cut + 1, Len(text))
<1>1. PICK l : l = Len(text)
  OBVIOUS
<1>2. l \in Nat /\ cut \in Nat /\ cut <= l
  BY <1>1
<1>3. PageRunes(1) = Span(1, cut)
  <2>1. PageRunes(1) = [i \in 1 .. cut |-> i]
    BY DEF PageRunes
  <2>2. Span(1, cut) = [i \in 1 .. cut - 1 + 1 |-> 1 + i - 1]
    BY DEF Span
  <2>3. 1 .. cut - 1 + 1 = 1 .. cut /\ \A i \in 1 .. cut : 1 + i - 1 = i
    BY <1>2
  <2>4. QED BY <2>1, <2>2, <2>3
<1>4. PageRunes(2) = Span(cut + 1, l)
  <2>1. PICK x : x = cut + 1
    OBVIOUS
  <2>2. PageRunes(2) = [i \in 1 .. l - cut |-> cut + i]
    BY <1>1 DEF PageRunes
  <2>3. Span(x, l) = [i \in 1 .. l - x + 1 |-> x + i - 1]
    BY DEF Span
  <2>4. 1 .. l - x + 1 = 1 .. l - cut /\ \A i \in 1 .. l - cut : x + i - 1 = cut + i
    BY <1>2, <2>1
  <2>5. QED BY <2>1, <2>2, <2>3, <2>4
<1>5. QED BY <1>1, <1>3, <1>4

\* A page without the spaces around it.
LEMMA PageTrimmed ==
  ASSUME Len(text) \in Nat, cut \in 0 .. Len(text), NEW n \in 1 .. 2, Trim(PageRunes(n)) # <<>>
  PROVE  \E a, b \in 1 .. Len(text) : a <= b /\ Trim(PageRunes(n)) = Span(a, b)
<1>1. PICK x, y : x = (IF n = 1 THEN 1 ELSE cut + 1) /\ y = (IF n = 1 THEN cut ELSE Len(text))
  OBVIOUS
<1>2. x \in Nat /\ x > 0 /\ y \in Nat /\ y <= Len(text) /\ x <= y + 1
  BY <1>1
<1>3. PageRunes(n) = Span(x, y)
  <2>1. CASE n = 1
    BY <1>1, <2>1, PageSpans
  <2>2. CASE n = 2
    BY <1>1, <2>2, PageSpans
  <2>3. QED BY <2>1, <2>2
<1>4. PICK a, b \in x .. y : a <= b /\ Trim(Span(x, y)) = Span(a, b)
  BY <1>2, <1>3, SpanTrim
<1>5. a \in 1 .. Len(text) /\ b \in 1 .. Len(text)
  BY <1>2
<1>6. QED BY <1>3, <1>4, <1>5

LEMMA PagesApart ==
  ASSUME Len(text) \in Nat, cut \in 0 .. Len(text)
  PROVE  Below(Ink(PageRunes(1)), Ink(PageRunes(2)))
<1>1. PICK x, l : x = cut + 1 /\ l = Len(text)
  OBVIOUS
<1>2. x \in Nat /\ x > 0 /\ l \in Nat /\ x <= l + 1 /\ cut \in Nat /\ 1 <= cut + 1 /\ cut < x
  BY <1>1
<1>3. Ink(PageRunes(2)) = {p \in x .. l : ~IsSpace(p)}
  <2>1. PageRunes(2) = Span(x, l)
    BY <1>1, PageSpans
  <2>2. Ink(Span(x, l)) = {p \in x .. l : ~IsSpace(p)}
    BY <1>2, SpanInk
  <2>3. QED BY <2>1, <2>2
<1>4. Ink(PageRunes(1)) = {p \in 1 .. cut : ~IsSpace(p)}
  <2>1. PICK a : a = 1
    OBVIOUS
  <2>2. a \in Nat /\ a > 0 /\ a <= cut + 1
    BY <1>2, <2>1
  <2>3. Ink(Span(a, cut)) = {p \in a .. cut : ~IsSpace(p)}
    BY <1>2, <2>2, SpanInk
  <2>4. PageRunes(1) = Span(a, cut)
    BY <2>1, PageSpans
  <2>5. QED BY <2>1, <2>3, <2>4
<1>5. \A p \in 1 .. cut, q \in x .. l : p < q
  BY <1>2
<1>6. QED BY <1>3, <1>4, <1>5 DEF Below

LEMMA PageEndsPlaces ==
  ASSUME WordCounter, ChunkInv, Placed(rest, forced, current, chunks), PageEnds
  PROVE  Placed(rest', forced', current', chunks')
<1>1. /\ page \in 1 .. 2 /\ forced = <<>> /\ Len(text) \in Nat /\ cut \in 0 .. Len(text)
      /\ pageStart \in Nat
  BY DEF PageEnds, ChunkInv, Whole, ChunksOK
<1>2. PICK rs, cs : rs = (IF page = 1 THEN Trim(PageRunes(2)) ELSE <<>>) /\ cs = MergedTail(Flushed)
  OBVIOUS
<1>3. /\ page' = page + 1 /\ rest' = rs /\ forced' = <<>> /\ current' = <<>>
      /\ chunks' = cs
  BY <1>1, <1>2 DEF PageEnds
<1>4. InOrder(cs)
  BY <1>1, <1>2, FlushPlaces, OrderMerged
<1>5. ASSUME rs # <<>> PROVE \E a, b \in 1 .. Len(text) : a <= b /\ rs = Span(a, b)
  BY <1>1, <1>2, <1>5, PageTrimmed
<1>6. ASSUME NEW k \in DOMAIN cs PROVE Below(Ink(cs[k].at), Ink(rs))
  <2>1. CASE page = 1
    <3>1. Ink(rs) = Ink(PageRunes(2))
      BY <1>1, <1>2, <2>1, PageTyped, TrimOf
    <3>2. ChunksOK(cs, pageStart', 2) /\ Held(cs, 1) = Ink(PageRunes(1))
      <4>1. Whole(2, rs, <<>>, <<>>, pageStart', cs)
        BY <1>3, <2>1, PageEndsKeeps
      <4>2. QED BY <4>1 DEF Whole
    <3>3. cs[k].page = 1
      <4>1. ChunksOK(cs, pageStart, 1)
        <5>1. ChunksOK(chunks, pageStart, page) /\ current \in Piece /\ Tokens(current) <= Most
          BY DEF ChunkInv, Whole
        <5>2. ChunksOK(Flushed, pageStart, page)
          BY <1>1, <5>1, Flushes
        <5>3. QED BY <1>1, <1>2, <2>1, <5>2, Merges
      <4>2. cs[k].page < 1 \/ cs[k].page = 1
        BY <1>6, <4>1 DEF ChunksOK
      <4>3. cs[k].page \in 1 .. 2
        BY <1>6, <4>1, ChunkFacts DEF ChunksOK
      <4>4. QED BY <4>2, <4>3
    <3>4. Ink(cs[k].at) \subseteq Held(cs, 1)
      BY <1>6, <3>3 DEF Held
    <3>5. Below(Ink(PageRunes(1)), Ink(PageRunes(2)))
      BY <1>1, PagesApart
    <3>6. QED BY <3>1, <3>2, <3>4, <3>5 DEF Below
  <2>2. CASE page # 1
    BY <1>2, <2>2, InkOfNothing DEF Below
  <2>3. QED BY <2>1, <2>2
<1>7. Ink(<<>>) = {} /\ \A R : Below({}, R) /\ Below(R, {})
  BY InkOfNothing DEF Below
<1>8. Placed(rs, <<>>, <<>>, cs)
  BY <1>4, <1>5, <1>6, <1>7 DEF Placed
<1>9. QED BY <1>3, <1>8

LEMMA PlacedKept ==
  ASSUME given' = given, NEW rs, NEW fo, NEW cu, NEW cs, Placed(rs, fo, cu, cs)
  PROVE  Placed(rs, fo, cu, cs)'
<1>1. text' = text /\ tokenRunes' = tokenRunes
  BY DEF given
<1>2. \A p : IsSpace(p)' <=> IsSpace(p)
  BY <1>1 DEF IsSpace
<1>3. \A s : Ink(s)' = Ink(s)
  BY <1>2 DEF Ink
<1>4. \A s, i : WordStart(s, i)' = WordStart(s, i)
  BY <1>2 DEF WordStart
<1>5. \A s, i : BeginsToken(s, i)' <=> BeginsToken(s, i)
  BY <1>1, <1>2, <1>4 DEF BeginsToken
<1>6. \A s : Tokens(s)' = Tokens(s)
  BY <1>5 DEF Tokens
<1>7. \A a, b : Count(a, b)' = Count(a, b)
  BY <1>2 DEF Count, WordsIn
<1>8. \A c, d : Shared(c, d)' = Shared(c, d)
  BY <1>3, <1>5 DEF Shared
<1>9. \A c, d : Follows(c, d)' <=> Follows(c, d)
  BY <1>3, <1>6, <1>8 DEF Follows
<1>10. InOrder(cs)' <=> InOrder(cs)
  BY <1>3, <1>9 DEF InOrder
<1>11. \A c, s : Laps(c, s)' <=> Laps(c, s)
  BY <1>1, <1>2, <1>6, <1>7 DEF Laps
<1>12. CutOff(fo, cs)' <=> CutOff(fo, cs)
  BY <1>1, <1>2, <1>3, <1>11 DEF CutOff
<1>13. QED BY <1>1, <1>3, <1>10, <1>12 DEF Placed

LEMMA WordInvInit == ChunkInit => WordInv
<1>1. SUFFICES ASSUME ChunkInit PROVE WordInv
  OBVIOUS
<1>2. tokenRunes \in Nat
  BY <1>1, ConfigAssumption DEF ChunkInit, ConfigAssumption
<1>3. Len(text) \in Nat /\ cut \in 0 .. Len(text)
  BY <1>1, ChunkInvInit DEF ChunkInv, Whole
<1>4. rest = Trim(PageRunes(1)) /\ forced = <<>> /\ current = <<>> /\ chunks = <<>>
  BY <1>1 DEF ChunkInit
<1>5. ASSUME rest # <<>> PROVE \E a, b \in 1 .. Len(text) : a <= b /\ rest = Span(a, b)
  BY <1>3, <1>4, <1>5, PageTrimmed
<1>6. DOMAIN <<>> = {} /\ InOrder(<<>>)
  <2>1. DOMAIN <<>> = {}
    OBVIOUS
  <2>2. QED BY <2>1 DEF InOrder
<1>7. Ink(<<>>) = {} /\ \A R : Below({}, R)
  BY InkOfNothing DEF Below
<1>8. Placed(rest, <<>>, <<>>, <<>>)
  BY <1>5, <1>6, <1>7 DEF Placed
<1>9. QED BY <1>2, <1>4, <1>8 DEF WordInv

LEMMA WordInvNext == ChunkInv /\ WordInv /\ [ChunkNext]_chunkVars => WordInv'
<1>1. SUFFICES ASSUME ChunkInv, WordInv, [ChunkNext]_chunkVars PROVE WordInv'
  OBVIOUS
<1>2. given' = given
  BY <1>1 DEF ChunkNext, Window, BlankSentence, LongSentence, Collect, TakeSentence, PageEnds,
              chunkVars
<1>3. text' = text /\ tokenRunes' = tokenRunes
  BY <1>2 DEF given
<1>4. tokenRunes' \in Nat
  BY <1>1, <1>3 DEF WordInv
<1>5. ASSUME tokenRunes > Len(text), Overlap > 0 PROVE Placed(rest, forced, current, chunks)'
  <2>1. WordCounter /\ Placed(rest, forced, current, chunks)
    BY <1>1, <1>5 DEF WordInv, WordCounter, ChunkInv, Whole
  <2>2. Placed(rest', forced', current', chunks')
    <3>1. CASE Window
      BY <1>1, <1>5, <2>1, <3>1, WindowPlaces
    <3>2. CASE BlankSentence \/ LongSentence \/ Collect
      BY <1>1, <2>1, <3>2, SentencesPlace
    <3>3. CASE PageEnds
      BY <1>1, <2>1, <3>3, PageEndsPlaces
    <3>4. CASE UNCHANGED chunkVars
      BY <2>1, <3>4 DEF chunkVars
    <3>5. QED BY <1>1, <3>1, <3>2, <3>3, <3>4 DEF ChunkNext
  <2>3. PICK rs, fo, cu, cs : rs = rest' /\ fo = forced' /\ cu = current' /\ cs = chunks'
    OBVIOUS
  <2>4. Placed(rs, fo, cu, cs)
    BY <2>2, <2>3
  <2>5. Placed(rs, fo, cu, cs)'
    BY <1>2, <2>4, PlacedKept
  <2>6. QED BY <2>3, <2>5
<1>6. QED BY <1>3, <1>4, <1>5 DEF WordInv

LEMMA WordInvGoesForward == ChunkInv /\ WordInv => WindowsGoForward
<1>1. SUFFICES ASSUME ChunkInv, WordInv, tokenRunes > Len(text), Overlap > 0
               PROVE  ChunksInOrder /\ EveryChunkAddsText /\ OverlapIsConfigured
  BY DEF WindowsGoForward
<1>2. chunks \in Seq(ChunkRow) /\ InOrder(chunks)
  BY <1>1 DEF ChunkInv, Whole, ChunksOK, WordInv, Placed
<1>3. QED BY <1>2, OrderIsGood

\* WindowsGoForward: where a word is a token, the chunks that chunkPages makes
\* of any text follow it and each adds some; a window repeats the overlap of
\* the profile from the one before it and nothing else (forcedTokenSplit,
\* tokenOverlapStart), however sentences are collected and short tails merged.
THEOREM ChunksFollowText == ChunkSpec => []WindowsGoForward
<1>1. ChunkInit => ChunkInv /\ WordInv
  BY ChunkInvInit, WordInvInit
<1>2. ChunkInv /\ WordInv /\ [ChunkNext]_chunkVars => ChunkInv' /\ WordInv'
  BY ChunkInvNext, WordInvNext
<1>3. QED BY <1>1, <1>2, WordInvGoesForward, PTL DEF ChunkSpec
=============================================================================
