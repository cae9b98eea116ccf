-------------------------- MODULE Multipart_proofs --------------------------
(***************************************************************************)
(* The multipart parser gives the parts of the whole input, wherever it is *)
(* cut.                                                                    *)
(*                                                                         *)
(* The buffer is a view of the input: its bytes are those of the wire from *)
(* the first one that was not drained on.  What a search finds in a view,  *)
(* it finds at the same place of the wire; what it does not find there may *)
(* still come, and no delimiter that is cut begins before the offset at    *)
(* which the search goes on.  Each state of the parser then stands at one  *)
(* point of the reference, which has the parts returned so far in front of *)
(* it.                                                                     *)
(***************************************************************************)
EXTENDS Multipart, SliceLemmas

\* b is what stands in w from the offset d on.
View(b, w, d) == d + Len(b) <= Len(w) /\ \A i \in 1..Len(b) : b[i] = w[d + i]

\* r is where the needle is first found in s from the offset start on.
Finds(s, start, needle, r) ==
    \/ r = NotFound /\ \A i \in Nat : i >= start => ~At(s, i, needle)
    \/ /\ r \in Nat /\ r >= start /\ At(s, r, needle)
       /\ \A i \in Nat : i >= start /\ i < r => ~At(s, i, needle)

\* p is the end of the padding that begins at a.
Pads(s, a, p) ==
    /\ p \in a..Len(s)
    /\ \A j \in a..(p - 1) : s[j + 1] = Blank
    /\ p < Len(s) => s[p + 1] # Blank

-----------------------------------------------------------------------------
(* Searching.                                                              *)

LEMMA Joined ==
    ASSUME NEW S, NEW s \in Seq(S), NEW t \in Seq(S)
    PROVE  s \o t \in Seq(S) /\ Len(s \o t) = Len(s) + Len(t)
  BY ConcatProperties

LEMMA Needles ==
    /\ first_delimiter \in Seq(Bytes) /\ Len(first_delimiter) = 3
    /\ inner_delimiter \in Seq(Bytes) /\ Len(inner_delimiter) = 5
    /\ CRLF \in Seq(Bytes) /\ Len(CRLF) = 2
    /\ CRLF \o CRLF \in Seq(Bytes) /\ Len(CRLF \o CRLF) = 4
    /\ DashDash \in Seq(Bytes) /\ Len(DashDash) = 2
<1>1. CRLF \in Seq(Bytes) /\ Len(CRLF) = 2
  BY DEF CRLF, Bytes
<1>2. DashDash \in Seq(Bytes) /\ Len(DashDash) = 2
  BY DEF DashDash, Bytes
<1>3. PICK b : b = <<"b">>
  OBVIOUS
<1>4. b \in Seq(Bytes) /\ Len(b) = 1
  BY <1>3 DEF Bytes
<1>5. DashDash \o b \in Seq(Bytes) /\ Len(DashDash \o b) = Len(DashDash) + Len(b)
  BY <1>2, <1>4, Joined, Zenon
<1>6. PICK c : c = CRLF \o DashDash
  OBVIOUS
<1>7. c \in Seq(Bytes) /\ Len(c) = Len(CRLF) + Len(DashDash)
  BY <1>1, <1>2, <1>6, Joined, Zenon
<1>8. c \o b \in Seq(Bytes) /\ Len(c \o b) = Len(c) + Len(b)
  BY <1>4, <1>7, Joined, Zenon
<1>9. CRLF \o CRLF \in Seq(Bytes) /\ Len(CRLF \o CRLF) = Len(CRLF) + Len(CRLF)
  BY <1>1, Joined, Zenon
<1>10. first_delimiter = DashDash \o b /\ inner_delimiter = c \o b
  BY <1>3, <1>6, Zenon DEF first_delimiter, inner_delimiter
<1> QED
  BY <1>1, <1>2, <1>4, <1>5, <1>7, <1>8, <1>9, <1>10

\* A place that matches has room for the needle.
LEMMA AtFits ==
    ASSUME NEW s, NEW a, NEW needle, At(s, a, needle)
    PROVE  a + Len(needle) <= Len(s)
  BY DEF At

\* find_bytes finds the first place.
LEMMA FindFinds ==
    ASSUME NEW s \in Seq(Bytes), NEW needle \in Seq(Bytes), NEW start \in Nat
    PROVE  Finds(s, start, needle, FindBytes(s, start, needle))
<1> DEFINE found == {i \in start..(Len(s) - Len(needle)) : At(s, i, needle)}
           r == CHOOSE i \in found : \A j \in found : i <= j
<1>1. Len(s) \in Nat /\ Len(needle) \in Nat
  BY LenProperties
<1>2. \A i \in Nat : i >= start /\ At(s, i, needle) => i \in found
  BY <1>1, AtFits
<1>3. FindBytes(s, start, needle) = IF found = {} THEN NotFound ELSE r
  BY DEF FindBytes
<1>4. CASE found = {}
  BY <1>2, <1>3, <1>4 DEF Finds
<1>5. CASE found # {}
  <2>1. found \in SUBSET Nat
    BY <1>1
  <2>2. \E i \in found : \A j \in found : i <= j
    BY <1>5, <2>1, LeastNat
  <2>3. r \in found /\ \A j \in found : r <= j
    BY <2>2
  <2>4. r \in Nat /\ r >= start /\ At(s, r, needle)
    BY <1>1, <2>3
  <2> HIDE DEF r
  <2>5. ASSUME NEW i \in Nat, i >= start, i < r PROVE ~At(s, i, needle)
    <3>1. At(s, i, needle) => r <= i
      BY <1>2, <2>3, <2>5
    <3> QED
      BY <2>4, <2>5, <3>1
  <2>6. FindBytes(s, start, needle) = r
    BY <1>3, <1>5
  <2> QED
    BY <2>4, <2>5, <2>6 DEF Finds
<1> QED
  BY <1>4, <1>5

\* There is one such place.
LEMMA FindsOne ==
    ASSUME NEW s, NEW needle, NEW start, NEW p, NEW q,
           Finds(s, start, needle, p), Finds(s, start, needle, q)
    PROVE  p = q
<1>1. CASE p = NotFound \/ q = NotFound
  BY <1>1 DEF Finds, NotFound
<1>2. CASE p # NotFound /\ q # NotFound
  <2>1. /\ p \in Nat /\ p >= start /\ At(s, p, needle)
        /\ \A i \in Nat : i >= start /\ i < p => ~At(s, i, needle)
    BY <1>2 DEF Finds
  <2>2. /\ q \in Nat /\ q >= start /\ At(s, q, needle)
        /\ \A i \in Nat : i >= start /\ i < q => ~At(s, i, needle)
    BY <1>2 DEF Finds
  <2>3. ~(p < q) /\ ~(q < p)
    BY <2>1, <2>2
  <2> QED
    BY <2>1, <2>2, <2>3
<1> QED
  BY <1>1, <1>2

\* Skipping blanks stops at the first byte that is none.
LEMMA PaddedPads ==
    ASSUME NEW s \in Seq(Bytes), NEW a \in Nat, a <= Len(s)
    PROVE  Pads(s, a, Padded(s, a))
<1> DEFINE stops == {i \in a..Len(s) : i < Len(s) => s[i + 1] # Blank}
<1>1. Len(s) \in Nat
  BY LenProperties
<1>2. Len(s) \in stops /\ stops \in SUBSET Nat
  BY <1>1
<1>3. PICK p \in stops : \A j \in stops : p <= j
  BY <1>2, LeastNat
<1>4. p \in a..Len(s) /\ (p < Len(s) => s[p + 1] # Blank)
  BY <1>3
<1>5. ASSUME NEW j \in a..(p - 1) PROVE s[j + 1] = Blank
  <2>1. j \in a..Len(s) /\ j < Len(s) /\ ~(p <= j)
    BY <1>1, <1>4, <1>5
  <2>2. j \notin stops
    BY <1>3, <2>1
  <2> QED
    BY <2>1, <2>2
<1> HIDE DEF stops
<1>6. Pads(s, a, p)
  BY <1>4, <1>5 DEF Pads
<1>7. \E i \in a..Len(s) : Pads(s, a, i)
  BY <1>4, <1>6
<1>8. Padded(s, a) = CHOOSE i \in a..Len(s) : /\ \A j \in a..(i - 1) : s[j + 1] = Blank
                                              /\ i < Len(s) => s[i + 1] # Blank
  BY DEF Padded
<1> QED
  BY <1>7, <1>8 DEF Pads

LEMMA PadsOne ==
    ASSUME NEW s \in Seq(Bytes), NEW a \in Nat, NEW p, NEW q, Pads(s, a, p), Pads(s, a, q)
    PROVE  p = q
<1>1. Len(s) \in Nat
  BY LenProperties
<1>2. p \in Nat /\ q \in Nat /\ p <= Len(s) /\ q <= Len(s) /\ a <= p /\ a <= q
  BY <1>1 DEF Pads
<1>3. ~(p < q)
  BY <1>1, <1>2 DEF Pads
<1>4. ~(q < p)
  BY <1>1, <1>2 DEF Pads
<1> QED
  BY <1>2, <1>3, <1>4
\* A needle is compared byte by byte.
LEMMA AtBytewise ==
    ASSUME NEW s \in Seq(Bytes), NEW needle \in Seq(Bytes), NEW a \in Nat
    PROVE  At(s, a, needle) <=> /\ a + Len(needle) <= Len(s)
                                /\ \A k \in 1..Len(needle) : s[a + k] = needle[k]
<1> DEFINE n == Len(needle)
           p == Piece(s, a, a + n)
<1>1. n \in Nat /\ Len(s) \in Nat
  BY LenProperties
<1>2. SUFFICES ASSUME a + n <= Len(s)
               PROVE  p = needle <=> \A k \in 1..n : s[a + k] = needle[k]
  BY DEF At
<1> HIDE DEF n
<1>4. PICK m, e : m = a + 1 /\ e = a + n
  OBVIOUS
<1>5. m \in Nat /\ m >= 1 /\ e \in Int /\ e <= Len(s) /\ e - m + 1 = n /\ (m <= e <=> n >= 1)
  BY <1>1, <1>2, <1>4
<1>6. p = SubSeq(s, m, e)
  BY <1>4 DEF Piece
<1> HIDE DEF p
<1>7. /\ p \in Seq(Bytes) /\ Len(p) = (IF m <= e THEN e - m + 1 ELSE 0)
      /\ \A k \in 1..(e - m + 1) : p[k] = s[m + k - 1]
  BY <1>5, <1>6, Slice
<1>8. \A k \in 1..n : m + k - 1 = a + k
  BY <1>1, <1>4
<1>9. p \in Seq(Bytes) /\ Len(p) = n /\ \A k \in 1..n : p[k] = s[a + k]
  <2>1. 1..(e - m + 1) = 1..n
    BY <1>5
  <2>2. Len(p) = n
    BY <1>1, <1>5, <1>7
  <2> QED
    BY <1>7, <1>8, <2>1, <2>2, Zenon
<1>10. Len(needle) = n
  BY DEF n
<1>11. ASSUME \A k \in 1..n : s[a + k] = needle[k] PROVE p = needle
  BY <1>9, <1>10, <1>11, SeqEqual
<1> QED
  BY <1>9, <1>11

-----------------------------------------------------------------------------
(* Views.                                                                  *)

\* As far as it goes, a view matches where the wire does.
LEMMA ViewAt ==
    ASSUME NEW b \in Seq(Bytes), NEW w \in Seq(Bytes), NEW d \in Nat, View(b, w, d),
           NEW needle \in Seq(Bytes), NEW a \in Nat, a + Len(needle) <= Len(b)
    PROVE  At(b, a, needle) <=> At(w, d + a, needle)
<1>1. Len(b) \in Nat /\ Len(w) \in Nat /\ Len(needle) \in Nat /\ d + a \in Nat
  BY LenProperties
<1>2. d + a + Len(needle) <= Len(w)
  BY <1>1 DEF View
<1>3. \A k \in 1..Len(needle) : b[a + k] = w[d + a + k]
  <2>1. \A k \in 1..Len(needle) : a + k \in 1..Len(b) /\ d + (a + k) = d + a + k
    BY <1>1
  <2> QED
    BY <2>1 DEF View
<1>4. At(b, a, needle) <=> \A k \in 1..Len(needle) : b[a + k] = needle[k]
  BY AtBytewise
<1>5. At(w, d + a, needle) <=> \A k \in 1..Len(needle) : w[d + a + k] = needle[k]
  BY <1>1, <1>2, AtBytewise
<1> QED
  BY <1>3, <1>4, <1>5

\* r is where the needle is found in b from start on, and so in w.
FoundIn(b, w, d, needle, start, r) ==
    /\ r # NotFound => /\ r \in Nat /\ r >= start /\ r + Len(needle) <= Len(b)
                       /\ At(b, r, needle)
                       /\ FindBytes(w, d + start, needle) = d + r
    /\ r = NotFound /\ d + Len(b) = Len(w) =>
          FindBytes(w, d + start, needle) = NotFound

\* What a search finds in a view is where it is found in the wire; and at the
\* end of the wire nothing is found in either or in both.
LEMMA ViewFind ==
    ASSUME NEW b \in Seq(Bytes), NEW w \in Seq(Bytes), NEW d \in Nat, View(b, w, d),
           NEW needle \in Seq(Bytes), NEW start \in Nat, NEW r, r = FindBytes(b, start, needle)
    PROVE  FoundIn(b, w, d, needle, start, r)
<1>1. Len(b) \in Nat /\ Len(w) \in Nat /\ Len(needle) \in Nat /\ d + start \in Nat
  BY LenProperties
<1>2. Finds(b, start, needle, r)
  BY FindFinds
<1>3. PICK q : q = FindBytes(w, d + start, needle)
  OBVIOUS
<1>4. Finds(w, d + start, needle, q)
  BY <1>1, <1>3, FindFinds
<1>5. \A i \in Nat : i >= d + start => i - d \in Nat /\ i - d >= start /\ d + (i - d) = i
  BY <1>1
<1>6. ASSUME r # NotFound
      PROVE  /\ r \in Nat /\ r >= start /\ r + Len(needle) <= Len(b)
             /\ At(b, r, needle) /\ q = d + r
  <2>1. /\ r \in Nat /\ r >= start /\ At(b, r, needle)
        /\ \A i \in Nat : i >= start /\ i < r => ~At(b, i, needle)
    BY <1>2, <1>6 DEF Finds
  <2>2. r + Len(needle) <= Len(b)
    BY <2>1, AtFits
  <2>3. d + r \in Nat /\ d + r >= d + start /\ d + r # NotFound
    BY <1>1, <2>1 DEF NotFound
  <2>4. At(w, d + r, needle)
    BY <2>1, <2>2, ViewAt
  <2>5. ASSUME NEW i \in Nat, i >= d + start, i < d + r PROVE ~At(w, i, needle)
    <3>1. i - d \in Nat /\ i - d >= start /\ d + (i - d) = i
      BY <1>5, <2>5
    <3>2. i - d < r
      BY <2>1, <2>5
    <3>3. (i - d) + Len(needle) <= Len(b)
      BY <1>1, <2>1, <2>2, <3>1, <3>2
    <3>4. ~At(b, i - d, needle)
      BY <2>1, <3>1, <3>2
    <3> QED
      BY <3>1, <3>3, <3>4, ViewAt
  <2>6. Finds(w, d + start, needle, d + r)
    BY <2>3, <2>4, <2>5 DEF Finds
  <2> QED
    BY <1>4, <2>1, <2>2, <2>6, FindsOne
<1>7. ASSUME r = NotFound, d + Len(b) = Len(w)
      PROVE  q = NotFound
  <2>1. \A i \in Nat : i >= start => ~At(b, i, needle)
    BY <1>2, <1>7 DEF Finds, NotFound
  <2>2. ASSUME NEW i \in Nat, i >= d + start, At(w, i, needle) PROVE FALSE
    <3>1. i - d \in Nat /\ i - d >= start /\ d + (i - d) = i
      BY <1>5, <2>2
    <3>2. i + Len(needle) <= Len(w)
      BY <2>2, AtFits
    <3>3. (i - d) + Len(needle) <= Len(b)
      BY <1>1, <1>7, <3>1, <3>2
    <3>4. At(b, i - d, needle) <=> At(w, d + (i - d), needle)
      BY <3>1, <3>3, ViewAt
    <3> QED
      BY <2>1, <2>2, <3>1, <3>4
  <2>3. Finds(w, d + start, needle, NotFound)
    BY <2>2 DEF Finds
  <2> QED
    BY <1>4, <2>3, FindsOne
<1> QED
  BY <1>3, <1>6, <1>7 DEF FoundIn

\* c is s[i..j].
IsPiece(c, s, i, j) ==
    /\ c \in Seq(Bytes) /\ Len(c) = (IF i < j THEN j - i ELSE 0)
    /\ \A k \in 1..(j - i) : c[k] = s[i + k]

LEMMA PieceBytes ==
    ASSUME NEW s \in Seq(Bytes), NEW i \in Nat, NEW j \in Int, j <= Len(s)
    PROVE  IsPiece(Piece(s, i, j), s, i, j)
<1>1. PICK m, p : m = i + 1 /\ p = Piece(s, i, j)
  OBVIOUS
<1>2. m \in Nat /\ m >= 1 /\ j - m + 1 = j - i /\ (m <= j <=> i < j)
  BY <1>1
<1>3. p = SubSeq(s, m, j)
  BY <1>1 DEF Piece
<1>4. /\ p \in Seq(Bytes) /\ Len(p) = (IF m <= j THEN j - m + 1 ELSE 0)
      /\ \A k \in 1..(j - m + 1) : p[k] = s[m + k - 1]
  BY <1>2, <1>3, Slice
<1>5. \A k \in 1..(j - i) : m + k - 1 = i + k
  BY <1>1
<1>6. 1..(j - m + 1) = 1..(j - i)
  BY <1>2
<1>7. Len(p) = IF i < j THEN j - i ELSE 0
  BY <1>2, <1>4
<1>8. \A k \in 1..(j - i) : p[k] = s[i + k]
  BY <1>4, <1>5, <1>6, Zenon
<1> QED
  BY <1>1, <1>4, <1>7, <1>8, Zenon DEF IsPiece

LEMMA ViewPiece ==
    ASSUME NEW b \in Seq(Bytes), NEW w \in Seq(Bytes), NEW d \in Nat, View(b, w, d),
           NEW i \in Nat, NEW j \in Nat, j <= Len(b)
    PROVE  Piece(b, i, j) = Piece(w, d + i, d + j)
<1>1. Len(b) \in Nat /\ Len(w) \in Nat
  BY LenProperties
<1>2. PICK p, q : p = Piece(b, i, j) /\ q = Piece(w, d + i, d + j)
  OBVIOUS
<1>3. /\ p \in Seq(Bytes) /\ Len(p) = (IF i < j THEN j - i ELSE 0)
      /\ \A k \in 1..(j - i) : p[k] = b[i + k]
  <2>1. j \in Int
    OBVIOUS
  <2>2. IsPiece(p, b, i, j)
    BY <1>2, <2>1, PieceBytes
  <2> QED
    BY <2>2, Zenon DEF IsPiece
<1>4. PICK m, n : m = d + i /\ n = d + j
  OBVIOUS
<1>5. m \in Nat /\ n \in Int /\ n <= Len(w) /\ n - m = j - i /\ (m < n <=> i < j)
  BY <1>1, <1>4 DEF View
<1>6. /\ q \in Seq(Bytes) /\ Len(q) = (IF m < n THEN n - m ELSE 0)
      /\ \A k \in 1..(n - m) : q[k] = w[m + k]
  <2>1. IsPiece(q, w, m, n)
    BY <1>2, <1>4, <1>5, PieceBytes
  <2> QED
    BY <2>1, Zenon DEF IsPiece
<1>7. ASSUME NEW k \in 1..(j - i) PROVE p[k] = q[k]
  <2>1. i + k \in 1..Len(b) /\ m + k = d + (i + k) /\ k \in 1..(n - m)
    BY <1>1, <1>4, <1>5, <1>7
  <2> QED
    BY <1>3, <1>6, <1>7, <2>1 DEF View
<1>8. Len(p) = Len(q) /\ \A k \in 1..Len(p) : k \in 1..(j - i)
  BY <1>3, <1>5, <1>6
<1> QED
  BY <1>2, <1>3, <1>6, <1>7, <1>8, SeqEqual

\* Blanks end at the same place in a view and in the wire, if they end in the
\* view; and one may begin to skip them where one likes.
LEMMA ViewPadded ==
    ASSUME NEW b \in Seq(Bytes), NEW w \in Seq(Bytes), NEW d \in Nat, View(b, w, d),
           NEW a \in Nat, a <= Len(b), NEW p, p = Padded(b, a)
    PROVE  /\ p \in Nat /\ a <= p /\ p <= Len(b)
           /\ p < Len(b) \/ d + Len(b) = Len(w) => Padded(w, d + a) = d + p
           /\ Padded(w, d + a) = Padded(w, d + p)
<1>1. Len(b) \in Nat /\ Len(w) \in Nat /\ d + Len(b) <= Len(w)
  BY LenProperties DEF View
<1>2. Pads(b, a, p)
  BY PaddedPads
<1>3. p \in Nat /\ a <= p /\ p <= Len(b)
  BY <1>1, <1>2 DEF Pads
<1>4. PICK x, y : x = d + a /\ y = d + p
  OBVIOUS
<1>5. x \in Nat /\ x <= Len(w) /\ y \in Nat /\ y <= Len(w) /\ x <= y
  BY <1>1, <1>3, <1>4
<1>6. ASSUME NEW j \in x..(y - 1) PROVE w[j + 1] = Blank
  <2>1. PICK i, k : i = j - d /\ k = i + 1
    OBVIOUS
  <2>2. i \in a..(p - 1) /\ k \in 1..Len(b) /\ d + k = j + 1
    BY <1>1, <1>3, <1>4, <1>5, <1>6, <2>1
  <2>3. b[k] = Blank
    BY <1>2, <2>1, <2>2 DEF Pads
  <2> QED
    BY <2>2, <2>3 DEF View
<1>7. Pads(w, x, Padded(w, x)) /\ Pads(w, y, Padded(w, y))
  BY <1>5, PaddedPads
<1>8. ASSUME p < Len(b) \/ d + Len(b) = Len(w) PROVE Padded(w, x) = y
  <2>1. y < Len(w) => w[y + 1] # Blank
    <3>1. y < Len(w) => p < Len(b)
      BY <1>1, <1>3, <1>4, <1>8
    <3>2. ASSUME p < Len(b) PROVE w[y + 1] # Blank
      <4>1. p + 1 \in 1..Len(b) /\ d + (p + 1) = y + 1 /\ b[p + 1] # Blank
        BY <1>1, <1>2, <1>3, <1>4, <3>2 DEF Pads
      <4> QED
        BY <4>1 DEF View
    <3> QED
      BY <3>1, <3>2
  <2>2. y \in x..Len(w)
    BY <1>1, <1>5
  <2>3. Pads(w, x, y)
    BY <1>6, <2>1, <2>2, Zenon DEF Pads
  <2> QED
    BY <1>5, <1>7, <2>3, PadsOne
<1>9. Padded(w, x) = Padded(w, y)
  <2>1. PICK q : q = Padded(w, y)
    OBVIOUS
  <2>2. q \in y..Len(w) /\ Pads(w, y, q)
    BY <1>7, <2>1 DEF Pads
  <2>3. q \in x..Len(w)
    BY <1>1, <1>5, <2>2
  <2>4. ASSUME NEW j \in x..(q - 1) PROVE w[j + 1] = Blank
    <3>1. j \in x..(y - 1) \/ j \in y..(q - 1)
      BY <1>1, <1>5, <2>2, <2>4
    <3> QED
      BY <1>6, <2>2, <3>1, Zenon DEF Pads
  <2>5. Pads(w, x, q)
    BY <2>2, <2>3, <2>4, Zenon DEF Pads
  <2> QED
    BY <1>5, <1>7, <2>1, <2>5, PadsOne
<1> QED
  BY <1>3, <1>4, <1>8, <1>9

\* feed makes the view longer.
Extended(s, b, w, e, n) == s = b \o SubSeq(w, e + 1, e + n)

LEMMA ViewGrows ==
    ASSUME NEW b \in Seq(Bytes), NEW w \in Seq(Bytes), NEW d \in Nat, View(b, w, d),
           NEW n \in Nat, NEW e, e = d + Len(b), e + n <= Len(w),
           NEW s, Extended(s, b, w, e, n)
    PROVE  s \in Seq(Bytes) /\ Len(s) = Len(b) + n /\ View(s, w, d)
<1>1. Len(b) \in Nat /\ Len(w) \in Nat
  BY LenProperties
<1>2. PICK c : c = SubSeq(w, e + 1, e + n)
  OBVIOUS
<1>3. e \in Nat /\ e + n \in Int /\ e + n <= Len(w) /\ (e + n) - e = n /\ (e < e + n <=> n > 0)
  BY <1>1
<1>4. c = Piece(w, e, e + n)
  BY <1>2 DEF Piece
<1>5. /\ c \in Seq(Bytes) /\ Len(c) = (IF e < e + n THEN (e + n) - e ELSE 0)
      /\ \A k \in 1..((e + n) - e) : c[k] = w[e + k]
  <2>1. IsPiece(c, w, e, e + n)
    BY <1>3, <1>4, PieceBytes
  <2> QED
    BY <2>1, Zenon DEF IsPiece
<1>6. Len(c) = n /\ 1..((e + n) - e) = 1..n
  BY <1>3, <1>5
<1>7. \A k \in 1..n : c[k] = w[e + k]
  BY <1>5, <1>6, Zenon
<1>8. s = b \o c
  BY <1>2 DEF Extended
<1>9. /\ s \in Seq(Bytes) /\ Len(s) = Len(b) + Len(c)
      /\ \A i \in 1..(Len(b) + Len(c)) : s[i] = IF i <= Len(b) THEN b[i] ELSE c[i - Len(b)]
  <2>1. ASSUME NEW S, NEW x \in Seq(S), NEW y \in Seq(S)
        PROVE  /\ x \o y \in Seq(S) /\ Len(x \o y) = Len(x) + Len(y)
               /\ \A i \in 1..(Len(x) + Len(y)) :
                     (x \o y)[i] = IF i <= Len(x) THEN x[i] ELSE y[i - Len(x)]
    BY <2>1, ConcatProperties
  <2>2. c \in Seq(Bytes)
    BY <1>5
  <2> QED
    BY <1>8, <2>1, <2>2, Zenon
<1>10. ASSUME NEW i \in 1..Len(s) PROVE s[i] = w[d + i]
  <2>1. CASE i <= Len(b)
    <3>1. i \in 1..Len(b)
      BY <1>1, <1>10, <2>1
    <3> QED
      BY <1>9, <1>10, <2>1, <3>1 DEF View
  <2>2. CASE ~(i <= Len(b))
    <3>1. i - Len(b) \in 1..n /\ e + (i - Len(b)) = d + i
      BY <1>1, <1>6, <1>9, <1>10, <2>2
    <3> QED
      BY <1>7, <1>9, <1>10, <2>2, <3>1
  <2> QED
    BY <2>1, <2>2
<1>11. Len(s) = Len(b) + n /\ d + Len(s) <= Len(w)
  BY <1>1, <1>3, <1>6, <1>9
<1> QED
  BY <1>9, <1>10, <1>11 DEF View

\* Draining moves it.
LEMMA ViewOfPiece ==
    ASSUME NEW b \in Seq(Bytes), NEW w \in Seq(Bytes), NEW d \in Nat, View(b, w, d),
           NEW p \in Nat, p <= Len(b), NEW c, IsPiece(c, b, p, Len(b))
    PROVE  c \in Seq(Bytes) /\ Len(c) = Len(b) - p /\ View(c, w, d + p)
<1>1. Len(b) \in Nat /\ Len(w) \in Nat
  BY LenProperties
<1>2. /\ c \in Seq(Bytes) /\ Len(c) = (IF p < Len(b) THEN Len(b) - p ELSE 0)
      /\ \A k \in 1..(Len(b) - p) : c[k] = b[p + k]
  BY Zenon DEF IsPiece
<1>3. d + Len(b) <= Len(w)
  BY DEF View
<1>4. Len(c) = Len(b) - p /\ d + p + Len(c) <= Len(w)
  <2>1. PICK l, m : l = Len(b) /\ m = Len(c)
    OBVIOUS
  <2>2. l \in Nat /\ p <= l /\ m = (IF p < l THEN l - p ELSE 0)
    BY <1>1, <1>2, <2>1, Zenon
  <2>3. m = l - p
    BY <2>2
  <2>4. d + p + (l - p) = d + l
    BY <2>2
  <2> QED
    BY <1>3, <2>1, <2>3, <2>4
<1>5. ASSUME NEW k \in 1..Len(c) PROVE c[k] = w[d + p + k]
  <2>1. k \in 1..(Len(b) - p) /\ p + k \in 1..Len(b) /\ d + (p + k) = d + p + k
    BY <1>1, <1>4, <1>5
  <2> QED
    BY <1>2, <2>1 DEF View
<1> QED
  BY <1>2, <1>4, <1>5 DEF View

-----------------------------------------------------------------------------
(* The offsets.                                                            *)

\* A search up to the offset s has met no needle in b, and none that is cut.
Searched(b, from, s, needle) ==
    /\ s <= from \/ s + Len(needle) - 1 <= Len(b)
    /\ \A i \in Nat : from <= i /\ i < s => ~At(b, i, needle)

\* The offset s at which the search for the end of the part at p goes on.
PartOffsets(b, p, s) ==
    \/ s <= p
    \/ \E h \in Nat : /\ h = FindBytes(b, p, CRLF \o CRLF)
                      /\ Searched(b, h + 4, s, inner_delimiter)

\* What the two offsets mean, state by state.
Resumes(b, p, s, st) ==
    /\ p <= Len(b) /\ s <= Len(b)
    /\ st = "Initial" => p = 0 /\ Searched(b, 0, s, first_delimiter)
    /\ st = "InPart" => PartOffsets(b, p, s)

\* Going on at the offset of a search that found nothing is searching from its
\* start.
LEMMA FindGoesOn ==
    ASSUME NEW b \in Seq(Bytes), NEW needle \in Seq(Bytes), NEW from \in Nat, NEW s \in Nat,
           Searched(b, from, s, needle)
    PROVE  FindBytes(b, Most(from, s), needle) = FindBytes(b, from, needle)
<1>1. CASE from > s
  BY <1>1 DEF Most
<1>2. CASE ~(from > s)
  <2>1. Most(from, s) = s /\ from <= s
    BY <1>2 DEF Most
  <2>2. PICK r : r = FindBytes(b, s, needle)
    OBVIOUS
  <2>3. Finds(b, s, needle, r)
    BY <2>2, FindFinds
  <2>4. \A i \in Nat : from <= i /\ i < s => ~At(b, i, needle)
    BY DEF Searched
  <2>5. \A i \in Nat : i >= from => from <= i /\ (i < s \/ i >= s)
    BY <2>1
  <2>6. CASE r = NotFound
    <3>1. \A i \in Nat : i >= s => ~At(b, i, needle)
      BY <2>3, <2>6 DEF Finds, NotFound
    <3>2. Finds(b, from, needle, r)
      BY <2>4, <2>5, <2>6, <3>1 DEF Finds
    <3> QED
      BY <2>1, <2>2, <3>2, FindFinds, FindsOne
  <2>7. CASE r # NotFound
    <3>1. /\ r \in Nat /\ r >= s /\ At(b, r, needle)
          /\ \A i \in Nat : i >= s /\ i < r => ~At(b, i, needle)
      BY <2>3, <2>7 DEF Finds
    <3>2. r >= from
      BY <2>1, <3>1
    <3>3. Finds(b, from, needle, r)
      BY <2>4, <2>5, <3>1, <3>2 DEF Finds
    <3> QED
      BY <2>1, <2>2, <3>3, FindFinds, FindsOne
  <2> QED
    BY <2>6, <2>7
<1> QED
  BY <1>1, <1>2

\* A search that failed resumes where a needle that is cut may begin.
LEMMA Resumed ==
    ASSUME NEW b \in Seq(Bytes), NEW needle \in Seq(Bytes), Len(needle) >= 1, NEW from \in Nat,
           from <= Len(b), FindBytes(b, from, needle) = NotFound,
           NEW s, s = (IF Len(b) - (Len(needle) - 1) > from
                       THEN Len(b) - (Len(needle) - 1) ELSE from)
    PROVE  s \in Nat /\ s <= Len(b) /\ Searched(b, from, s, needle)
<1>1. Len(b) \in Nat /\ Len(needle) \in Nat
  BY LenProperties
<1>2. s \in Nat /\ s <= Len(b) /\ (s <= from \/ s + Len(needle) - 1 <= Len(b))
  BY <1>1
<1>3. Finds(b, from, needle, NotFound)
  BY FindFinds
<1>4. \A i \in Nat : i >= from => ~At(b, i, needle)
  BY <1>3 DEF Finds, NotFound
<1> QED
  BY <1>2, <1>4 DEF Searched

\* A search that found its needle may also resume there.
LEMMA ResumedAt ==
    ASSUME NEW b \in Seq(Bytes), NEW needle \in Seq(Bytes), Len(needle) >= 1, NEW from \in Nat,
           NEW r, r = FindBytes(b, from, needle), r # NotFound
    PROVE  r \in Nat /\ r <= Len(b) /\ Searched(b, from, r, needle)
<1>1. Len(b) \in Nat /\ Len(needle) \in Nat
  BY LenProperties
<1>2. Finds(b, from, needle, r)
  BY FindFinds
<1>3. /\ r \in Nat /\ At(b, r, needle)
      /\ \A i \in Nat : i >= from /\ i < r => ~At(b, i, needle)
  BY <1>2 DEF Finds
<1>4. r + Len(needle) <= Len(b)
  BY <1>3, AtFits
<1>5. r <= Len(b) /\ r + Len(needle) - 1 <= Len(b)
  BY <1>1, <1>3, <1>4
<1> QED
  BY <1>3, <1>5 DEF Searched

\* Both stay true when the view grows.
LEMMA SearchedGrows ==
    ASSUME NEW b \in Seq(Bytes), NEW c \in Seq(Bytes), NEW w \in Seq(Bytes), NEW d \in Nat,
           View(b, w, d), View(c, w, d), Len(b) <= Len(c),
           NEW needle \in Seq(Bytes), NEW from \in Nat, NEW s \in Nat, Len(needle) >= 1,
           s <= Len(b), Searched(b, from, s, needle)
    PROVE  Searched(c, from, s, needle)
<1>1. Len(b) \in Nat /\ Len(c) \in Nat /\ Len(needle) \in Nat
  BY LenProperties
<1>2. s <= from \/ s + Len(needle) - 1 <= Len(b)
  BY DEF Searched
<1>3. s <= from \/ s + Len(needle) - 1 <= Len(c)
  BY <1>1, <1>2
<1>4. ASSUME NEW i \in Nat, from <= i, i < s PROVE ~At(c, i, needle)
  <2>1. i + Len(needle) <= Len(b) /\ i + Len(needle) <= Len(c)
    BY <1>1, <1>2, <1>4
  <2>2. ~At(b, i, needle)
    BY <1>4 DEF Searched
  <2>3. At(b, i, needle) <=> At(w, d + i, needle)
    BY <2>1, ViewAt
  <2>4. At(c, i, needle) <=> At(w, d + i, needle)
    BY <2>1, ViewAt
  <2> QED
    BY <2>2, <2>3, <2>4
<1> QED
  BY <1>3, <1>4 DEF Searched

LEMMA FoundGrows ==
    ASSUME NEW b \in Seq(Bytes), NEW c \in Seq(Bytes), NEW w \in Seq(Bytes), NEW d \in Nat,
           View(b, w, d), View(c, w, d), Len(b) <= Len(c),
           NEW needle \in Seq(Bytes), NEW from \in Nat,
           NEW r \in Nat, r = FindBytes(b, from, needle)
    PROVE  FindBytes(c, from, needle) = r
<1>1. Len(b) \in Nat /\ Len(c) \in Nat /\ Len(needle) \in Nat /\ r # NotFound
  BY LenProperties DEF NotFound
<1>2. /\ r >= from /\ r + Len(needle) <= Len(b) /\ At(b, r, needle)
      /\ FindBytes(w, d + from, needle) = d + r
  BY <1>1, ViewFind DEF FoundIn
<1>3. PICK q : q = FindBytes(c, from, needle)
  OBVIOUS
<1>4. At(c, r, needle)
  <2>1. r + Len(needle) <= Len(c)
    BY <1>1, <1>2
  <2>2. At(b, r, needle) <=> At(w, d + r, needle)
    BY <1>2, ViewAt
  <2>3. At(c, r, needle) <=> At(w, d + r, needle)
    BY <2>1, ViewAt
  <2> QED
    BY <1>2, <2>2, <2>3
<1>5. q # NotFound
  <2>1. Finds(c, from, needle, q)
    BY <1>3, FindFinds
  <2> QED
    BY <1>2, <1>4, <2>1 DEF Finds, NotFound
<1>6. q \in Nat /\ FindBytes(w, d + from, needle) = d + q
  BY <1>3, <1>5, ViewFind DEF FoundIn
<1> QED
  BY <1>2, <1>3, <1>6

-----------------------------------------------------------------------------
(* The reference.                                                          *)

\* What WholeFrom says of the offset x, given what it says of later ones.
PartAt(w, x, g) ==
    LET header_end == FindBytes(w, x, CRLF \o CRLF)
        verdict == HeaderVerdict(Piece(w, x, header_end))
        body_end == FindBytes(w, header_end + 4, inner_delimiter)
        p == Padded(w, body_end + Len(inner_delimiter))
    IN  IF header_end = NotFound THEN Outcome(<< >>, << >>, "Incomplete")
        ELSE IF verdict # "Ok" THEN Outcome(<< >>, << >>, verdict)
        ELSE IF body_end = NotFound THEN Outcome(<< >>, << >>, "Incomplete")
        ELSE Delimited(w, p, Piece(w, header_end + 4, body_end), g[p + 2])

Offsets(w) == 0..(Len(w) + 2)

\* Where a part that is found ends.
LEMMA PartEnds ==
    ASSUME NEW w \in Seq(Bytes), NEW x \in Nat,
           NEW h, h = FindBytes(w, x, CRLF \o CRLF), h # NotFound,
           NEW e, e = FindBytes(w, h + 4, inner_delimiter), e # NotFound,
           NEW p, p = Padded(w, e + Len(inner_delimiter))
    PROVE  /\ h \in Nat /\ x <= h /\ e \in Nat /\ h + 4 <= e /\ e + 5 <= Len(w)
           /\ p \in Nat /\ e + 5 <= p /\ p <= Len(w)
           /\ p + 2 \in Offsets(w) /\ p + 2 > x
<1>1. Len(w) \in Nat
  BY LenProperties
<1>2. Finds(w, x, CRLF \o CRLF, h)
  BY Needles, FindFinds
<1>3. h \in Nat /\ x <= h
  BY <1>2 DEF Finds
<1>4. h + 4 \in Nat
  BY <1>3
<1>5. Finds(w, h + 4, inner_delimiter, e)
  BY <1>4, Needles, FindFinds
<1>6. e \in Nat /\ h + 4 <= e /\ At(w, e, inner_delimiter)
  BY <1>5 DEF Finds
<1>7. e + 5 <= Len(w)
  BY <1>6, Needles, AtFits
<1>8. e + 5 \in Nat /\ p = Padded(w, e + 5)
  BY <1>6, Needles
<1>9. Pads(w, e + 5, p)
  BY <1>7, <1>8, PaddedPads
<1>10. p \in Nat /\ e + 5 <= p /\ p <= Len(w)
  <2>1. p \in (e + 5)..Len(w)
    BY <1>9 DEF Pads
  <2> QED
    BY <1>1, <1>8, <2>1
<1>11. p + 2 \in Offsets(w) /\ p + 2 > x
  BY <1>1, <1>3, <1>6, <1>10, SMTT(30) DEF Offsets
<1> QED
  BY <1>3, <1>6, <1>7, <1>10, <1>11

\* Only later offsets count.
LEMMA PartAtLater ==
    ASSUME NEW w \in Seq(Bytes), NEW x \in Nat, NEW f, NEW g,
           \A y \in Offsets(w) : y > x => f[y] = g[y]
    PROVE  PartAt(w, x, f) = PartAt(w, x, g)
<1>1. PICK h : h = FindBytes(w, x, CRLF \o CRLF)
  OBVIOUS
<1>2. PICK e : e = FindBytes(w, h + 4, inner_delimiter)
  OBVIOUS
<1>3. PICK p : p = Padded(w, e + Len(inner_delimiter))
  OBVIOUS
<1>4. CASE h # NotFound /\ e # NotFound
  <2>1. f[p + 2] = g[p + 2]
    BY <1>1, <1>2, <1>3, <1>4, PartEnds
  <2> QED
    BY <1>1, <1>2, <1>3, <2>1 DEF PartAt
<1>5. CASE ~(h # NotFound /\ e # NotFound)
  BY <1>1, <1>2, <1>5 DEF PartAt
<1> QED
  BY <1>4, <1>5

\* The recursive function exists.
LEMMA WholeFromIs ==
    ASSUME NEW w \in Seq(Bytes)
    PROVE  \A x \in Offsets(w) : WholeFrom(w)[x] = PartAt(w, x, WholeFrom(w))
<1> DEFINE L == Len(w) + 2
           D == Offsets(w)
           Good(g, n) == \A x \in D : x + n > L => g[x] = PartAt(w, x, g)
           Has == {n \in Nat : \E g : Good(g, n)}
           Body(g) == [x \in D |-> PartAt(w, x, g)]
<1>1. L \in Nat /\ (\A x \in D : x \in Nat /\ x <= L) /\ \A x \in D : ~(x + 0 > L)
  BY LenProperties DEF Offsets
<1> HIDE DEF L, D
<1>2. 0 \in Has
  BY <1>1
<1>3. ASSUME NEW n \in Nat, n \in Has PROVE n + 1 \in Has
  <2>1. PICK g : Good(g, n)
    BY <1>3
  <2> DEFINE h == [x \in D |-> IF x + n = L THEN PartAt(w, x, g) ELSE g[x]]
  <2>2. ASSUME NEW x \in D, x + (n + 1) > L PROVE h[x] = PartAt(w, x, h)
    <3>1. \A y \in Offsets(w) : y > x => g[y] = h[y]
      <4>1. ASSUME NEW y \in D, y > x PROVE y + n # L
        BY <1>1, <2>2, <4>1
      <4> QED
        BY <4>1 DEF D
    <3>2. x \in Nat
      BY <1>1
    <3> HIDE DEF h
    <3>3. PartAt(w, x, g) = PartAt(w, x, h)
      BY <3>1, <3>2, PartAtLater
    <3>4. CASE x + n = L
      BY <3>3, <3>4 DEF h
    <3>5. CASE x + n # L
      <4>1. x + n > L
        BY <1>1, <2>2, <3>2, <3>5
      <4>2. g[x] = PartAt(w, x, g)
        BY <2>1, <4>1
      <4>3. h[x] = g[x]
        BY <3>5 DEF h
      <4> QED
        BY <3>3, <4>2, <4>3
    <3> QED
      BY <3>4, <3>5
  <2> HIDE DEF h
  <2>3. Good(h, n + 1)
    BY <2>2
  <2> QED
    BY <2>3
<1> HIDE DEF Has
<1>4. \A n \in Nat : n \in Has
  BY <1>2, <1>3, NatSetInduction
<1>5. PICK g : Good(g, L + 1)
  BY <1>1, <1>4 DEF Has
<1>6. \A x \in D : g[x] = PartAt(w, x, g)
  <2>1. \A x \in D : x + (L + 1) > L
    BY <1>1
  <2> QED
    BY <1>5, <2>1
<1> DEFINE G == [x \in D |-> g[x]]
<1>7. G = Body(G)
  <2>1. \A y \in D : g[y] = G[y]
    OBVIOUS
  <2> HIDE DEF G
  <2>2. ASSUME NEW x \in D PROVE PartAt(w, x, g) = PartAt(w, x, G)
    <3>1. x \in Nat /\ \A y \in Offsets(w) : y > x => g[y] = G[y]
      BY <1>1, <2>1 DEF D
    <3> QED
      BY <3>1, PartAtLater
  <2>3. \A x \in D : g[x] = PartAt(w, x, G)
    BY <1>6, <2>2
  <2> QED
    BY <2>3 DEF G
<1> HIDE DEF G
<1>8. WholeFrom(w) = CHOOSE f : f = Body(f)
  BY DEF WholeFrom, PartAt, D, Offsets
<1>9. WholeFrom(w) = Body(WholeFrom(w))
  BY <1>7, <1>8
<1> QED
  BY <1>9 DEF D

PartSeqs == Seq(Seq(Bytes))

IsOutcome(o) ==
    \E ps \in PartSeqs, doubt \in PartSeqs : \E ends : o = Outcome(ps, doubt, ends)

\* The parts ps, and then what o says.
Behind(ps, o) == Outcome(ps \o o.parts, o.doubt, o.ends)

\* What follows a body whose delimiter ends at the offset a.
EndOf(w, a, body) == Delimited(w, Padded(w, a), body, WholeFrom(w)[Padded(w, a) + 2])

LEMMA OutcomeFields ==
    ASSUME NEW a, NEW b, NEW c
    PROVE  Outcome(a, b, c).parts = a /\ Outcome(a, b, c).doubt = b /\ Outcome(a, b, c).ends = c
  BY DEF Outcome

LEMMA FieldsOfOutcome ==
    ASSUME NEW o, IsOutcome(o)
    PROVE  o.parts \in PartSeqs /\ o.doubt \in PartSeqs /\ o = Outcome(o.parts, o.doubt, o.ends)
<1>1. PICK ps \in PartSeqs, doubt \in PartSeqs : \E ends : o = Outcome(ps, doubt, ends)
  BY DEF IsOutcome
<1> QED
  BY <1>1, OutcomeFields

LEMMA OnePart ==
    ASSUME NEW body \in Seq(Bytes)
    PROVE  <<body>> \in PartSeqs /\ << >> \in PartSeqs
<1>1. ASSUME NEW S, NEW x \in S PROVE <<x>> \in Seq(S) /\ << >> \in Seq(S)
  BY <1>1
<1> QED
  BY <1>1, Zenon DEF PartSeqs

LEMMA Joins ==
    ASSUME NEW s \in PartSeqs, NEW t \in PartSeqs, NEW u \in PartSeqs
    PROVE  /\ s \o t \in PartSeqs /\ (s \o t) \o u = s \o (t \o u)
           /\ s \o << >> = s /\ << >> \o s = s
<1>1. s \o t \in PartSeqs
  BY Joined, Zenon DEF PartSeqs
<1>2. (s \o t) \o u = s \o (t \o u)
  BY ConcatAssociative, SMTT(30) DEF PartSeqs
<1>3. s \o << >> = s /\ << >> \o s = s
  BY ConcatEmptySeq, Zenon DEF PartSeqs
<1> QED
  BY <1>1, <1>2, <1>3

LEMMA BehindTypes ==
    ASSUME NEW ps \in PartSeqs, NEW o, IsOutcome(o)
    PROVE  /\ IsOutcome(Behind(ps, o))
           /\ Behind(ps, o).parts = ps \o o.parts
           /\ Behind(ps, o).doubt = o.doubt /\ Behind(ps, o).ends = o.ends
           /\ Behind(<< >>, o) = o
<1>1. o.parts \in PartSeqs /\ o.doubt \in PartSeqs /\ o = Outcome(o.parts, o.doubt, o.ends)
  BY FieldsOfOutcome
<1>2. ps \o o.parts \in PartSeqs /\ << >> \o o.parts = o.parts
  BY <1>1, Joins
<1>3. IsOutcome(Behind(ps, o))
  BY <1>1, <1>2, Zenon DEF Behind, IsOutcome
<1>4. Behind(<< >>, o) = o
  BY <1>1, <1>2, Zenon DEF Behind
<1>5. PICK a, b, c : a = ps \o o.parts /\ b = o.doubt /\ c = o.ends
  OBVIOUS
<1>6. Behind(ps, o) = Outcome(a, b, c)
  BY <1>5, Zenon DEF Behind
<1>7. Outcome(a, b, c).parts = a /\ Outcome(a, b, c).doubt = b /\ Outcome(a, b, c).ends = c
  BY OutcomeFields
<1> QED
  BY <1>3, <1>4, <1>5, <1>6, <1>7, Zenon

\* One part after the others.
LEMMA BehindBehind ==
    ASSUME NEW ps \in PartSeqs, NEW qs \in PartSeqs, NEW o, IsOutcome(o)
    PROVE  Behind(ps, Behind(qs, o)) = Behind(ps \o qs, o)
<1>1. o.parts \in PartSeqs
  BY FieldsOfOutcome
<1>2. PICK q : q = Behind(qs, o)
  OBVIOUS
<1>3. q.parts = qs \o o.parts /\ q.doubt = o.doubt /\ q.ends = o.ends
  BY <1>2, BehindTypes
<1>4. (ps \o qs) \o o.parts = ps \o (qs \o o.parts)
  <2>1. PICK r \in PartSeqs : r = o.parts
    BY <1>1
  <2>2. (ps \o qs) \o r = ps \o (qs \o r)
    BY ConcatAssociative, SMTT(30) DEF PartSeqs
  <2> QED
    BY <2>1, <2>2
<1>5. Behind(ps, q) = Behind(ps \o qs, o)
  BY <1>3, <1>4, Zenon DEF Behind
<1> QED
  BY <1>2, <1>5

LEMMA DelimitedTypes ==
    ASSUME NEW w, NEW p, NEW body \in Seq(Bytes), NEW rest,
           Len(w) < p + 2 \/ IsOutcome(rest)
    PROVE  IsOutcome(Delimited(w, p, body, rest))
<1>1. <<body>> \in PartSeqs /\ << >> \in PartSeqs
  BY OnePart
<1>2. CASE Len(w) < p + 2 \/ At(w, p, DashDash) \/ ~At(w, p, CRLF)
  <2>1. \/ Delimited(w, p, body, rest) = Outcome(<<body>>, << >>, "Incomplete")
        \/ Delimited(w, p, body, rest) = Outcome(<<body>>, << >>, "None")
        \/ Delimited(w, p, body, rest) = Outcome(<< >>, <<body>>, "InvalidPart")
    BY <1>2, Zenon DEF Delimited
  <2> QED
    BY <1>1, <2>1, Zenon DEF IsOutcome
<1>3. CASE ~(Len(w) < p + 2 \/ At(w, p, DashDash) \/ ~At(w, p, CRLF))
  <2>1. Delimited(w, p, body, rest) = Behind(<<body>>, rest)
    BY <1>3, Zenon DEF Delimited, Behind
  <2> QED
    BY <1>1, <1>3, <2>1, BehindTypes
<1> QED
  BY <1>2, <1>3

LEMMA WholeFromTypes ==
    ASSUME NEW w \in Seq(Bytes)
    PROVE  \A x \in Offsets(w) : IsOutcome(WholeFrom(w)[x])
<1> DEFINE L == Len(w) + 2
           f == WholeFrom(w)
           Known == {n \in Nat : \A x \in Offsets(w) : x + n > L => IsOutcome(f[x])}
<1>1. L \in Nat /\ \A x \in Offsets(w) : x \in Nat /\ x <= L
  BY LenProperties DEF Offsets
<1> HIDE DEF L
<1>2. 0 \in Known
  BY <1>1
<1>3. ASSUME NEW n \in Nat, n \in Known PROVE n + 1 \in Known
  <2>1. SUFFICES ASSUME NEW x \in Offsets(w), x + (n + 1) > L PROVE IsOutcome(f[x])
    OBVIOUS
  <2>2. f[x] = PartAt(w, x, f)
    BY WholeFromIs
  <2>3. x \in Nat /\ << >> \in PartSeqs
    BY <1>1, EmptySeq DEF PartSeqs
  <2>4. PICK h : h = FindBytes(w, x, CRLF \o CRLF)
    OBVIOUS
  <2>5. PICK e : e = FindBytes(w, h + 4, inner_delimiter)
    OBVIOUS
  <2>6. PICK p : p = Padded(w, e + Len(inner_delimiter))
    OBVIOUS
  <2>7. PICK v : v = HeaderVerdict(Piece(w, x, h))
    OBVIOUS
  <2>8. CASE h = NotFound \/ v # "Ok" \/ e = NotFound
    <3>1. f[x] = Outcome(<< >>, << >>, "Incomplete") \/ f[x] = Outcome(<< >>, << >>, v)
      BY <2>2, <2>4, <2>5, <2>7, <2>8, Zenon DEF PartAt
    <3> QED
      BY <2>3, <3>1, Zenon DEF IsOutcome
  <2>9. CASE ~(h = NotFound \/ v # "Ok" \/ e = NotFound)
    <3>1. PICK body : body = Piece(w, h + 4, e)
      OBVIOUS
    <3>2. f[x] = Delimited(w, p, body, f[p + 2])
      BY <2>2, <2>4, <2>5, <2>6, <2>7, <2>9, <3>1, Zenon DEF PartAt
    <3>3. h \in Nat /\ e \in Nat /\ e + 5 <= Len(w) /\ p + 2 \in Offsets(w) /\ p + 2 > x
      BY <2>3, <2>4, <2>5, <2>6, <2>9, PartEnds
    <3>4. h + 4 \in Nat /\ e \in Int /\ e <= Len(w)
      BY <3>3, LenProperties
    <3>5. body \in Seq(Bytes)
      BY <3>1, <3>4, PieceBytes, Zenon DEF IsPiece
    <3>6. PICK y : y = p + 2
      OBVIOUS
    <3>7. y \in Nat /\ y > x
      BY <1>1, <3>3, <3>6
    <3>8. y + n > L
      BY <1>1, <2>1, <2>3, <3>7
    <3>9. IsOutcome(f[p + 2])
      BY <1>3, <3>3, <3>6, <3>8
    <3> QED
      BY <3>2, <3>5, <3>9, DelimitedTypes
  <2> QED
    BY <2>8, <2>9
<1> HIDE DEF Known
<1>4. L + 1 \in Known
  BY <1>1, <1>2, <1>3, NatSetInduction
<1>5. \A x \in Offsets(w) : x + (L + 1) > L
  BY <1>1
<1> QED
  BY <1>4, <1>5 DEF Known

-----------------------------------------------------------------------------
(* The parser stands at one point of the reference.                        *)

\* In state st, with the parts ps returned and the wire read up to the offset at.
Stands(w, st, ps, at) ==
    /\ st = "Initial" => ps = << >>
    /\ st = "InPart" => Whole(w) = Behind(ps, WholeFrom(w)[at])
    /\ st = "AfterInnerDelimiter" =>
          \E qs \in PartSeqs, body \in Seq(Bytes) :
              ps = qs \o <<body>> /\ Whole(w) = Behind(qs, EndOf(w, at, body))
    /\ st = "Finished" => Whole(w) = Outcome(ps, << >>, "None")

\* A call that returned r, when all of the wire has been fed.
Settled(w, ps, r, fin) ==
    r \notin {"Fed", "BufferOverflow", "Part"} /\ (r = "None" => fin) =>
        IsPrefix(Whole(w).parts, ps) /\ r = Whole(w).ends

\* The parser with d bytes of the wire w drained from its buffer.
Sound(w, d, b, p, s, st, fin, ps) ==
    /\ b \in Seq(Bytes) /\ p \in Nat /\ s \in Nat /\ ps \in PartSeqs
    /\ st \in {"Initial", "InPart", "AfterInnerDelimiter", "Finished"}
    /\ fin \in BOOLEAN /\ (fin <=> st = "Finished")
    /\ View(b, w, d) /\ Resumes(b, p, s, st)
    /\ st = "Initial" => d = 0
    /\ Stands(w, st, ps, d + p)

MultipartInv ==
    /\ input \in Inputs
    /\ \E d \in Nat :
          /\ Sound(input.wire, d, buffer, pos, boundary_scan_offset, state, finished, parts)
          /\ fed = d + Len(buffer)
          /\ fed = Len(input.wire) => Settled(input.wire, parts, result, finished)

\* The reference at its first delimiter.
LEMMA WholeIs ==
    ASSUME NEW w \in Seq(Bytes), NEW i, i = FindBytes(w, 0, first_delimiter),
           NEW p, p = Padded(w, i + 3)
    PROVE  /\ i = NotFound => Whole(w) = Outcome(<< >>, << >>, "Incomplete")
           /\ i # NotFound =>
                /\ Len(w) < p + 2 => Whole(w) = Outcome(<< >>, << >>, "Incomplete")
                /\ ~(Len(w) < p + 2) /\ At(w, p, DashDash) =>
                      Whole(w) = Outcome(<< >>, << >>, "None")
                /\ ~(Len(w) < p + 2) /\ ~At(w, p, DashDash) /\ ~At(w, p, CRLF) =>
                      Whole(w) = Outcome(<< >>, << >>, "InvalidPart")
                /\ ~(Len(w) < p + 2) /\ ~At(w, p, DashDash) /\ At(w, p, CRLF) =>
                      Whole(w) = WholeFrom(w)[p + 2]
<1>1. Len(first_delimiter) = 3
  BY Needles
<1> QED
  BY <1>1, Zenon DEF Whole

LEMMA WholeTypes ==
    ASSUME NEW w \in Seq(Bytes)
    PROVE  IsOutcome(Whole(w))
<1>1. PICK i : i = FindBytes(w, 0, first_delimiter)
  OBVIOUS
<1>2. PICK p : p = Padded(w, i + 3)
  OBVIOUS
<1>3. << >> \in PartSeqs
  BY EmptySeq DEF PartSeqs
<1>4. CASE i = NotFound \/ Len(w) < p + 2 \/ At(w, p, DashDash) \/ ~At(w, p, CRLF)
  <2>1. \E r : Whole(w) = Outcome(<< >>, << >>, r)
    BY <1>1, <1>2, <1>4, WholeIs
  <2> QED
    BY <1>3, <2>1, Zenon DEF IsOutcome
<1>5. CASE ~(i = NotFound \/ Len(w) < p + 2 \/ At(w, p, DashDash) \/ ~At(w, p, CRLF))
  <2>1. Whole(w) = WholeFrom(w)[p + 2]
    BY <1>1, <1>2, <1>5, WholeIs
  <2>2. Finds(w, 0, first_delimiter, i)
    BY <1>1, Needles, FindFinds
  <2>3. i \in Nat /\ At(w, i, first_delimiter)
    BY <1>5, <2>2 DEF Finds
  <2>4. i + 3 \in Nat /\ i + 3 <= Len(w)
    <3>1. i + Len(first_delimiter) <= Len(w)
      BY <2>3, AtFits
    <3> QED
      BY <2>3, <3>1, Needles
  <2>5. Pads(w, i + 3, p)
    BY <1>2, <2>4, PaddedPads
  <2>6. p \in Nat /\ p <= Len(w)
    <3>1. p \in (i + 3)..Len(w)
      BY <2>5 DEF Pads
    <3> QED
      BY <2>4, <3>1, LenProperties
  <2>7. p + 2 \in Offsets(w)
    BY <2>6, LenProperties DEF Offsets
  <2> QED
    BY <2>1, <2>7, WholeFromTypes
<1> QED
  BY <1>4, <1>5

\* The delimiter that ends at a is followed by "--" or CRLF, or by neither.
LEMMA EndOfIs ==
    ASSUME NEW w \in Seq(Bytes), NEW a \in Nat, a <= Len(w), NEW body \in Seq(Bytes),
           NEW p, p = Padded(w, a), NEW o, o = EndOf(w, a, body)
    PROVE  /\ IsOutcome(o)
           /\ p \in Nat /\ a <= p /\ p <= Len(w)
           /\ Len(w) < p + 2 => o = Outcome(<<body>>, << >>, "Incomplete")
           /\ ~(Len(w) < p + 2) /\ At(w, p, DashDash) => o = Outcome(<<body>>, << >>, "None")
           /\ ~(Len(w) < p + 2) /\ ~At(w, p, DashDash) /\ ~At(w, p, CRLF) =>
                 o = Outcome(<< >>, <<body>>, "InvalidPart")
           /\ ~(Len(w) < p + 2) /\ ~At(w, p, DashDash) /\ At(w, p, CRLF) =>
                 o = Behind(<<body>>, WholeFrom(w)[p + 2]) /\ IsOutcome(WholeFrom(w)[p + 2])
<1>1. Len(w) \in Nat
  BY LenProperties
<1>2. Pads(w, a, p)
  BY PaddedPads
<1>3. p \in Nat /\ a <= p /\ p <= Len(w)
  <2>1. p \in a..Len(w)
    BY <1>2 DEF Pads
  <2> QED
    BY <1>1, <2>1
<1>4. p + 2 \in Offsets(w)
  BY <1>1, <1>3 DEF Offsets
<1>5. PICK rest : rest = WholeFrom(w)[p + 2]
  OBVIOUS
<1>6. IsOutcome(rest)
  BY <1>4, <1>5, WholeFromTypes
<1>7. o = Delimited(w, p, body, rest)
  BY <1>5 DEF EndOf
<1>8. IsOutcome(o)
  BY <1>6, <1>7, DelimitedTypes
<1>9. /\ Len(w) < p + 2 => o = Outcome(<<body>>, << >>, "Incomplete")
      /\ ~(Len(w) < p + 2) /\ At(w, p, DashDash) => o = Outcome(<<body>>, << >>, "None")
      /\ ~(Len(w) < p + 2) /\ ~At(w, p, DashDash) /\ ~At(w, p, CRLF) =>
            o = Outcome(<< >>, <<body>>, "InvalidPart")
      /\ ~(Len(w) < p + 2) /\ ~At(w, p, DashDash) /\ At(w, p, CRLF) =>
            o = Behind(<<body>>, rest)
  BY <1>7, Zenon DEF Delimited, Behind
<1> QED
  BY <1>3, <1>5, <1>6, <1>8, <1>9, Zenon

-----------------------------------------------------------------------------
(* Steps.                                                                  *)

LEMMA WireBytes ==
    ASSUME input \in Inputs
    PROVE  input.wire \in Seq(Bytes)
  BY MultipartAssumption

LEMMA SoundInit == Init => MultipartInv
<1> SUFFICES ASSUME Init PROVE MultipartInv
  OBVIOUS
<1>1. /\ input \in Inputs /\ fed = 0 /\ buffer = << >> /\ pos = 0
      /\ boundary_scan_offset = 0 /\ state = "Initial" /\ finished = FALSE
      /\ parts = << >> /\ result = "None"
  BY DEF Init
<1>2. input.wire \in Seq(Bytes) /\ Len(input.wire) \in Nat
  BY <1>1, WireBytes, LenProperties
<1>3. buffer \in Seq(Bytes) /\ parts \in PartSeqs /\ Len(buffer) = 0
  BY <1>1, EmptySeq DEF PartSeqs
<1>4. View(buffer, input.wire, 0)
  BY <1>2, <1>3 DEF View
<1>5. Searched(buffer, 0, 0, first_delimiter)
  BY DEF Searched
<1>6. Resumes(buffer, 0, 0, "Initial")
  BY <1>3, <1>5 DEF Resumes
<1>7. Stands(input.wire, "Initial", parts, 0 + 0)
  BY <1>1 DEF Stands
<1>8. Sound(input.wire, 0, buffer, pos, boundary_scan_offset, state, finished, parts)
  BY <1>1, <1>3, <1>4, <1>6, <1>7 DEF Sound
<1>9. Settled(input.wire, parts, result, finished)
  BY <1>1 DEF Settled
<1>10. 0 \in Nat /\ fed = 0 + Len(buffer)
  BY <1>1, <1>3
<1> QED
  BY <1>1, <1>8, <1>9, <1>10 DEF MultipartInv

\* feed leaves everything where it was.
LEMMA SoundGrows ==
    ASSUME NEW w \in Seq(Bytes), NEW d \in Nat, NEW b, NEW p, NEW s, NEW st, NEW fin, NEW ps,
           Sound(w, d, b, p, s, st, fin, ps),
           NEW c \in Seq(Bytes), View(c, w, d), Len(b) <= Len(c)
    PROVE  Sound(w, d, c, p, s, st, fin, ps)
<1>1. /\ b \in Seq(Bytes) /\ p \in Nat /\ s \in Nat /\ View(b, w, d)
      /\ p <= Len(b) /\ s <= Len(b)
      /\ st = "Initial" => p = 0 /\ Searched(b, 0, s, first_delimiter)
      /\ st = "InPart" => PartOffsets(b, p, s)
  BY DEF Sound, Resumes
<1>2. p <= Len(c) /\ s <= Len(c)
  BY <1>1, LenProperties
<1>3. Len(first_delimiter) >= 1 /\ Len(inner_delimiter) >= 1
  BY Needles
<1>4. Searched(b, 0, s, first_delimiter) => Searched(c, 0, s, first_delimiter)
  BY <1>1, <1>3, Needles, SearchedGrows
<1>5. ASSUME PartOffsets(b, p, s) PROVE PartOffsets(c, p, s)
  <2>1. CASE s <= p
    BY <2>1 DEF PartOffsets
  <2>2. CASE ~(s <= p)
    <3>1. PICK h \in Nat : /\ h = FindBytes(b, p, CRLF \o CRLF)
                           /\ Searched(b, h + 4, s, inner_delimiter)
      BY <1>5, <2>2 DEF PartOffsets
    <3>2. h = FindBytes(c, p, CRLF \o CRLF)
      <4>1. PICK blank : blank = CRLF \o CRLF
        OBVIOUS
      <4>2. blank \in Seq(Bytes) /\ h = FindBytes(b, p, blank)
        BY <3>1, <4>1, Needles
      <4>3. FindBytes(c, p, blank) = h
        BY <1>1, <4>2, FoundGrows
      <4> QED
        BY <4>1, <4>3
    <3>3. h + 4 \in Nat
      BY <3>1
    <3>4. Searched(c, h + 4, s, inner_delimiter)
      BY <1>1, <1>3, <3>1, <3>3, Needles, SearchedGrows
    <3> QED
      BY <3>2, <3>4 DEF PartOffsets
  <2> QED
    BY <2>1, <2>2
<1>6. Resumes(c, p, s, st)
  BY <1>1, <1>2, <1>4, <1>5 DEF Resumes
<1> QED
  BY <1>6 DEF Sound

LEMMA FeedStep ==
    ASSUME MultipartInv, NEW n \in 1..Len(input.wire), Feed(n)
    PROVE  MultipartInv'
<1>1. PICK d \in Nat :
         /\ Sound(input.wire, d, buffer, pos, boundary_scan_offset, state, finished, parts)
         /\ fed = d + Len(buffer)
  BY DEF MultipartInv
<1>2. input \in Inputs /\ input.wire \in Seq(Bytes)
  BY WireBytes DEF MultipartInv
<1>3. buffer \in Seq(Bytes) /\ View(buffer, input.wire, d)
  BY <1>1 DEF Sound
<1>4. Len(input.wire) \in Nat /\ Len(buffer) \in Nat
  BY <1>2, <1>3, LenProperties
<1>5. n \in Nat
  BY <1>4
<1>6. /\ input' = input /\ pos' = pos /\ boundary_scan_offset' = boundary_scan_offset
      /\ state' = state /\ finished' = finished /\ parts' = parts
      /\ fed + n <= Len(input.wire)
  BY DEF Feed
<1>7. result' \in {"Fed", "BufferOverflow"}
  BY DEF Feed
<1>8. Settled(input'.wire, parts', result', finished')
  BY <1>7 DEF Settled
<1>9. CASE buffer' = buffer /\ fed' = fed
  BY <1>1, <1>2, <1>6, <1>8, <1>9 DEF MultipartInv
<1>10. CASE buffer' = buffer \o SubSeq(input.wire, fed + 1, fed + n) /\ fed' = fed + n
  <2>1. PICK w : w = input.wire
    OBVIOUS
  <2>2. w \in Seq(Bytes) /\ View(buffer, w, d) /\ fed + n <= Len(w)
    BY <1>2, <1>3, <1>6, <2>1
  <2>3. Extended(buffer', buffer, w, fed, n)
    BY <1>10, <2>1, Zenon DEF Extended
  <2>4. /\ buffer' \in Seq(Bytes) /\ Len(buffer') = Len(buffer) + n
        /\ View(buffer', input.wire, d)
    BY <1>1, <1>3, <1>5, <2>1, <2>2, <2>3, ViewGrows
  <2>5. Len(buffer) <= Len(buffer') /\ fed' = d + Len(buffer')
    BY <1>1, <1>4, <1>5, <1>10, <2>4
  <2>6. Sound(input.wire, d, buffer', pos, boundary_scan_offset, state, finished, parts)
    BY <1>1, <1>2, <2>4, <2>5, SoundGrows
  <2> QED
    BY <1>2, <1>6, <1>8, <2>5, <2>6 DEF MultipartInv
<1> QED
  BY <1>9, <1>10 DEF Feed

\* The end of InPart: the offset p of the old buffer is read up to.
LEMMA ReturnPartMoves ==
    ASSUME NEW w \in Seq(Bytes), NEW d \in Nat, buffer \in Seq(Bytes), View(buffer, w, d),
           NEW p \in Nat, p <= Len(buffer), ReturnPart(p)
    PROVE  \E e \in Nat :
              /\ buffer' \in Seq(Bytes) /\ View(buffer', w, e)
              /\ pos' \in Nat /\ pos' <= Len(buffer') /\ boundary_scan_offset' = pos'
              /\ e + pos' = d + p /\ e + Len(buffer') = d + Len(buffer)
<1>1. Len(buffer) \in Nat
  BY LenProperties
<1>2. CASE Drains(p)
  <2>1. buffer' = SubSeq(buffer, p + 1, Len(buffer)) /\ pos' = 0 /\ boundary_scan_offset' = 0
    BY <1>2 DEF ReturnPart
  <2>2. /\ buffer' \in Seq(Bytes) /\ Len(buffer') = Len(buffer) - p
        /\ View(buffer', w, d + p)
    <3>1. PICK l : l = Len(buffer)
      OBVIOUS
    <3>2. l \in Int /\ l <= Len(buffer)
      BY <1>1, <3>1
    <3>3. buffer' = Piece(buffer, p, l)
      BY <2>1, <3>1, Zenon DEF Piece
    <3>4. IsPiece(Piece(buffer, p, l), buffer, p, l)
      BY <3>2, PieceBytes
    <3>5. IsPiece(buffer', buffer, p, Len(buffer))
      BY <3>1, <3>3, <3>4, Zenon
    <3> QED
      BY <3>5, ViewOfPiece
  <2>3. d + p \in Nat /\ pos' \in Nat /\ pos' <= Len(buffer') /\ d + p + pos' = d + p
    BY <1>1, <2>1, <2>2
  <2>4. d + p + Len(buffer') = d + Len(buffer)
    BY <1>1, <2>2
  <2> QED
    BY <2>1, <2>2, <2>3, <2>4
<1>3. CASE ~Drains(p)
  BY <1>3 DEF ReturnPart
<1> QED
  BY <1>2, <1>3

\* What stays as it is when InPart returns no part.
Stays(from, at, r) ==
    /\ pos' = from /\ state' = "InPart" /\ boundary_scan_offset' = at
    /\ buffer' = buffer /\ finished' = finished /\ parts' = parts /\ result' = r

Returned(p, st, body) ==
    /\ ReturnPart(p) /\ state' = st /\ finished' = (st = "Finished")
    /\ parts' = Append(parts, body) /\ result' = "Part"

\* What InPart looks up: the end of the header, its verdict, the end of the
\* body, of the padding behind the delimiter, and the body.
PartRead(b, from, scan, h, v, e, p, body) ==
    /\ h = FindBytes(b, from, CRLF \o CRLF)
    /\ v = HeaderVerdict(Piece(b, from, h))
    /\ e = FindBytes(b, Most(h + 4, scan), inner_delimiter)
    /\ p = Padded(b, e + Len(inner_delimiter))
    /\ body = Piece(b, h + 4, e)

\* InPart as one of seven outcomes.
LEMMA InPartCases ==
    ASSUME NEW from, NEW scan, InPart(from, scan),
           NEW h, NEW v, NEW e, NEW p, NEW body, PartRead(buffer, from, scan, h, v, e, p, body)
    PROVE  \/ h = NotFound /\ Stays(from, scan, "Incomplete")
           \/ h # NotFound /\ v # "Ok" /\ Stays(from, scan, v)
           \/ /\ h # NotFound /\ v = "Ok" /\ e = NotFound
              /\ Stays(from, ResumeAt(inner_delimiter, h + 4), "Incomplete")
           \/ /\ h # NotFound /\ v = "Ok" /\ e # NotFound
              /\ \/ /\ ~(Len(buffer) < p + 2) /\ ~At(buffer, p, DashDash) /\ ~At(buffer, p, CRLF)
                    /\ Stays(from, scan, "InvalidPart")
                 \/ /\ ~(Len(buffer) < p + 2) /\ At(buffer, p, DashDash)
                    /\ Returned(from, "Finished", body)
                 \/ /\ ~(Len(buffer) < p + 2) /\ ~At(buffer, p, DashDash) /\ At(buffer, p, CRLF)
                    /\ Returned(p + 2, "InPart", body)
                 \/ /\ Len(buffer) < p + 2
                    /\ Returned(p, "AfterInnerDelimiter", body)
<1>1. CASE h = NotFound
  <2>1. Stays(from, scan, "Incomplete")
    BY <1>1 DEF InPart, PartRead, Stays, Returns
  <2> QED
    BY <1>1, <2>1
<1>2. CASE h # NotFound /\ v # "Ok"
  <2>1. Stays(from, scan, v)
    BY <1>2 DEF InPart, PartRead, Stays, Returns
  <2> QED
    BY <1>2, <2>1
<1>3. CASE h # NotFound /\ v = "Ok" /\ e = NotFound
  <2>1. Stays(from, ResumeAt(inner_delimiter, h + 4), "Incomplete")
    BY <1>3 DEF InPart, PartRead, Stays, Returns
  <2> QED
    BY <1>3, <2>1
<1>4. CASE h # NotFound /\ v = "Ok" /\ e # NotFound
  <2> DEFINE undecided == Len(buffer) < p + 2
             closes == ~undecided /\ At(buffer, p, DashDash)
             goesOn == ~undecided /\ At(buffer, p, CRLF)
  <2>1. CASE ~(undecided \/ closes \/ goesOn)
    <3>1. Stays(from, scan, "InvalidPart")
      BY <1>4, <2>1 DEF InPart, PartRead, Stays, Returns
    <3> QED
      BY <1>4, <2>1, <3>1
  <2>2. CASE undecided \/ closes \/ goesOn
    <3>1. /\ ReturnPart(IF closes THEN from ELSE IF goesOn THEN p + 2 ELSE p)
          /\ state' = (IF closes THEN "Finished" ELSE IF goesOn THEN "InPart"
                       ELSE "AfterInnerDelimiter")
          /\ finished' = closes /\ parts' = Append(parts, body) /\ result' = "Part"
      BY <1>4, <2>2 DEF InPart, PartRead, Returns
    <3>2. CASE closes
      <4>1. Returned(from, "Finished", body)
        BY <3>1, <3>2 DEF Returned
      <4> QED
        BY <1>4, <3>2, <4>1
    <3>3. CASE ~closes /\ goesOn
      <4>1. Returned(p + 2, "InPart", body)
        BY <3>1, <3>3 DEF Returned
      <4> QED
        BY <1>4, <3>3, <4>1
    <3>4. CASE ~closes /\ ~goesOn
      <4>1. Returned(p, "AfterInnerDelimiter", body)
        BY <3>1, <3>4 DEF Returned
      <4> QED
        BY <1>4, <2>2, <3>4, <4>1
    <3> QED
      BY <3>2, <3>3, <3>4
  <2> QED
    BY <2>1, <2>2
<1> QED
  BY <1>1, <1>2, <1>3, <1>4

\* The part at the offset from of the buffer, in the wire.
LEMMA PartInWire ==
    ASSUME NEW w \in Seq(Bytes), NEW d \in Nat, NEW b \in Seq(Bytes), View(b, w, d),
           NEW from \in Nat, from <= Len(b), NEW scan \in Nat, PartOffsets(b, from, scan),
           NEW h, NEW v, NEW e, NEW p, NEW body, PartRead(b, from, scan, h, v, e, p, body),
           NEW o, o = WholeFrom(w)[d + from]
    PROVE  /\ IsOutcome(o)
           /\ h = NotFound /\ d + Len(b) = Len(w) => o = Outcome(<< >>, << >>, "Incomplete")
           /\ h # NotFound =>
                /\ h \in Nat /\ h + 4 <= Len(b)
                /\ v # "Ok" => o = Outcome(<< >>, << >>, v)
                /\ e = FindBytes(b, h + 4, inner_delimiter)
                /\ v = "Ok" /\ e = NotFound /\ d + Len(b) = Len(w) =>
                      o = Outcome(<< >>, << >>, "Incomplete")
                /\ e # NotFound => /\ e \in Nat /\ e + 5 <= Len(b) /\ body \in Seq(Bytes)
                                   /\ p = Padded(b, e + 5)
                                   /\ v = "Ok" => o = EndOf(w, d + (e + 5), body)
<1>1. Len(b) \in Nat /\ Len(w) \in Nat /\ d + Len(b) <= Len(w)
  BY LenProperties DEF View
<1>2. PICK x : x = d + from
  OBVIOUS
<1>3. x \in Nat /\ x \in Offsets(w)
  BY <1>1, <1>2 DEF Offsets
<1>4. o = PartAt(w, x, WholeFrom(w)) /\ IsOutcome(o)
  BY <1>2, <1>3, WholeFromIs, WholeFromTypes
<1>5. PICK blank : blank = CRLF \o CRLF
  OBVIOUS
<1>6. blank \in Seq(Bytes) /\ Len(blank) = 4 /\ h = FindBytes(b, from, blank)
  BY <1>5, Needles DEF PartRead
<1>7. /\ h # NotFound => /\ h \in Nat /\ h >= from /\ h + 4 <= Len(b)
                         /\ FindBytes(w, x, blank) = d + h
      /\ h = NotFound /\ d + Len(b) = Len(w) => FindBytes(w, x, blank) = NotFound
  <2>1. FoundIn(b, w, d, blank, from, h)
    BY <1>6, ViewFind
  <2> QED
    BY <1>2, <1>6, <2>1 DEF FoundIn
<1>8. ASSUME h = NotFound, d + Len(b) = Len(w) PROVE o = Outcome(<< >>, << >>, "Incomplete")
  BY <1>4, <1>5, <1>7, <1>8, Zenon DEF PartAt
<1>9. ASSUME h # NotFound
      PROVE  /\ v # "Ok" => o = Outcome(<< >>, << >>, v)
             /\ e = FindBytes(b, h + 4, inner_delimiter)
             /\ v = "Ok" /\ e = NotFound /\ d + Len(b) = Len(w) =>
                   o = Outcome(<< >>, << >>, "Incomplete")
             /\ e # NotFound => /\ e \in Nat /\ e + 5 <= Len(b) /\ body \in Seq(Bytes)
                                /\ p = Padded(b, e + 5)
                                /\ v = "Ok" => o = EndOf(w, d + (e + 5), body)
  <2>1. PICK H : H = d + h
    OBVIOUS
  <2>2. h \in Nat /\ h >= from /\ h + 4 <= Len(b) /\ FindBytes(w, x, blank) = H
    BY <1>7, <1>9, <2>1
  <2>3. h <= Len(b) /\ h + 4 \in Nat /\ H # NotFound /\ H + 4 = d + (h + 4)
    BY <1>1, <2>1, <2>2 DEF NotFound
  <2>4. v = HeaderVerdict(Piece(w, x, H))
    <3>1. Piece(b, from, h) = Piece(w, d + from, d + h)
      BY <2>2, <2>3, ViewPiece
    <3> QED
      BY <1>2, <2>1, <3>1 DEF PartRead
  <2>5. PICK y : y = h + 4
    OBVIOUS
  <2>6. y \in Nat /\ H + 4 = d + y /\ y <= Len(b)
    BY <2>2, <2>3, <2>5
  <2>7. Searched(b, y, scan, inner_delimiter)
    <3>1. CASE scan <= from
      <4>1. scan <= y /\ \A i \in Nat : ~(y <= i /\ i < scan)
        BY <2>2, <2>5, <3>1
      <4> QED
        BY <4>1 DEF Searched
    <3>2. CASE ~(scan <= from)
      <4>1. \E k \in Nat : /\ k = FindBytes(b, from, CRLF \o CRLF)
                           /\ Searched(b, k + 4, scan, inner_delimiter)
        BY <3>2, Zenon DEF PartOffsets
      <4> QED
        BY <1>5, <1>6, <2>5, <4>1, Zenon
    <3> QED
      BY <3>1, <3>2
  <2>8. e = FindBytes(b, y, inner_delimiter)
    <3>1. e = FindBytes(b, Most(y, scan), inner_delimiter)
      BY <2>5 DEF PartRead
    <3> QED
      BY <2>6, <2>7, <3>1, Needles, FindGoesOn
  <2>9. PICK E : E = FindBytes(w, H + 4, inner_delimiter)
    OBVIOUS
  <2>10. /\ e # NotFound => e \in Nat /\ e + 5 <= Len(b) /\ E = d + e
         /\ e = NotFound /\ d + Len(b) = Len(w) => E = NotFound
    <3>1. FoundIn(b, w, d, inner_delimiter, y, e)
      BY <2>6, <2>8, Needles, ViewFind
    <3> QED
      BY <2>6, <2>9, <3>1, Needles DEF FoundIn
  <2>11. v # "Ok" => o = Outcome(<< >>, << >>, v)
    BY <1>4, <1>5, <2>2, <2>3, <2>4, Zenon DEF PartAt
  <2>12. ASSUME v = "Ok", e = NotFound, d + Len(b) = Len(w)
         PROVE  o = Outcome(<< >>, << >>, "Incomplete")
    BY <1>4, <1>5, <2>2, <2>3, <2>4, <2>9, <2>10, <2>12, Zenon DEF PartAt
  <2>13. ASSUME e # NotFound
         PROVE  /\ e \in Nat /\ e + 5 <= Len(b) /\ body \in Seq(Bytes)
                /\ p = Padded(b, e + 5)
                /\ v = "Ok" => o = EndOf(w, d + (e + 5), body)
    <3>1. e \in Nat /\ e + 5 <= Len(b) /\ E = d + e
      BY <2>10, <2>13
    <3>2. e <= Len(b) /\ E # NotFound /\ E + 5 = d + (e + 5) /\ e \in Int
      BY <1>1, <3>1 DEF NotFound
    <3>3. p = Padded(b, e + 5)
      BY Needles DEF PartRead
    <3>4. body \in Seq(Bytes)
      <4>1. IsPiece(body, b, y, e)
        BY <2>5, <2>6, <3>2, PieceBytes DEF PartRead
      <4> QED
        BY <4>1 DEF IsPiece
    <3>5. body = Piece(w, H + 4, E)
      <4>1. Piece(b, y, e) = Piece(w, d + y, d + e)
        BY <2>6, <3>1, <3>2, ViewPiece
      <4> QED
        BY <2>5, <2>6, <3>1, <4>1 DEF PartRead
    <3>6. PICK q : q = Padded(w, E + 5)
      OBVIOUS
    <3>7. v = "Ok" => o = Delimited(w, q, body, WholeFrom(w)[q + 2])
      <4>1. q = Padded(w, E + Len(inner_delimiter))
        BY <3>6, Needles
      <4> QED
        BY <1>4, <1>5, <2>2, <2>3, <2>4, <2>9, <3>2, <3>5, <4>1, Zenon DEF PartAt
    <3>8. q = Padded(w, d + (e + 5))
      BY <3>2, <3>6
    <3> QED
      BY <3>1, <3>3, <3>4, <3>7, <3>8 DEF EndOf
  <2> QED
    BY <2>5, <2>8, <2>11, <2>12, <2>13, Zenon
<1> QED
  BY <1>4, <1>7, <1>8, <1>9
LEMMA PrefixOfJoin ==
    ASSUME NEW S, NEW s \in Seq(S), NEW u \in Seq(S)
    PROVE  IsPrefix(s, s \o u)
<1>1. Len(s) \in Nat /\ Len(u) \in Nat
  BY LenProperties
<1>2. Len(s \o u) = Len(s) + Len(u)
  BY Joined
<1>3. SubSeq(s \o u, 1, Len(s)) = SubSeq(s, 1, Len(s))
  BY <1>1, PrefixOfConcat
<1>4. Len(s) <= Len(s \o u)
  BY <1>1, <1>2
<1> QED
  BY <1>3, <1>4 DEF IsPrefix

\* The end of a call of next_part: the parser is sound, with what it has drained
\* moved from the buffer, and what it answers is settled.
Reached(w, d) ==
    \E e \in Nat :
        /\ Sound(w, e, buffer', pos', boundary_scan_offset', state', finished', parts')
        /\ e + Len(buffer') = d + Len(buffer)
        /\ d + Len(buffer) = Len(w) => Settled(w, parts', result', finished')

\* What the reference says where it ends with r behind the parts ps.
LEMMA EndsSettled ==
    ASSUME NEW w \in Seq(Bytes), NEW ps \in PartSeqs, NEW r,
           Whole(w) = Behind(ps, Outcome(<< >>, << >>, r)), NEW fin
    PROVE  Settled(w, ps, r, fin)
<1>1. << >> \in PartSeqs
  BY EmptySeq DEF PartSeqs
<1>2. PICK o : o = Outcome(<< >>, << >>, r)
  OBVIOUS
<1>3. IsOutcome(o) /\ o.parts = << >> /\ o.ends = r
  <2>1. IsOutcome(o)
    BY <1>1, <1>2, Zenon DEF IsOutcome
  <2> QED
    BY <1>2, <2>1, OutcomeFields
<1>4. Whole(w).parts = ps \o o.parts /\ Whole(w).ends = o.ends
  BY <1>2, <1>3, BehindTypes
<1>5. Whole(w).parts = ps
  BY <1>1, <1>3, <1>4, Joins
<1>6. IsPrefix(ps, ps)
  <2>1. ps \o << >> = ps
    BY <1>1, Joins
  <2>2. IsPrefix(ps, ps \o << >>)
    BY <1>1, PrefixOfJoin, Zenon DEF PartSeqs
  <2> QED
    BY <2>1, <2>2, Zenon
<1> QED
  BY <1>3, <1>4, <1>5, <1>6 DEF Settled

LEMMA StaysSound ==
    ASSUME NEW w \in Seq(Bytes), NEW d \in Nat, buffer \in Seq(Bytes), View(buffer, w, d),
           NEW from \in Nat, from <= Len(buffer), parts \in PartSeqs, finished = FALSE,
           Whole(w) = Behind(parts, WholeFrom(w)[d + from]),
           NEW at \in Nat, at <= Len(buffer), PartOffsets(buffer, from, at),
           NEW r, Stays(from, at, r),
           d + Len(buffer) = Len(w) => Settled(w, parts, r, FALSE)
    PROVE  Reached(w, d)
<1>1. /\ pos' = from /\ state' = "InPart" /\ boundary_scan_offset' = at
      /\ buffer' = buffer /\ finished' = FALSE /\ parts' = parts /\ result' = r
  BY DEF Stays
<1>2. Resumes(buffer, from, at, "InPart")
  BY DEF Resumes
<1>3. Stands(w, "InPart", parts, d + from)
  BY DEF Stands
<1>4. Sound(w, d, buffer, from, at, "InPart", FALSE, parts)
  BY <1>2, <1>3 DEF Sound
<1> QED
  BY <1>1, <1>4 DEF Reached

LEMMA ReturnedSound ==
    ASSUME NEW w \in Seq(Bytes), NEW d \in Nat, buffer \in Seq(Bytes), View(buffer, w, d),
           parts \in PartSeqs, NEW q \in Nat, q <= Len(buffer),
           NEW st \in {"InPart", "AfterInnerDelimiter", "Finished"}, NEW body \in Seq(Bytes),
           Returned(q, st, body), Stands(w, st, parts \o <<body>>, d + q)
    PROVE  Reached(w, d)
<1>1. /\ ReturnPart(q) /\ state' = st /\ finished' = (st = "Finished")
      /\ parts' = Append(parts, body) /\ result' = "Part"
  BY DEF Returned
<1>2. parts' = parts \o <<body>> /\ parts' \in PartSeqs
  <2>1. Append(parts, body) = parts \o <<body>>
    BY AppendIsConcat DEF PartSeqs
  <2>2. parts \o <<body>> \in PartSeqs
    BY OnePart, Joins
  <2> QED
    BY <1>1, <2>1, <2>2
<1>3. PICK e \in Nat :
         /\ buffer' \in Seq(Bytes) /\ View(buffer', w, e)
         /\ pos' \in Nat /\ pos' <= Len(buffer') /\ boundary_scan_offset' = pos'
         /\ e + pos' = d + q /\ e + Len(buffer') = d + Len(buffer)
  BY <1>1, ReturnPartMoves
<1>4. Resumes(buffer', pos', boundary_scan_offset', st)
  BY <1>3 DEF Resumes, PartOffsets
<1>5. Stands(w, st, parts', e + pos')
  BY <1>2, <1>3
<1>6. (st = "Finished") \in BOOLEAN
  OBVIOUS
<1>7. Sound(w, e, buffer', pos', boundary_scan_offset', state', finished', parts')
  BY <1>1, <1>2, <1>3, <1>4, <1>5, <1>6 DEF Sound
<1>8. Settled(w, parts', result', finished')
  BY <1>1 DEF Settled
<1> QED
  BY <1>3, <1>7, <1>8 DEF Reached
\* What follows a delimiter is the same in the buffer as in the wire.
Follows(b, w, d, p) ==
    ~(Len(b) < p + 2) =>
        /\ p < Len(b) /\ ~(Len(w) < d + p + 2)
        /\ At(b, p, DashDash) <=> At(w, d + p, DashDash)
        /\ At(b, p, CRLF) <=> At(w, d + p, CRLF)

LEMMA ViewFollows ==
    ASSUME NEW b \in Seq(Bytes), NEW w \in Seq(Bytes), NEW d \in Nat, View(b, w, d),
           NEW p \in Nat
    PROVE  Follows(b, w, d, p)
<1> SUFFICES ASSUME ~(Len(b) < p + 2)
             PROVE  /\ p < Len(b) /\ ~(Len(w) < d + p + 2)
                    /\ At(b, p, DashDash) <=> At(w, d + p, DashDash)
                    /\ At(b, p, CRLF) <=> At(w, d + p, CRLF)
  BY DEF Follows
<1>1. Len(b) \in Nat /\ Len(w) \in Nat /\ d + Len(b) <= Len(w)
  BY LenProperties DEF View
<1>2. p < Len(b) /\ ~(Len(w) < d + p + 2) /\ p + 2 <= Len(b)
  BY <1>1
<1>3. At(b, p, DashDash) <=> At(w, d + p, DashDash)
  BY <1>2, Needles, ViewAt
<1>4. At(b, p, CRLF) <=> At(w, d + p, CRLF)
  BY <1>2, Needles, ViewAt
<1> QED
  BY <1>2, <1>3, <1>4

\* The part that ends at the delimiter in front of the offset a, behind the parts ps.
LEMMA DelimiterSeen ==
    ASSUME NEW w \in Seq(Bytes), NEW d \in Nat, NEW b \in Seq(Bytes), View(b, w, d),
           NEW a \in Nat, a <= Len(b), NEW p, p = Padded(b, a),
           NEW ps \in PartSeqs, NEW body \in Seq(Bytes),
           Whole(w) = Behind(ps, EndOf(w, d + a, body))
    PROVE  /\ p \in Nat /\ p <= Len(b)
           /\ Whole(w) = Behind(ps, EndOf(w, d + p, body))
           /\ Len(b) < p + 2 /\ d + Len(b) = Len(w) =>
                 Whole(w) = Behind(ps \o <<body>>, Outcome(<< >>, << >>, "Incomplete"))
           /\ ~(Len(b) < p + 2) =>
                /\ At(b, p, DashDash) => Whole(w) = Outcome(ps \o <<body>>, << >>, "None")
                /\ ~At(b, p, DashDash) /\ ~At(b, p, CRLF) =>
                      Whole(w) = Outcome(ps, <<body>>, "InvalidPart")
                /\ ~At(b, p, DashDash) /\ At(b, p, CRLF) =>
                      Whole(w) = Behind(ps \o <<body>>, WholeFrom(w)[d + (p + 2)])
<1>1. Len(b) \in Nat /\ Len(w) \in Nat /\ d + Len(b) <= Len(w)
  BY LenProperties DEF View
<1>2. /\ p \in Nat /\ p <= Len(b)
      /\ p < Len(b) \/ d + Len(b) = Len(w) => Padded(w, d + a) = d + p
      /\ Padded(w, d + a) = Padded(w, d + p)
  BY ViewPadded
<1>3. EndOf(w, d + a, body) = EndOf(w, d + p, body)
  BY <1>2, Zenon DEF EndOf
<1>4. PICK A : A = d + a
  OBVIOUS
<1>5. A \in Nat /\ A <= Len(w)
  BY <1>1, <1>4
<1>6. PICK q, o : q = Padded(w, A) /\ o = EndOf(w, A, body)
  OBVIOUS
<1>7. Whole(w) = Behind(ps, o)
  BY <1>4, <1>6
<1>8. /\ IsOutcome(o)
      /\ Len(w) < q + 2 => o = Outcome(<<body>>, << >>, "Incomplete")
      /\ ~(Len(w) < q + 2) /\ At(w, q, DashDash) => o = Outcome(<<body>>, << >>, "None")
      /\ ~(Len(w) < q + 2) /\ ~At(w, q, DashDash) /\ ~At(w, q, CRLF) =>
            o = Outcome(<< >>, <<body>>, "InvalidPart")
      /\ ~(Len(w) < q + 2) /\ ~At(w, q, DashDash) /\ At(w, q, CRLF) =>
            o = Behind(<<body>>, WholeFrom(w)[q + 2]) /\ IsOutcome(WholeFrom(w)[q + 2])
  BY <1>5, <1>6, EndOfIs
<1>9. <<body>> \in PartSeqs /\ << >> \in PartSeqs
  BY OnePart
<1>10. ASSUME NEW qs \in PartSeqs, NEW r
       PROVE  /\ IsOutcome(Outcome(qs, << >>, r))
              /\ Behind(ps, Outcome(qs, << >>, r)) = Outcome(ps \o qs, << >>, r)
  <2>1. IsOutcome(Outcome(qs, << >>, r))
    BY <1>9, Zenon DEF IsOutcome
  <2>2. PICK u : u = Outcome(qs, << >>, r)
    OBVIOUS
  <2>3. u.parts = qs /\ u.doubt = << >> /\ u.ends = r
    BY <2>2, OutcomeFields
  <2> QED
    BY <2>1, <2>2, <2>3, Zenon DEF Behind
<1>11. ASSUME Len(b) < p + 2, d + Len(b) = Len(w)
       PROVE  Whole(w) = Behind(ps \o <<body>>, Outcome(<< >>, << >>, "Incomplete"))
  <2>1. q = d + p /\ Len(w) < q + 2
    BY <1>1, <1>2, <1>4, <1>6, <1>11
  <2>2. PICK u : u = Outcome(<< >>, << >>, "Incomplete")
    OBVIOUS
  <2>3. IsOutcome(u) /\ u.parts = << >> /\ u.doubt = << >> /\ u.ends = "Incomplete"
    BY <1>9, <1>10, <2>2, OutcomeFields
  <2>4. Behind(<<body>>, u) = Outcome(<<body>>, << >>, "Incomplete")
    <3>1. <<body>> \o << >> = <<body>>
      BY <1>9, Joins
    <3> QED
      BY <2>3, <3>1, Zenon DEF Behind
  <2>5. Behind(ps, Behind(<<body>>, u)) = Behind(ps \o <<body>>, u)
    BY <1>9, <2>3, BehindBehind
  <2> QED
    BY <1>7, <1>8, <2>1, <2>2, <2>4, <2>5, Zenon
<1>12. ASSUME ~(Len(b) < p + 2)
       PROVE  /\ At(b, p, DashDash) => Whole(w) = Outcome(ps \o <<body>>, << >>, "None")
              /\ ~At(b, p, DashDash) /\ ~At(b, p, CRLF) =>
                    Whole(w) = Outcome(ps, <<body>>, "InvalidPart")
              /\ ~At(b, p, DashDash) /\ At(b, p, CRLF) =>
                    Whole(w) = Behind(ps \o <<body>>, WholeFrom(w)[d + (p + 2)])
  <2>1. /\ p < Len(b) /\ ~(Len(w) < d + p + 2)
        /\ At(b, p, DashDash) <=> At(w, d + p, DashDash)
        /\ At(b, p, CRLF) <=> At(w, d + p, CRLF)
    BY <1>2, <1>12, ViewFollows DEF Follows
  <2>2. q = d + p
    BY <1>2, <1>4, <1>6, <2>1
  <2>3. ASSUME At(b, p, DashDash) PROVE Whole(w) = Outcome(ps \o <<body>>, << >>, "None")
    <3>1. o = Outcome(<<body>>, << >>, "None")
      BY <1>8, <2>1, <2>2, <2>3, Zenon
    <3> QED
      BY <1>7, <1>9, <1>10, <3>1, Zenon
  <2>4. ASSUME ~At(b, p, DashDash), ~At(b, p, CRLF)
        PROVE  Whole(w) = Outcome(ps, <<body>>, "InvalidPart")
    <3>1. o = Outcome(<< >>, <<body>>, "InvalidPart")
      BY <1>8, <2>1, <2>2, <2>4, Zenon
    <3>2. o.parts = << >> /\ o.doubt = <<body>> /\ o.ends = "InvalidPart"
      BY <3>1, OutcomeFields
    <3>3. ps \o << >> = ps
      BY <1>9, Joins
    <3> QED
      BY <1>7, <3>2, <3>3, Zenon DEF Behind
  <2>5. ASSUME ~At(b, p, DashDash), At(b, p, CRLF)
        PROVE  Whole(w) = Behind(ps \o <<body>>, WholeFrom(w)[d + (p + 2)])
    <3>1. PICK rest : rest = WholeFrom(w)[q + 2]
      OBVIOUS
    <3>2. o = Behind(<<body>>, rest) /\ IsOutcome(rest)
      BY <1>8, <2>1, <2>2, <2>5, <3>1, Zenon
    <3>3. Behind(ps, Behind(<<body>>, rest)) = Behind(ps \o <<body>>, rest)
      BY <1>9, <3>2, BehindBehind
    <3>4. q + 2 = d + (p + 2)
      BY <1>2, <2>2
    <3> QED
      BY <1>7, <3>1, <3>2, <3>3, <3>4, Zenon
  <2> QED
    BY <2>3, <2>4, <2>5
<1> QED
  BY <1>2, <1>3, <1>11, <1>12
LEMMA PrefixOfItself ==
    ASSUME NEW ps \in PartSeqs
    PROVE  IsPrefix(ps, ps)
<1>1. << >> \in PartSeqs
  BY EmptySeq DEF PartSeqs
<1>2. ps \o << >> = ps
  BY <1>1, Joins
<1>3. IsPrefix(ps, ps \o << >>)
  BY <1>1, PrefixOfJoin, Zenon DEF PartSeqs
<1> QED
  BY <1>2, <1>3, Zenon

\* ParserState::InPart, at an offset at which the reference stands too.
LEMMA InPartStep ==
    ASSUME NEW w \in Seq(Bytes), NEW d \in Nat, buffer \in Seq(Bytes), View(buffer, w, d),
           NEW from \in Nat, from <= Len(buffer), NEW scan \in Nat, scan <= Len(buffer),
           PartOffsets(buffer, from, scan), parts \in PartSeqs, finished = FALSE,
           Whole(w) = Behind(parts, WholeFrom(w)[d + from]), InPart(from, scan)
    PROVE  Reached(w, d)
<1>1. Len(buffer) \in Nat /\ Len(w) \in Nat
  BY LenProperties
<1>2. PICK h, v, e, p, body : PartRead(buffer, from, scan, h, v, e, p, body)
  BY Zenon DEF PartRead
<1>3. PICK o : o = WholeFrom(w)[d + from]
  OBVIOUS
<1>4. /\ h = NotFound /\ d + Len(buffer) = Len(w) => o = Outcome(<< >>, << >>, "Incomplete")
      /\ h # NotFound =>
           /\ h \in Nat /\ h + 4 <= Len(buffer)
           /\ v # "Ok" => o = Outcome(<< >>, << >>, v)
           /\ e = FindBytes(buffer, h + 4, inner_delimiter)
           /\ v = "Ok" /\ e = NotFound /\ d + Len(buffer) = Len(w) =>
                 o = Outcome(<< >>, << >>, "Incomplete")
           /\ e # NotFound => /\ e \in Nat /\ e + 5 <= Len(buffer) /\ body \in Seq(Bytes)
                              /\ p = Padded(buffer, e + 5)
                              /\ v = "Ok" => o = EndOf(w, d + (e + 5), body)
  BY <1>2, <1>3, PartInWire
<1>5. ASSUME NEW r, o = Outcome(<< >>, << >>, r) PROVE Settled(w, parts, r, FALSE)
  <2>1. Whole(w) = Behind(parts, Outcome(<< >>, << >>, r))
    BY <1>3, <1>5
  <2> QED
    BY <2>1, EndsSettled
<1>6. ASSUME h = NotFound, Stays(from, scan, "Incomplete") PROVE Reached(w, d)
  <2>1. d + Len(buffer) = Len(w) => Settled(w, parts, "Incomplete", FALSE)
    BY <1>4, <1>5, <1>6
  <2> QED
    BY <1>6, <2>1, StaysSound
<1>7. ASSUME h # NotFound, v # "Ok", Stays(from, scan, v) PROVE Reached(w, d)
  <2>1. Settled(w, parts, v, FALSE)
    BY <1>4, <1>5, <1>7
  <2> QED
    BY <1>7, <2>1, StaysSound
<1>8. ASSUME h # NotFound, v = "Ok", e = NotFound,
             Stays(from, ResumeAt(inner_delimiter, h + 4), "Incomplete")
      PROVE  Reached(w, d)
  <2>1. PICK y, at : y = h + 4 /\ at = ResumeAt(inner_delimiter, y)
    OBVIOUS
  <2>2. y \in Nat /\ y <= Len(buffer) /\ FindBytes(buffer, y, inner_delimiter) = NotFound
    BY <1>4, <1>8, <2>1
  <2>3. at = (IF Len(buffer) - (Len(inner_delimiter) - 1) > y
              THEN Len(buffer) - (Len(inner_delimiter) - 1) ELSE y)
    BY <2>1, Zenon DEF ResumeAt
  <2>4. at \in Nat /\ at <= Len(buffer) /\ Searched(buffer, y, at, inner_delimiter)
    <3>1. inner_delimiter \in Seq(Bytes) /\ Len(inner_delimiter) >= 1
      BY Needles
    <3> QED
      BY <2>2, <2>3, <3>1, Resumed
  <2>5. PartOffsets(buffer, from, at)
    <3>1. h \in Nat /\ h = FindBytes(buffer, from, CRLF \o CRLF)
      BY <1>2, <1>4, <1>8 DEF PartRead
    <3> QED
      BY <2>1, <2>4, <3>1, Zenon DEF PartOffsets
  <2>6. d + Len(buffer) = Len(w) => Settled(w, parts, "Incomplete", FALSE)
    BY <1>4, <1>5, <1>8
  <2>7. Stays(from, at, "Incomplete")
    BY <1>8, <2>1
  <2> QED
    BY <2>4, <2>5, <2>6, <2>7, StaysSound
<1>9. ASSUME h # NotFound, v = "Ok", e # NotFound,
             \/ /\ ~(Len(buffer) < p + 2) /\ ~At(buffer, p, DashDash) /\ ~At(buffer, p, CRLF)
                /\ Stays(from, scan, "InvalidPart")
             \/ /\ ~(Len(buffer) < p + 2) /\ At(buffer, p, DashDash)
                /\ Returned(from, "Finished", body)
             \/ /\ ~(Len(buffer) < p + 2) /\ ~At(buffer, p, DashDash) /\ At(buffer, p, CRLF)
                /\ Returned(p + 2, "InPart", body)
             \/ /\ Len(buffer) < p + 2
                /\ Returned(p, "AfterInnerDelimiter", body)
      PROVE  Reached(w, d)
  <2>1. PICK a : a = e + 5
    OBVIOUS
  <2>2. /\ a \in Nat /\ a <= Len(buffer) /\ body \in Seq(Bytes) /\ p = Padded(buffer, a)
        /\ Whole(w) = Behind(parts, EndOf(w, d + a, body))
    BY <1>3, <1>4, <1>9, <2>1
  <2>3. /\ p \in Nat /\ p <= Len(buffer)
        /\ Whole(w) = Behind(parts, EndOf(w, d + p, body))
        /\ ~(Len(buffer) < p + 2) =>
             /\ At(buffer, p, DashDash) => Whole(w) = Outcome(parts \o <<body>>, << >>, "None")
             /\ ~At(buffer, p, DashDash) /\ ~At(buffer, p, CRLF) =>
                   Whole(w) = Outcome(parts, <<body>>, "InvalidPart")
             /\ ~At(buffer, p, DashDash) /\ At(buffer, p, CRLF) =>
                   Whole(w) = Behind(parts \o <<body>>, WholeFrom(w)[d + (p + 2)])
    BY <2>2, DelimiterSeen
  <2>4. ASSUME ~(Len(buffer) < p + 2), ~At(buffer, p, DashDash), ~At(buffer, p, CRLF),
               Stays(from, scan, "InvalidPart")
        PROVE  Reached(w, d)
    <3>1. Whole(w).parts = parts /\ Whole(w).ends = "InvalidPart"
      BY <2>3, <2>4, OutcomeFields
    <3>2. Settled(w, parts, "InvalidPart", FALSE)
      BY <3>1, PrefixOfItself DEF Settled
    <3> QED
      BY <2>4, <3>2, StaysSound
  <2>5. ASSUME ~(Len(buffer) < p + 2), At(buffer, p, DashDash), Returned(from, "Finished", body)
        PROVE  Reached(w, d)
    <3>1. Stands(w, "Finished", parts \o <<body>>, d + from)
      BY <2>3, <2>5 DEF Stands
    <3> QED
      BY <2>2, <2>5, <3>1, ReturnedSound
  <2>6. ASSUME ~(Len(buffer) < p + 2), ~At(buffer, p, DashDash), At(buffer, p, CRLF),
               Returned(p + 2, "InPart", body)
        PROVE  Reached(w, d)
    <3>1. PICK q : q = p + 2
      OBVIOUS
    <3>2. q \in Nat /\ q <= Len(buffer)
      BY <1>1, <2>3, <2>6, <3>1
    <3>3. Stands(w, "InPart", parts \o <<body>>, d + q)
      BY <2>3, <2>6, <3>1 DEF Stands
    <3> QED
      BY <2>2, <2>6, <3>1, <3>2, <3>3, ReturnedSound
  <2>7. ASSUME Returned(p, "AfterInnerDelimiter", body) PROVE Reached(w, d)
    <3>1. Stands(w, "AfterInnerDelimiter", parts \o <<body>>, d + p)
      <4>1. \E qs \in PartSeqs, bd \in Seq(Bytes) :
               parts \o <<body>> = qs \o <<bd>> /\ Whole(w) = Behind(qs, EndOf(w, d + p, bd))
        BY <2>2, <2>3, Zenon
      <4> QED
        BY <4>1, Zenon DEF Stands
    <3> QED
      BY <2>2, <2>3, <2>7, <3>1, ReturnedSound
  <2> QED
    BY <1>9, <2>4, <2>5, <2>6, <2>7
<1> QED
  BY <1>2, <1>6, <1>7, <1>8, <1>9, InPartCases
\* A place does not match two needles of two bytes.
LEMMA OneFollows ==
    ASSUME NEW s, NEW a, At(s, a, CRLF)
    PROVE  ~At(s, a, DashDash) /\ a + 2 <= Len(s)
<1>1. Len(CRLF) = 2 /\ Len(DashDash) = 2
  BY Needles
<1>2. CRLF # DashDash
  BY DEF CRLF, DashDash
<1>3. Piece(s, a, a + 2) = CRLF /\ a + 2 <= Len(s)
  BY <1>1 DEF At
<1>4. At(s, a, DashDash) => Piece(s, a, a + 2) = DashDash
  BY <1>1 DEF At
<1> QED
  BY <1>2, <1>3, <1>4

\* What ParserState::Initial looks up, in the wire.
LEMMA FirstInWire ==
    ASSUME NEW w \in Seq(Bytes), NEW b \in Seq(Bytes), View(b, w, 0),
           NEW scan \in Nat, Searched(b, 0, scan, first_delimiter),
           NEW i, i = FindBytes(b, Most(0, scan), first_delimiter),
           NEW p, p = Padded(b, i + 3)
    PROVE  /\ i = FindBytes(b, 0, first_delimiter)
           /\ i = NotFound /\ Len(b) = Len(w) => Whole(w) = Outcome(<< >>, << >>, "Incomplete")
           /\ i # NotFound =>
                /\ p \in Nat /\ i + 3 <= p /\ p <= Len(b)
                /\ Len(b) < p + 2 /\ Len(b) = Len(w) =>
                      Whole(w) = Outcome(<< >>, << >>, "Incomplete")
                /\ ~(Len(b) < p + 2) =>
                     /\ At(b, p, DashDash) => Whole(w) = Outcome(<< >>, << >>, "None")
                     /\ ~At(b, p, DashDash) /\ ~At(b, p, CRLF) =>
                           Whole(w) = Outcome(<< >>, << >>, "InvalidPart")
                     /\ ~At(b, p, DashDash) /\ At(b, p, CRLF) =>
                           Whole(w) = WholeFrom(w)[p + 2]
<1>1. Len(b) \in Nat /\ Len(w) \in Nat
  BY LenProperties
<1>2. first_delimiter \in Seq(Bytes) /\ Len(first_delimiter) = 3
  BY Needles
<1>3. 0 \in Nat
  OBVIOUS
<1>4. i = FindBytes(b, 0, first_delimiter)
  BY <1>2, <1>3, FindGoesOn
<1>5. FoundIn(b, w, 0, first_delimiter, 0, i)
  BY <1>2, <1>3, <1>4, ViewFind
<1>6. /\ i # NotFound => /\ i \in Nat /\ i + 3 <= Len(b)
                         /\ FindBytes(w, 0, first_delimiter) = i
      /\ i = NotFound /\ Len(b) = Len(w) => FindBytes(w, 0, first_delimiter) = NotFound
  BY <1>1, <1>2, <1>5 DEF FoundIn
<1>7. PICK I : I = FindBytes(w, 0, first_delimiter)
  OBVIOUS
<1>8. PICK q : q = Padded(w, I + 3)
  OBVIOUS
<1>9. /\ I = NotFound => Whole(w) = Outcome(<< >>, << >>, "Incomplete")
      /\ I # NotFound =>
           /\ Len(w) < q + 2 => Whole(w) = Outcome(<< >>, << >>, "Incomplete")
           /\ ~(Len(w) < q + 2) /\ At(w, q, DashDash) =>
                 Whole(w) = Outcome(<< >>, << >>, "None")
           /\ ~(Len(w) < q + 2) /\ ~At(w, q, DashDash) /\ ~At(w, q, CRLF) =>
                 Whole(w) = Outcome(<< >>, << >>, "InvalidPart")
           /\ ~(Len(w) < q + 2) /\ ~At(w, q, DashDash) /\ At(w, q, CRLF) =>
                 Whole(w) = WholeFrom(w)[q + 2]
  BY <1>7, <1>8, WholeIs
<1>10. ASSUME i # NotFound
       PROVE  /\ p \in Nat /\ i + 3 <= p /\ p <= Len(b)
              /\ Len(b) < p + 2 /\ Len(b) = Len(w) =>
                    Whole(w) = Outcome(<< >>, << >>, "Incomplete")
              /\ ~(Len(b) < p + 2) =>
                   /\ At(b, p, DashDash) => Whole(w) = Outcome(<< >>, << >>, "None")
                   /\ ~At(b, p, DashDash) /\ ~At(b, p, CRLF) =>
                         Whole(w) = Outcome(<< >>, << >>, "InvalidPart")
                   /\ ~At(b, p, DashDash) /\ At(b, p, CRLF) =>
                         Whole(w) = WholeFrom(w)[p + 2]
  <2>1. PICK a : a = i + 3
    OBVIOUS
  <2>2. a \in Nat /\ a <= Len(b) /\ p = Padded(b, a) /\ q = Padded(w, a) /\ I = i
    BY <1>6, <1>7, <1>8, <1>10, <2>1
  <2>3. /\ p \in Nat /\ a <= p /\ p <= Len(b)
        /\ p < Len(b) \/ 0 + Len(b) = Len(w) => Padded(w, 0 + a) = 0 + p
    BY <1>3, <2>2, ViewPadded
  <2>4. p < Len(b) \/ Len(b) = Len(w) => q = p
    BY <1>1, <2>2, <2>3
  <2>5. Follows(b, w, 0, p)
    BY <1>3, <2>3, ViewFollows
  <2>6. ~(Len(b) < p + 2) =>
           /\ p < Len(b) /\ ~(Len(w) < p + 2)
           /\ At(b, p, DashDash) <=> At(w, p, DashDash)
           /\ At(b, p, CRLF) <=> At(w, p, CRLF)
    <3>1. 0 + p = p
      BY <2>3
    <3> QED
      BY <2>5, <3>1 DEF Follows
  <2> QED
    BY <1>9, <1>10, <2>1, <2>2, <2>3, <2>4, <2>6
<1> QED
  BY <1>4, <1>6, <1>7, <1>9, <1>10

LEMMA EmptyEnds ==
    ASSUME NEW w \in Seq(Bytes), NEW r, Whole(w) = Outcome(<< >>, << >>, r), NEW fin
    PROVE  Settled(w, << >>, r, fin)
<1>1. Whole(w).parts = << >> /\ Whole(w).ends = r
  BY OutcomeFields
<1>2. << >> \in PartSeqs
  BY EmptySeq DEF PartSeqs
<1> QED
  BY <1>1, <1>2, PrefixOfItself DEF Settled

\* A step that leaves the buffer as it is.
LEMMA KeptSound ==
    ASSUME NEW w, NEW d \in Nat, NEW p, NEW s, NEW st, NEW fin, NEW r,
           buffer' = buffer, pos' = p, boundary_scan_offset' = s, state' = st,
           finished' = fin, parts' = parts, result' = r,
           Sound(w, d, buffer, p, s, st, fin, parts),
           d + Len(buffer) = Len(w) => Settled(w, parts, r, fin)
    PROVE  Reached(w, d)
  BY DEF Reached
\* What Sound says of the parser before its first delimiter.
LEMMA SoundInitial ==
    ASSUME NEW w, NEW d, state = "Initial",
           Sound(w, d, buffer, pos, boundary_scan_offset, state, finished, parts)
    PROVE  /\ buffer \in Seq(Bytes) /\ boundary_scan_offset \in Nat
           /\ boundary_scan_offset <= Len(buffer) /\ View(buffer, w, 0)
           /\ d = 0 /\ pos = 0 /\ parts = << >> /\ finished = FALSE
           /\ Searched(buffer, 0, boundary_scan_offset, first_delimiter)
  BY DEF Sound, Resumes, Stands

\* ParserState::Initial, where no part begins.
LEMMA SeekFirstStep ==
    ASSUME NEW w \in Seq(Bytes), NEW d \in Nat,
           Sound(w, d, buffer, pos, boundary_scan_offset, state, finished, parts), SeekFirst
    PROVE  Reached(w, d)
<1>1. state = "Initial"
  BY DEF SeekFirst
<1>2. /\ buffer \in Seq(Bytes) /\ boundary_scan_offset \in Nat
      /\ boundary_scan_offset <= Len(buffer) /\ View(buffer, w, 0)
      /\ d = 0 /\ pos = 0 /\ parts = << >> /\ finished = FALSE
      /\ Searched(buffer, 0, boundary_scan_offset, first_delimiter)
  BY <1>1, SoundInitial, Zenon
<1>3. Len(buffer) \in Nat /\ d + Len(buffer) = Len(buffer) /\ 0 <= Len(buffer) /\ 0 \in Nat
  BY <1>2, LenProperties
<1>4. first_delimiter \in Seq(Bytes) /\ Len(first_delimiter) = 3 /\ Len(first_delimiter) >= 1
  BY Needles
<1>5. PICK i : i = FindBytes(buffer, Most(0, boundary_scan_offset), first_delimiter)
  OBVIOUS
<1>6. PICK p : p = Padded(buffer, i + 3)
  OBVIOUS
<1>7. /\ i = FindBytes(buffer, 0, first_delimiter)
      /\ i = NotFound /\ Len(buffer) = Len(w) =>
            Whole(w) = Outcome(<< >>, << >>, "Incomplete")
      /\ i # NotFound =>
           /\ p \in Nat /\ i + 3 <= p /\ p <= Len(buffer)
           /\ Len(buffer) < p + 2 /\ Len(buffer) = Len(w) =>
                 Whole(w) = Outcome(<< >>, << >>, "Incomplete")
           /\ ~(Len(buffer) < p + 2) =>
                /\ At(buffer, p, DashDash) => Whole(w) = Outcome(<< >>, << >>, "None")
                /\ ~At(buffer, p, DashDash) /\ ~At(buffer, p, CRLF) =>
                      Whole(w) = Outcome(<< >>, << >>, "InvalidPart")
  BY <1>2, <1>5, <1>6, FirstInWire
<1>8. IF i = NotFound
      THEN /\ boundary_scan_offset' = ResumeAt(first_delimiter, 0)
           /\ Keep /\ Returns("Incomplete")
      ELSE IF Len(buffer) < i + 3 + 2 \/ Len(buffer) < p + 2
      THEN /\ boundary_scan_offset' = i
           /\ Keep /\ Returns("Incomplete")
      ELSE IF At(buffer, p, DashDash)
      THEN /\ Finish /\ Returns("None")
           /\ UNCHANGED <<buffer, pos, boundary_scan_offset, parts>>
      ELSE /\ ~At(buffer, p, CRLF)
           /\ Keep /\ UNCHANGED boundary_scan_offset /\ Returns("InvalidPart")
  BY <1>2, <1>4, <1>5, <1>6, Zenon DEF SeekFirst
<1>9. ASSUME NEW at \in Nat, at <= Len(buffer), Searched(buffer, 0, at, first_delimiter)
      PROVE  Sound(w, d, buffer, pos, at, state, finished, parts)
  <2>1. Resumes(buffer, pos, at, state)
    BY <1>1, <1>2, <1>3, <1>9 DEF Resumes
  <2> QED
    BY <2>1 DEF Sound
<1>10. CASE i = NotFound
  <2>1. PICK at : at = ResumeAt(first_delimiter, 0)
    OBVIOUS
  <2>2. /\ boundary_scan_offset' = at /\ buffer' = buffer /\ pos' = pos /\ state' = state
        /\ finished' = finished /\ parts' = parts /\ result' = "Incomplete"
    BY <1>8, <1>10, <2>1 DEF Keep, Returns
  <2>3. at = (IF Len(buffer) - (Len(first_delimiter) - 1) > 0
              THEN Len(buffer) - (Len(first_delimiter) - 1) ELSE 0)
    BY <2>1, Zenon DEF ResumeAt
  <2>4. at \in Nat /\ at <= Len(buffer) /\ Searched(buffer, 0, at, first_delimiter)
    BY <1>2, <1>3, <1>4, <1>7, <1>10, <2>3, Resumed
  <2>5. d + Len(buffer) = Len(w) => Settled(w, parts, "Incomplete", finished)
    BY <1>2, <1>3, <1>7, <1>10, EmptyEnds
  <2> QED
    BY <1>9, <2>2, <2>4, <2>5, KeptSound
<1>11. CASE i # NotFound /\ (Len(buffer) < i + 3 + 2 \/ Len(buffer) < p + 2)
  <2>1. /\ boundary_scan_offset' = i /\ buffer' = buffer /\ pos' = pos /\ state' = state
        /\ finished' = finished /\ parts' = parts /\ result' = "Incomplete"
    BY <1>8, <1>11 DEF Keep, Returns
  <2>2. i \in Nat /\ i <= Len(buffer) /\ Searched(buffer, 0, i, first_delimiter)
    BY <1>2, <1>3, <1>4, <1>7, <1>11, ResumedAt
  <2>3. Len(buffer) < p + 2
    BY <1>3, <1>7, <1>11, <2>2
  <2>4. d + Len(buffer) = Len(w) => Settled(w, parts, "Incomplete", finished)
    BY <1>2, <1>3, <1>7, <1>11, <2>3, EmptyEnds
  <2> QED
    BY <1>9, <2>1, <2>2, <2>4, KeptSound
<1>12. CASE /\ i # NotFound /\ ~(Len(buffer) < i + 3 + 2 \/ Len(buffer) < p + 2)
            /\ At(buffer, p, DashDash)
  <2>1. /\ boundary_scan_offset' = boundary_scan_offset /\ buffer' = buffer /\ pos' = pos
        /\ state' = "Finished" /\ finished' = TRUE /\ parts' = parts /\ result' = "None"
    BY <1>8, <1>12 DEF Finish, Returns
  <2>2. Whole(w) = Outcome(<< >>, << >>, "None")
    BY <1>7, <1>12
  <2>3. Settled(w, parts, "None", TRUE)
    BY <1>2, <2>2, EmptyEnds
  <2>4. Resumes(buffer, pos, boundary_scan_offset, "Finished")
    BY <1>2, <1>3 DEF Resumes
  <2>5. Stands(w, "Finished", parts, d + pos)
    BY <1>2, <2>2 DEF Stands
  <2>6. Sound(w, d, buffer, pos, boundary_scan_offset, "Finished", TRUE, parts)
    BY <2>4, <2>5 DEF Sound
  <2> QED
    BY <2>1, <2>3, <2>6, KeptSound
<1>13. CASE /\ i # NotFound /\ ~(Len(buffer) < i + 3 + 2 \/ Len(buffer) < p + 2)
            /\ ~At(buffer, p, DashDash)
  <2>1. /\ boundary_scan_offset' = boundary_scan_offset /\ buffer' = buffer /\ pos' = pos
        /\ state' = state /\ finished' = finished /\ parts' = parts
        /\ result' = "InvalidPart" /\ ~At(buffer, p, CRLF)
    BY <1>8, <1>13 DEF Keep, Returns
  <2>2. Settled(w, parts, "InvalidPart", finished)
    BY <1>2, <1>7, <1>13, <2>1, EmptyEnds
  <2> QED
    BY <2>1, <2>2, KeptSound
<1> QED
  BY <1>10, <1>11, <1>12, <1>13, Zenon

\* What Sound says of the parser behind a delimiter of which no more was there.
LEMMA SoundAfter ==
    ASSUME NEW w, NEW d, state = "AfterInnerDelimiter",
           Sound(w, d, buffer, pos, boundary_scan_offset, state, finished, parts)
    PROVE  /\ buffer \in Seq(Bytes) /\ pos \in Nat /\ pos <= Len(buffer)
           /\ boundary_scan_offset \in Nat /\ boundary_scan_offset <= Len(buffer)
           /\ View(buffer, w, d) /\ parts \in PartSeqs /\ finished = FALSE
           /\ \E qs \in PartSeqs, body \in Seq(Bytes) :
                 parts = qs \o <<body>> /\ Whole(w) = Behind(qs, EndOf(w, d + pos, body))
<1>1. Stands(w, "AfterInnerDelimiter", parts, d + pos)
  BY DEF Sound
<1>2. \E qs \in PartSeqs, body \in Seq(Bytes) :
         parts = qs \o <<body>> /\ Whole(w) = Behind(qs, EndOf(w, d + pos, body))
  BY <1>1, Zenon DEF Stands
<1>3. /\ buffer \in Seq(Bytes) /\ pos \in Nat /\ pos <= Len(buffer)
      /\ boundary_scan_offset \in Nat /\ boundary_scan_offset <= Len(buffer)
      /\ View(buffer, w, d) /\ parts \in PartSeqs /\ finished = FALSE
  BY DEF Sound, Resumes
<1> QED
  BY <1>2, <1>3, Zenon

\* ParserState::AfterInnerDelimiter, where no part begins.
LEMMA AfterStep ==
    ASSUME NEW w \in Seq(Bytes), NEW d \in Nat,
           Sound(w, d, buffer, pos, boundary_scan_offset, state, finished, parts), AfterDelimiter
    PROVE  Reached(w, d)
<1>1. state = "AfterInnerDelimiter"
  BY DEF AfterDelimiter
<1>3. /\ buffer \in Seq(Bytes) /\ pos \in Nat /\ pos <= Len(buffer)
      /\ boundary_scan_offset \in Nat /\ boundary_scan_offset <= Len(buffer)
      /\ View(buffer, w, d) /\ parts \in PartSeqs /\ finished = FALSE
      /\ \E qs \in PartSeqs, body \in Seq(Bytes) :
            parts = qs \o <<body>> /\ Whole(w) = Behind(qs, EndOf(w, d + pos, body))
  BY <1>1, SoundAfter, Zenon
<1>4. PICK qs \in PartSeqs, body \in Seq(Bytes) :
         parts = qs \o <<body>> /\ Whole(w) = Behind(qs, EndOf(w, d + pos, body))
  BY <1>3, Zenon
<1>5. PICK p : p = Padded(buffer, pos)
  OBVIOUS
<1>6. /\ p \in Nat /\ p <= Len(buffer)
      /\ Whole(w) = Behind(qs, EndOf(w, d + p, body))
      /\ Len(buffer) < p + 2 /\ d + Len(buffer) = Len(w) =>
            Whole(w) = Behind(qs \o <<body>>, Outcome(<< >>, << >>, "Incomplete"))
      /\ ~(Len(buffer) < p + 2) =>
           /\ At(buffer, p, DashDash) => Whole(w) = Outcome(qs \o <<body>>, << >>, "None")
           /\ ~At(buffer, p, DashDash) /\ ~At(buffer, p, CRLF) =>
                 Whole(w) = Outcome(qs, <<body>>, "InvalidPart")
  BY <1>3, <1>4, <1>5, DelimiterSeen
<1>7. IF Len(buffer) < p + 2
      THEN /\ pos' = p /\ Returns("Incomplete")
           /\ UNCHANGED <<buffer, state, finished, boundary_scan_offset, parts>>
      ELSE IF At(buffer, p, DashDash)
      THEN /\ Finish /\ Returns("None")
           /\ UNCHANGED <<buffer, pos, boundary_scan_offset, parts>>
      ELSE /\ ~At(buffer, p, CRLF)
           /\ Keep /\ UNCHANGED boundary_scan_offset /\ Returns("InvalidPart")
  BY <1>5, Zenon DEF AfterDelimiter
<1>8. CASE Len(buffer) < p + 2
  <2>1. /\ boundary_scan_offset' = boundary_scan_offset /\ buffer' = buffer /\ pos' = p
        /\ state' = state /\ finished' = finished /\ parts' = parts
        /\ result' = "Incomplete"
    BY <1>7, <1>8 DEF Returns
  <2>2. Resumes(buffer, p, boundary_scan_offset, "AfterInnerDelimiter")
    BY <1>3, <1>6 DEF Resumes
  <2>3. Stands(w, "AfterInnerDelimiter", parts, d + p)
    <3>1. \E ts \in PartSeqs, bd \in Seq(Bytes) :
             parts = ts \o <<bd>> /\ Whole(w) = Behind(ts, EndOf(w, d + p, bd))
      BY <1>4, <1>6, Zenon
    <3> QED
      BY <3>1, Zenon DEF Stands
  <2>4. Sound(w, d, buffer, p, boundary_scan_offset, state, finished, parts)
    BY <1>1, <1>6, <2>2, <2>3 DEF Sound
  <2>5. d + Len(buffer) = Len(w) => Settled(w, parts, "Incomplete", finished)
    <3>1. d + Len(buffer) = Len(w) =>
             Whole(w) = Behind(parts, Outcome(<< >>, << >>, "Incomplete"))
      BY <1>4, <1>6, <1>8, Zenon
    <3> QED
      BY <1>3, <3>1, EndsSettled
  <2> QED
    BY <2>1, <2>4, <2>5, KeptSound
<1>9. CASE ~(Len(buffer) < p + 2) /\ At(buffer, p, DashDash)
  <2>1. /\ boundary_scan_offset' = boundary_scan_offset /\ buffer' = buffer /\ pos' = pos
        /\ state' = "Finished" /\ finished' = TRUE /\ parts' = parts /\ result' = "None"
    BY <1>7, <1>9 DEF Finish, Returns
  <2>2. Whole(w) = Outcome(parts, << >>, "None")
    BY <1>4, <1>6, <1>9, Zenon
  <2>3. Settled(w, parts, "None", TRUE)
    BY <1>3, <2>2, OutcomeFields, PrefixOfItself DEF Settled
  <2>4. Resumes(buffer, pos, boundary_scan_offset, "Finished")
    BY <1>3 DEF Resumes
  <2>5. Stands(w, "Finished", parts, d + pos)
    BY <2>2 DEF Stands
  <2>6. Sound(w, d, buffer, pos, boundary_scan_offset, "Finished", TRUE, parts)
    BY <2>4, <2>5 DEF Sound
  <2> QED
    BY <2>1, <2>3, <2>6, KeptSound
<1>10. CASE ~(Len(buffer) < p + 2) /\ ~At(buffer, p, DashDash)
  <2>1. /\ boundary_scan_offset' = boundary_scan_offset /\ buffer' = buffer /\ pos' = pos
        /\ state' = state /\ finished' = finished /\ parts' = parts
        /\ result' = "InvalidPart" /\ ~At(buffer, p, CRLF)
    BY <1>7, <1>10 DEF Keep, Returns
  <2>2. Whole(w).parts = qs /\ Whole(w).ends = "InvalidPart"
    BY <1>6, <1>10, <2>1, OutcomeFields
  <2>3. IsPrefix(qs, parts)
    <3>1. <<body>> \in PartSeqs
      BY OnePart
    <3>2. IsPrefix(qs, qs \o <<body>>)
      BY <3>1, PrefixOfJoin, Zenon DEF PartSeqs
    <3> QED
      BY <1>4, <3>2, Zenon
  <2>4. Settled(w, parts, "InvalidPart", finished)
    BY <2>2, <2>3 DEF Settled
  <2> QED
    BY <2>1, <2>4, KeptSound
<1> QED
  BY <1>8, <1>9, <1>10

\* A delimiter that is followed by CRLF, and the part behind it.
LEMMA PartBeginsStep ==
    ASSUME NEW w \in Seq(Bytes), NEW d \in Nat,
           Sound(w, d, buffer, pos, boundary_scan_offset, state, finished, parts),
           state \in {"Initial", "AfterInnerDelimiter"}, PartBegins # NotFound,
           InPart(PartBegins, PartBegins)
    PROVE  Reached(w, d)
<1>1. ASSUME NEW p \in Nat, PartBegins = p + 2, At(buffer, p, CRLF), buffer \in Seq(Bytes),
             View(buffer, w, d), parts \in PartSeqs, finished = FALSE,
             Whole(w) = Behind(parts, WholeFrom(w)[d + (p + 2)])
      PROVE  Reached(w, d)
  <2>1. PICK from : from = p + 2
    OBVIOUS
  <2>2. from \in Nat /\ from <= Len(buffer)
    BY <1>1, <2>1, OneFollows
  <2>3. PartOffsets(buffer, from, from)
    BY <2>2 DEF PartOffsets
  <2>4. InPart(from, from) /\ Whole(w) = Behind(parts, WholeFrom(w)[d + from])
    BY <1>1, <2>1
  <2> QED
    BY <1>1, <2>2, <2>3, <2>4, InPartStep
<1>2. CASE state = "Initial"
  <2>1. /\ buffer \in Seq(Bytes) /\ boundary_scan_offset \in Nat
        /\ boundary_scan_offset <= Len(buffer) /\ View(buffer, w, 0)
        /\ d = 0 /\ pos = 0 /\ parts = << >> /\ finished = FALSE
        /\ Searched(buffer, 0, boundary_scan_offset, first_delimiter)
    BY <1>2, SoundInitial, Zenon
  <2>2. PICK i : i = FindBytes(buffer, Most(0, boundary_scan_offset), first_delimiter)
    OBVIOUS
  <2>3. PICK p : p = Padded(buffer, i + 3)
    OBVIOUS
  <2>4. Len(first_delimiter) = 3
    BY Needles
  <2>5. i # NotFound /\ At(buffer, p, CRLF) /\ PartBegins = p + 2
    BY <1>2, <2>1, <2>2, <2>3, <2>4, Zenon DEF PartBegins
  <2>6. ~At(buffer, p, DashDash) /\ p + 2 <= Len(buffer)
    BY <2>5, OneFollows
  <2>7. /\ p \in Nat
        /\ ~(Len(buffer) < p + 2) /\ ~At(buffer, p, DashDash) /\ At(buffer, p, CRLF) =>
              Whole(w) = WholeFrom(w)[p + 2]
    BY <2>1, <2>2, <2>3, <2>5, FirstInWire
  <2>8. ~(Len(buffer) < p + 2) /\ d + (p + 2) = p + 2 /\ p + 2 \in Nat
    BY <2>1, <2>6, <2>7, LenProperties
  <2>9. Whole(w) = WholeFrom(w)[p + 2] /\ p + 2 \in Offsets(w)
    <3>1. p + 2 <= Len(w) /\ Len(w) \in Nat
      <4>1. 0 + Len(buffer) <= Len(w)
        BY <2>1 DEF View
      <4> QED
        BY <2>1, <2>6, <2>7, <4>1, LenProperties
    <3> QED
      BY <2>5, <2>6, <2>7, <2>8, <3>1 DEF Offsets
  <2>10. Whole(w) = Behind(parts, WholeFrom(w)[d + (p + 2)])
    <3>1. IsOutcome(WholeFrom(w)[p + 2])
      BY <2>9, WholeFromTypes
    <3>2. << >> \in PartSeqs
      BY EmptySeq DEF PartSeqs
    <3>3. Behind(<< >>, WholeFrom(w)[p + 2]) = WholeFrom(w)[p + 2]
      BY <3>1, <3>2, BehindTypes
    <3> QED
      BY <2>1, <2>8, <2>9, <3>3
  <2>11. parts \in PartSeqs /\ View(buffer, w, d)
    BY <2>1, EmptySeq DEF PartSeqs
  <2> QED
    BY <1>1, <2>1, <2>5, <2>7, <2>10, <2>11
<1>3. CASE state = "AfterInnerDelimiter"
  <2>2. /\ buffer \in Seq(Bytes) /\ pos \in Nat /\ pos <= Len(buffer)
        /\ View(buffer, w, d) /\ parts \in PartSeqs /\ finished = FALSE
    BY <1>3, SoundAfter, Zenon
  <2>3. PICK qs \in PartSeqs, body \in Seq(Bytes) :
           parts = qs \o <<body>> /\ Whole(w) = Behind(qs, EndOf(w, d + pos, body))
    BY <1>3, SoundAfter, Zenon
  <2>4. PICK p : p = Padded(buffer, pos)
    OBVIOUS
  <2>5. At(buffer, p, CRLF) /\ PartBegins = p + 2
    BY <1>3, <2>4, Zenon DEF PartBegins
  <2>6. ~At(buffer, p, DashDash) /\ p + 2 <= Len(buffer)
    BY <2>5, OneFollows
  <2>7. /\ p \in Nat
        /\ ~(Len(buffer) < p + 2) /\ ~At(buffer, p, DashDash) /\ At(buffer, p, CRLF) =>
              Whole(w) = Behind(qs \o <<body>>, WholeFrom(w)[d + (p + 2)])
    BY <2>2, <2>3, <2>4, DelimiterSeen
  <2>8. ~(Len(buffer) < p + 2)
    BY <2>2, <2>6, <2>7, LenProperties
  <2>9. Whole(w) = Behind(parts, WholeFrom(w)[d + (p + 2)])
    BY <2>3, <2>5, <2>6, <2>7, <2>8, Zenon
  <2> QED
    BY <1>1, <2>2, <2>5, <2>7, <2>9
<1> QED
  BY <1>2, <1>3
\* next_part, whatever state it is called in.
LEMMA NextPartStep ==
    ASSUME MultipartInv, NextPart
    PROVE  MultipartInv'
<1>1. PICK d \in Nat :
         /\ Sound(input.wire, d, buffer, pos, boundary_scan_offset, state, finished, parts)
         /\ fed = d + Len(buffer)
  BY DEF MultipartInv
<1>2. input \in Inputs
  BY DEF MultipartInv
<1>3. PICK w : w = input.wire
  OBVIOUS
<1>4. /\ w \in Seq(Bytes)
      /\ Sound(w, d, buffer, pos, boundary_scan_offset, state, finished, parts)
  BY <1>1, <1>2, <1>3, WireBytes
<1>5. /\ buffer \in Seq(Bytes) /\ pos \in Nat /\ boundary_scan_offset \in Nat
      /\ parts \in PartSeqs /\ finished \in BOOLEAN /\ (finished <=> state = "Finished")
      /\ View(buffer, w, d) /\ Resumes(buffer, pos, boundary_scan_offset, state)
      /\ Stands(w, state, parts, d + pos)
  BY <1>4 DEF Sound
<1>6. input' = input /\ fed' = fed
  BY DEF NextPart, SeekFirst, AfterDelimiter, InPart, Returns
<1>7. Reached(w, d)
  <2>1. CASE finished /\ Keep /\ UNCHANGED boundary_scan_offset /\ Returns("None")
    <3>1. /\ boundary_scan_offset' = boundary_scan_offset /\ buffer' = buffer /\ pos' = pos
          /\ state' = state /\ finished' = finished /\ parts' = parts /\ result' = "None"
      BY <2>1 DEF Keep, Returns
    <3>2. Whole(w) = Outcome(parts, << >>, "None")
      BY <1>5, <2>1 DEF Stands
    <3>3. Settled(w, parts, "None", finished)
      BY <1>5, <3>2, OutcomeFields, PrefixOfItself DEF Settled
    <3> QED
      BY <1>4, <3>1, <3>3, KeptSound
  <2>2. CASE SeekFirst
    BY <1>4, <2>2, SeekFirstStep
  <2>3. CASE AfterDelimiter
    BY <1>4, <2>3, AfterStep
  <2>4. CASE /\ state \in {"Initial", "AfterInnerDelimiter"} /\ PartBegins # NotFound
             /\ InPart(PartBegins, PartBegins)
    BY <1>4, <2>4, PartBeginsStep
  <2>5. CASE state = "InPart" /\ InPart(pos, boundary_scan_offset)
    <3>1. /\ pos <= Len(buffer) /\ boundary_scan_offset <= Len(buffer)
          /\ PartOffsets(buffer, pos, boundary_scan_offset)
      BY <1>5, <2>5 DEF Resumes
    <3>2. Whole(w) = Behind(parts, WholeFrom(w)[d + pos])
      BY <1>5, <2>5 DEF Stands
    <3>3. finished = FALSE
      BY <1>5, <2>5
    <3> QED
      BY <1>4, <1>5, <2>5, <3>1, <3>2, <3>3, InPartStep
  <2> QED
    BY <2>1, <2>2, <2>3, <2>4, <2>5 DEF NextPart
<1>8. PICK e \in Nat :
         /\ Sound(w, e, buffer', pos', boundary_scan_offset', state', finished', parts')
         /\ e + Len(buffer') = d + Len(buffer)
         /\ d + Len(buffer) = Len(w) => Settled(w, parts', result', finished')
  BY <1>7 DEF Reached
<1>9. fed' = e + Len(buffer') /\ w = input'.wire
  BY <1>1, <1>3, <1>6, <1>8
<1>10. fed' = Len(w) => Settled(w, parts', result', finished')
  BY <1>1, <1>6, <1>8
<1> QED
  BY <1>2, <1>6, <1>8, <1>9, <1>10 DEF MultipartInv

LEMMA MultipartStep == MultipartInv /\ [Next]_vars => MultipartInv'
<1> SUFFICES ASSUME MultipartInv, [Next]_vars PROVE MultipartInv'
  OBVIOUS
<1>1. CASE UNCHANGED vars
  <2>1. /\ input' = input /\ fed' = fed /\ buffer' = buffer /\ pos' = pos /\ state' = state
        /\ finished' = finished /\ boundary_scan_offset' = boundary_scan_offset
        /\ parts' = parts /\ result' = result
    BY <1>1 DEF vars
  <2> QED
    BY <2>1 DEF MultipartInv
<1>2. ASSUME NEW n \in 1..Len(input.wire), Feed(n) PROVE MultipartInv'
  BY <1>2, FeedStep
<1>3. CASE NextPart
  BY <1>3, NextPartStep
<1> QED
  BY <1>1, <1>2, <1>3 DEF Next
-----------------------------------------------------------------------------
(* What follows from it.                                                   *)

LEMMA NoDelimiterPassedFollows == MultipartInv => NoDelimiterPassed
<1> SUFFICES ASSUME MultipartInv PROVE NoDelimiterPassed
  OBVIOUS
<1>1. PICK d \in Nat :
         Sound(input.wire, d, buffer, pos, boundary_scan_offset, state, finished, parts)
  BY DEF MultipartInv
<1>2. /\ buffer \in Seq(Bytes) /\ pos \in Nat /\ boundary_scan_offset \in Nat
      /\ pos <= Len(buffer) /\ boundary_scan_offset <= Len(buffer)
      /\ state = "Initial" =>
            pos = 0 /\ Searched(buffer, 0, boundary_scan_offset, first_delimiter)
      /\ state = "InPart" => PartOffsets(buffer, pos, boundary_scan_offset)
  BY <1>1 DEF Sound, Resumes
<1>3. ASSUME state = "Initial", NEW i \in pos..(boundary_scan_offset - 1)
      PROVE  ~At(buffer, i, first_delimiter)
  <2>1. i \in Nat /\ 0 <= i /\ i < boundary_scan_offset
    BY <1>2, <1>3
  <2> QED
    BY <1>2, <1>3, <2>1 DEF Searched
<1>4. PICK h, y : h = FindBytes(buffer, pos, CRLF \o CRLF) /\ y = h + 4
  OBVIOUS
<1>5. ASSUME state = "InPart", y # NotFound + 4, NEW i \in y..(boundary_scan_offset - 1)
      PROVE  ~At(buffer, i, inner_delimiter)
  <2>1. PICK blank : blank = CRLF \o CRLF
    OBVIOUS
  <2>2. blank \in Seq(Bytes) /\ h = FindBytes(buffer, pos, blank)
    BY <1>4, <2>1, Needles
  <2>3. Finds(buffer, pos, blank, h)
    BY <1>2, <2>2, FindFinds
  <2>4. h # NotFound
    BY <1>4, <1>5
  <2>5. h \in Nat /\ h >= pos
    BY <2>3, <2>4 DEF Finds
  <2>6. y \in Nat /\ i \in Nat /\ y <= i /\ i < boundary_scan_offset /\ ~(i < pos)
    BY <1>2, <1>4, <1>5, <2>5
  <2>7. ~(boundary_scan_offset <= pos)
    BY <1>2, <2>6
  <2>8. Searched(buffer, y, boundary_scan_offset, inner_delimiter)
    <3>1. \E k \in Nat : /\ k = FindBytes(buffer, pos, CRLF \o CRLF)
                         /\ Searched(buffer, k + 4, boundary_scan_offset, inner_delimiter)
      BY <1>2, <1>5, <2>7, Zenon DEF PartOffsets
    <3> QED
      BY <1>4, <3>1, Zenon
  <2> QED
    BY <2>6, <2>8 DEF Searched
<1> QED
  BY <1>2, <1>3, <1>4, <1>5, Zenon DEF NoDelimiterPassed

\* v is ps and then u.
Begins(v, ps, u) == u \in PartSeqs /\ v = ps \o u

Regrouped(s, t, u) == (s \o t) \o u = s \o (t \o u)

LEMMA JoinsRegroup ==
    ASSUME NEW s \in PartSeqs, NEW t \in PartSeqs, NEW u \in PartSeqs
    PROVE  Regrouped(s, t, u)
<1>1. (s \o t) \o u = s \o (t \o u)
  BY ConcatAssociative, SMTT(30) DEF PartSeqs
<1> QED
  BY <1>1, Zenon DEF Regrouped

LEMMA BeginsPrefix ==
    ASSUME NEW v, NEW ps \in PartSeqs, NEW u, Begins(v, ps, u)
    PROVE  IsPrefix(ps, v)
<1>1. u \in PartSeqs /\ v = ps \o u
  BY Zenon DEF Begins
<1>2. IsPrefix(ps, ps \o u)
  BY <1>1, PrefixOfJoin, Zenon DEF PartSeqs
<1> QED
  BY <1>1, <1>2, Zenon

LEMMA BeginsLonger ==
    ASSUME NEW s \in PartSeqs, NEW t \in PartSeqs, NEW u \in PartSeqs
    PROVE  Begins((s \o t) \o u, s, t \o u)
<1>1. Regrouped(s, t, u)
  BY JoinsRegroup
<1>2. t \o u \in PartSeqs
  BY Joins
<1> QED
  BY <1>1, <1>2, Zenon DEF Begins, Regrouped

\* The parts returned are the first ones of the reference, one in doubt included.
LEMMA PartsArePrefix ==
    ASSUME NEW w \in Seq(Bytes), NEW d, NEW b, NEW p, NEW s, NEW st, NEW fin, NEW ps,
           Sound(w, d, b, p, s, st, fin, ps), d \in Nat
    PROVE  IsPrefix(ps, Whole(w).parts \o Whole(w).doubt)
<1>1. /\ b \in Seq(Bytes) /\ p \in Nat /\ ps \in PartSeqs
      /\ st \in {"Initial", "InPart", "AfterInnerDelimiter", "Finished"}
      /\ View(b, w, d) /\ p <= Len(b) /\ Stands(w, st, ps, d + p)
  BY DEF Sound, Resumes
<1>2. Len(b) \in Nat /\ Len(w) \in Nat /\ d + Len(b) <= Len(w)
  BY <1>1, LenProperties DEF View
<1>3. PICK at : at = d + p
  OBVIOUS
<1>4. at \in Nat /\ at <= Len(w) /\ at \in Offsets(w)
  BY <1>1, <1>2, <1>3 DEF Offsets
<1>5. IsOutcome(Whole(w)) /\ << >> \in PartSeqs
  BY WholeTypes, EmptySeq DEF PartSeqs
<1>6. PICK P, D, V : P = Whole(w).parts /\ D = Whole(w).doubt /\ V = P \o D
  OBVIOUS
<1>7. P \in PartSeqs /\ D \in PartSeqs
  BY <1>5, <1>6, FieldsOfOutcome
<1>8. ASSUME NEW u, Begins(V, ps, u)
      PROVE  IsPrefix(ps, Whole(w).parts \o Whole(w).doubt)
  <2>1. IsPrefix(ps, V)
    BY <1>1, <1>8, BeginsPrefix
  <2> QED
    BY <1>6, <2>1, Zenon
<1>9. CASE st = "Initial"
  <2>1. ps = << >>
    BY <1>1, <1>9 DEF Stands
  <2>2. V \in PartSeqs
    BY <1>6, <1>7, Joins
  <2>3. << >> \o V = V
    BY <2>2, Joins
  <2>4. Begins(V, ps, V)
    BY <2>1, <2>2, <2>3, Zenon DEF Begins
  <2> QED
    BY <1>8, <2>4
<1>10. CASE st = "InPart"
  <2>1. PICK o : o = WholeFrom(w)[at]
    OBVIOUS
  <2>2. Whole(w) = Behind(ps, o)
    BY <1>1, <1>3, <1>10, <2>1 DEF Stands
  <2>3. IsOutcome(o)
    BY <1>4, <2>1, WholeFromTypes
  <2>4. P = ps \o o.parts /\ o.parts \in PartSeqs
    BY <1>1, <1>6, <2>2, <2>3, BehindTypes, FieldsOfOutcome
  <2>5. PICK a : a = o.parts
    OBVIOUS
  <2>6. Begins((ps \o a) \o D, ps, a \o D)
    BY <1>1, <1>7, <2>4, <2>5, BeginsLonger
  <2>7. Begins(V, ps, a \o D)
    BY <1>6, <2>4, <2>5, <2>6, Zenon
  <2> QED
    BY <1>8, <2>7
<1>11. CASE st = "AfterInnerDelimiter"
  <2>1. PICK qs \in PartSeqs, body \in Seq(Bytes) :
           ps = qs \o <<body>> /\ Whole(w) = Behind(qs, EndOf(w, at, body))
    BY <1>1, <1>3, <1>11, Zenon DEF Stands
  <2>2. PICK q, o : q = Padded(w, at) /\ o = EndOf(w, at, body)
    OBVIOUS
  <2>3. /\ IsOutcome(o)
        /\ Len(w) < q + 2 => o = Outcome(<<body>>, << >>, "Incomplete")
        /\ ~(Len(w) < q + 2) /\ At(w, q, DashDash) => o = Outcome(<<body>>, << >>, "None")
        /\ ~(Len(w) < q + 2) /\ ~At(w, q, DashDash) /\ ~At(w, q, CRLF) =>
              o = Outcome(<< >>, <<body>>, "InvalidPart")
        /\ ~(Len(w) < q + 2) /\ ~At(w, q, DashDash) /\ At(w, q, CRLF) =>
              o = Behind(<<body>>, WholeFrom(w)[q + 2]) /\ IsOutcome(WholeFrom(w)[q + 2])
    BY <1>4, <2>1, <2>2, EndOfIs
  <2>4. <<body>> \in PartSeqs
    BY <2>1, OnePart
  <2>5. /\ P = qs \o o.parts /\ D = o.doubt
        /\ o.parts \in PartSeqs /\ o.doubt \in PartSeqs
    <3>1. Whole(w) = Behind(qs, o)
      BY <2>1, <2>2
    <3> QED
      BY <1>6, <2>1, <2>3, <3>1, BehindTypes, FieldsOfOutcome, ZenonT(30)
  <2>6. PICK a, c : a = o.parts /\ c = o.doubt
    OBVIOUS
  <2>7. a \in PartSeqs /\ c \in PartSeqs /\ P = qs \o a /\ D = c
    BY <2>5, <2>6
  <2>8. \E u : Begins(a \o c, <<body>>, u)
    <3>1. CASE o = Outcome(<<body>>, << >>, "Incomplete") \/ o = Outcome(<<body>>, << >>, "None")
      <4>1. a = <<body>> /\ c = << >>
        BY <2>6, <3>1, OutcomeFields
      <4> QED
        BY <1>5, <4>1, Zenon DEF Begins
    <3>2. CASE o = Outcome(<< >>, <<body>>, "InvalidPart")
      <4>1. a = << >> /\ c = <<body>>
        BY <2>6, <3>2, OutcomeFields
      <4>2. << >> \o <<body>> = <<body>> /\ <<body>> \o << >> = <<body>>
        BY <1>5, <2>4, Joins
      <4> QED
        BY <1>5, <4>1, <4>2, Zenon DEF Begins
    <3>3. CASE o = Behind(<<body>>, WholeFrom(w)[q + 2]) /\ IsOutcome(WholeFrom(w)[q + 2])
      <4>1. PICK rest, rp : rest = WholeFrom(w)[q + 2] /\ rp = rest.parts
        OBVIOUS
      <4>2. IsOutcome(rest) /\ o = Behind(<<body>>, rest)
        BY <3>3, <4>1
      <4>3. a = <<body>> \o rp /\ rp \in PartSeqs
        BY <2>4, <2>6, <4>1, <4>2, BehindTypes, FieldsOfOutcome
      <4>4. Begins((<<body>> \o rp) \o c, <<body>>, rp \o c)
        BY <2>4, <2>7, <4>3, BeginsLonger
      <4> QED
        BY <4>3, <4>4, Zenon
    <3> QED
      BY <2>3, <3>1, <3>2, <3>3
  <2>9. PICK u : u \in PartSeqs /\ a \o c = <<body>> \o u
    BY <2>8, Zenon DEF Begins
  <2>10. Begins(V, ps, u)
    <3>1. Regrouped(qs, a, c)
      BY <2>1, <2>7, JoinsRegroup
    <3>2. Regrouped(qs, <<body>>, u)
      BY <2>1, <2>4, <2>9, JoinsRegroup
    <3>3. V = qs \o (a \o c)
      BY <1>6, <2>7, <3>1, Zenon DEF Regrouped
    <3>4. V = qs \o (<<body>> \o u)
      BY <2>9, <3>3, Zenon
    <3>5. V = ps \o u
      BY <2>1, <3>2, <3>4, Zenon DEF Regrouped
    <3> QED
      BY <2>9, <3>5, Zenon DEF Begins
  <2> QED
    BY <1>8, <2>10
<1>12. CASE st = "Finished"
  <2>1. Whole(w) = Outcome(ps, << >>, "None")
    BY <1>1, <1>12 DEF Stands
  <2>2. P = ps /\ D = << >>
    BY <1>6, <2>1, OutcomeFields
  <2>3. Begins(V, ps, << >>)
    BY <1>5, <1>6, <2>2, Zenon DEF Begins
  <2> QED
    BY <1>8, <2>3
<1> QED
  BY <1>1, <1>6, <1>9, <1>10, <1>11, <1>12

LEMMA PartsLikeWholeFollows == MultipartInv => PartsLikeWhole
<1> SUFFICES ASSUME MultipartInv PROVE PartsLikeWhole
  OBVIOUS
<1>1. PICK d \in Nat :
         /\ Sound(input.wire, d, buffer, pos, boundary_scan_offset, state, finished, parts)
         /\ fed = Len(input.wire) => Settled(input.wire, parts, result, finished)
  BY DEF MultipartInv
<1>2. PICK w : w = input.wire
  OBVIOUS
<1>3. w \in Seq(Bytes)
  BY <1>2, WireBytes DEF MultipartInv
<1>4. IsPrefix(parts, Whole(w).parts \o Whole(w).doubt)
  BY <1>1, <1>2, <1>3, PartsArePrefix
<1>5. fed = Len(w) /\ Answered /\ (result = "None" => finished) =>
         IsPrefix(Whole(w).parts, parts) /\ result = Whole(w).ends
  BY <1>1, <1>2 DEF Settled, Answered
<1> QED
  BY <1>2, <1>4, <1>5, Zenon DEF PartsLikeWhole

LEMMA MultipartInvariant == Spec => []MultipartInv
<1>1. Init => MultipartInv
  BY SoundInit
<1>2. MultipartInv /\ [Next]_vars => MultipartInv'
  BY MultipartStep
<1> QED
  BY <1>1, <1>2, PTL DEF Spec

\* The search for a delimiter that next_part takes up at boundary_scan_offset has
\* passed over none, cut or whole, in any state, after any feeds and drains; and
\* no slice of the buffer that next_part takes is outside of it.
THEOREM MultipartPassesNoDelimiter == Spec => []NoDelimiterPassed
<1>1. MultipartInv => NoDelimiterPassed
  BY NoDelimiterPassedFollows
<1> QED
  BY <1>1, MultipartInvariant, PTL

\* However feed cuts a body, and wherever next_part is called in between, the
\* parts that next_part returns are those of the uncut body in their order, and
\* when all was fed it ends like it: None, Incomplete or the same error.
THEOREM MultipartLikeWhole == Spec => []PartsLikeWhole
<1>1. MultipartInv => PartsLikeWhole
  BY PartsLikeWholeFollows
<1> QED
  BY <1>1, MultipartInvariant, PTL
=============================================================================
