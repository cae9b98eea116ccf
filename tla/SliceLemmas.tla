----------------------------- MODULE SliceLemmas -----------------------------
(***************************************************************************)
(* Facts about slices of byte sequences that the proofs about the buffer   *)
(* and the decoders rest on: every drain(..n), extend and truncate of the  *)
(* code is a SubSeq or a concatenation in the model.  And induction on the *)
(* natural numbers, stated with a set in the place of a predicate.         *)
(***************************************************************************)
EXTENDS Integers, Sequences, SequenceTheorems, WellFoundedInduction, TLAPS

\* A set of natural numbers has a least element.
LEMMA LeastNat ==
    ASSUME NEW T \in SUBSET Nat, T # {}
    PROVE  \E x \in T : \A y \in T : x <= y
<1>1. PICK x \in T : \A y \in T : <<y, x>> \notin OpToRel(<, Nat)
  BY NatLessThanWellFounded, WFMin
<1>2. \A y \in T : ~(y < x)
  BY <1>1 DEF OpToRel
<1> QED
  BY <1>2

\* A set that holds 0, and with each number the next, holds them all.
LEMMA NatSetInduction ==
    ASSUME NEW T, 0 \in T, \A n \in Nat : n \in T => n + 1 \in T
    PROVE  \A n \in Nat : n \in T
<1> SUFFICES ASSUME Nat \ T # {} PROVE FALSE
  OBVIOUS
<1>1. PICK x \in Nat \ T : \A y \in Nat \ T : x <= y
  BY LeastNat
<1>2. x # 0 /\ x - 1 \in Nat /\ x - 1 + 1 = x /\ ~(x <= x - 1)
  BY <1>1
<1> QED
  BY <1>1, <1>2

-----------------------------------------------------------------------------

\* A slice that stays within its sequence.
LEMMA Slice ==
    ASSUME NEW S, NEW s \in Seq(S), NEW m \in Nat, m >= 1,
           NEW n \in Int, n <= Len(s)
    PROVE  /\ SubSeq(s, m, n) \in Seq(S)
           /\ Len(SubSeq(s, m, n)) = IF m <= n THEN n - m + 1 ELSE 0
           /\ \A i \in 1..(n - m + 1) : SubSeq(s, m, n)[i] = s[m + i - 1]
<1>1. Len(s) \in Nat /\ DOMAIN s = 1..Len(s)
  BY LenProperties
<1>2. \A i \in m..n : s[i] \in S
  BY <1>1, ElementOfSeq
<1> QED
  BY <1>2, SubSeqProperties

\* The front of a concatenation, and the whole of its left part.
LEMMA PrefixOfConcat ==
    ASSUME NEW S, NEW s \in Seq(S), NEW t \in Seq(S),
           NEW n \in Nat, n <= Len(s)
    PROVE  SubSeq(s \o t, 1, n) = SubSeq(s, 1, n)
<1>1. Len(s) \in Nat /\ Len(t) \in Nat
  BY LenProperties
<1>2. /\ s \o t \in Seq(S)
      /\ Len(s \o t) = Len(s) + Len(t)
      /\ \A i \in 1..(Len(s) + Len(t)) :
            (s \o t)[i] = IF i <= Len(s) THEN s[i] ELSE t[i - Len(s)]
  BY ConcatProperties
<1>3. /\ SubSeq(s \o t, 1, n) \in Seq(S)
      /\ Len(SubSeq(s \o t, 1, n)) = n
      /\ \A i \in 1..n : SubSeq(s \o t, 1, n)[i] = (s \o t)[i]
  BY <1>1, <1>2, Slice
<1>4. /\ SubSeq(s, 1, n) \in Seq(S)
      /\ Len(SubSeq(s, 1, n)) = n
      /\ \A i \in 1..n : SubSeq(s, 1, n)[i] = s[i]
  BY <1>1, Slice
<1> QED
  BY <1>1, <1>2, <1>3, <1>4, SeqEqual

\* What is appended behind a sequence ends up behind each of its suffixes.
LEMMA SuffixOfConcat ==
    ASSUME NEW S, NEW s \in Seq(S), NEW t \in Seq(S),
           NEW k \in Nat, k <= Len(s)
    PROVE  SubSeq(s \o t, k + 1, Len(s \o t)) = SubSeq(s, k + 1, Len(s)) \o t
<1>1. Len(s) \in Nat /\ Len(t) \in Nat
  BY LenProperties
<1>2. /\ s \o t \in Seq(S)
      /\ Len(s \o t) = Len(s) + Len(t)
      /\ \A i \in 1..(Len(s) + Len(t)) :
            (s \o t)[i] = IF i <= Len(s) THEN s[i] ELSE t[i - Len(s)]
  BY ConcatProperties
<1> DEFINE l == SubSeq(s \o t, k + 1, Len(s \o t))
           p == SubSeq(s, k + 1, Len(s))
<1>3. /\ l \in Seq(S)
      /\ Len(l) = Len(s) + Len(t) - k
      /\ \A i \in 1..(Len(s) + Len(t) - k) : l[i] = (s \o t)[k + i]
  BY <1>1, <1>2, Slice
<1>4. /\ p \in Seq(S)
      /\ Len(p) = Len(s) - k
      /\ \A i \in 1..(Len(s) - k) : p[i] = s[k + i]
  BY <1>1, Slice
<1> HIDE DEF l, p
<1>5. /\ p \o t \in Seq(S)
      /\ Len(p \o t) = Len(p) + Len(t)
      /\ \A i \in 1..(Len(p) + Len(t)) :
            (p \o t)[i] = IF i <= Len(p) THEN p[i] ELSE t[i - Len(p)]
  BY <1>4, ConcatProperties
<1>6. \A i \in 1..Len(l) : l[i] = (p \o t)[i]
  BY <1>1, <1>2, <1>3, <1>4, <1>5
<1>7. Len(l) = Len(p \o t)
  BY <1>1, <1>3, <1>4, <1>5
<1>8. l = p \o t
  BY <1>3, <1>5, <1>6, <1>7, SeqEqual
<1> QED
  BY <1>8 DEF l, p

\* Draining twice is draining once.
LEMMA SuffixOfSuffix ==
    ASSUME NEW S, NEW s \in Seq(S), NEW k \in Nat, k <= Len(s),
           NEW n \in Nat, n <= Len(s) - k
    PROVE  LET p == SubSeq(s, k + 1, Len(s))
           IN  /\ Len(p) = Len(s) - k
               /\ SubSeq(p, n + 1, Len(p)) = SubSeq(s, k + n + 1, Len(s))
<1>1. Len(s) \in Nat
  BY LenProperties
<1> DEFINE p == SubSeq(s, k + 1, Len(s))
           q == SubSeq(p, n + 1, Len(p))
           r == SubSeq(s, k + n + 1, Len(s))
<1>2. /\ p \in Seq(S)
      /\ Len(p) = Len(s) - k
      /\ \A i \in 1..(Len(s) - k) : p[i] = s[k + i]
  BY <1>1, Slice
<1>3. /\ r \in Seq(S)
      /\ Len(r) = Len(s) - k - n
      /\ \A i \in 1..(Len(s) - k - n) : r[i] = s[k + n + i]
  BY <1>1, Slice
<1> HIDE DEF p, r
<1>4. /\ q \in Seq(S)
      /\ Len(q) = Len(p) - n
      /\ \A i \in 1..(Len(p) - n) : q[i] = p[n + i]
  BY <1>1, <1>2, Slice
<1> HIDE DEF q
<1>5. \A i \in 1..Len(q) : q[i] = r[i]
  BY <1>1, <1>2, <1>3, <1>4
<1>6. q = r
  BY <1>1, <1>2, <1>3, <1>4, <1>5, SeqEqual
<1> QED
  BY <1>2, <1>6 DEF p, q, r

\* A front piece and the piece behind it.
LEMMA PrefixExtends ==
    ASSUME NEW S, NEW s \in Seq(S), NEW k \in Nat, NEW n \in Nat, k + n <= Len(s)
    PROVE  SubSeq(s, 1, k) \o SubSeq(s, k + 1, k + n) = SubSeq(s, 1, k + n)
<1>1. Len(s) \in Nat
  BY LenProperties
<1>2. 1 \in 1..(Len(s) + 1) /\ k \in 0..Len(s) /\ k + n \in k..Len(s)
  BY <1>1
<1> QED
  BY <1>2, ConcatAdjacentSubSeq

\* The last k of the first e elements.
LEMMA Window ==
    ASSUME NEW S, NEW s \in Seq(S), NEW e \in Nat, e <= Len(s), NEW k \in Nat, k <= e
    PROVE  /\ SubSeq(s, e - k + 1, e) \in Seq(S)
           /\ Len(SubSeq(s, e - k + 1, e)) = k
           /\ \A i \in 1..k : SubSeq(s, e - k + 1, e)[i] = s[e - k + i]
<1> DEFINE m == e - k + 1
<1>1. m \in Nat /\ m >= 1 /\ e - m + 1 = k /\ e \in Int
  BY DEF m
<1>2. \A i \in 1..k : m + i - 1 = e - k + i
  BY DEF m
<1> HIDE DEF m
<1>3. /\ SubSeq(s, m, e) \in Seq(S)
      /\ Len(SubSeq(s, m, e)) = IF m <= e THEN e - m + 1 ELSE 0
      /\ \A i \in 1..(e - m + 1) : SubSeq(s, m, e)[i] = s[m + i - 1]
  BY <1>1, Slice
<1>4. Len(SubSeq(s, m, e)) = k
  BY <1>1, <1>3
<1>5. \A i \in 1..k : SubSeq(s, m, e)[i] = s[e - k + i]
  BY <1>1, <1>2, <1>3
<1> QED
  BY <1>3, <1>4, <1>5 DEF m
=============================================================================
