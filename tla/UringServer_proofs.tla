------------------------- MODULE UringServer_proofs -------------------------
(***************************************************************************)
(* Proofs about UringServer: for every number of clients, whatever they    *)
(* send and in whatever order the kernel completes the operations.         *)
(*                                                                         *)
(* OneOperation is not inductive as it stands.  That a completion is       *)
(* handled with exactly the operations it should lead to depends on the    *)
(* state of the connection fitting the operation (Fits); that an accepted  *)
(* client gets a vacant slot depends on the list of vacant keys (Vacancy)  *)
(* and on no client being in two places (Apart).                           *)
(*                                                                         *)
(* ResponsesInOrder speaks of what the clients have received; why the next *)
(* write is the right one depends on how far the connection has come with  *)
(* what its client sends.  Flow says so at the one operation it waits for: *)
(* which symbols have been read, which requests decoded, which responses   *)
(* are queued, and how much has been delivered (ReadPoint, WritePoint,     *)
(* KtlsPoint).                                                             *)
(***************************************************************************)
EXTENDS UringServer, SliceLemmas, FiniteSetTheorems

ConnFields == {"client", "fd", "state", "handshaking", "plaintext", "decoder", "write",
               "pending", "count", "ktls"}
ConnStates == {"HandshakeReading", "HandshakeWriting", "EnablingKtls", "Reading", "Writing", "Closing"}

IsConnection(r) ==
    DOMAIN r = ConnFields /\ r.client \in Clients /\ r.state \in ConnStates /\ r.ktls \in Nat

IsSequence(q) == q \in Seq(Range(q))

\* What kind of operation a connection may wait for in which state.
Fits(type, state) ==
    \/ type = "Read" /\ state \in {"HandshakeReading", "Reading"}
    \/ type = "Write" /\ state \in {"HandshakeWriting", "Writing", "Closing"}
    \/ type = "Close" /\ state # "EnablingKtls"
    \/ type \in KtlsOps /\ state = "EnablingKtls"

\* An operation of the connection in its slot, which waits for it.
Owned(op, slots) ==
    op.type # "Accept" =>
        /\ op.slot \in DOMAIN slots /\ slots[op.slot] # Vacant
        /\ op.client = slots[op.slot].client
        /\ Fits(op.type, slots[op.slot].state)

\* A client that was accepted, whose completion has not been handled.
Arrived(e) == e.op.type = "Accept" /\ e.res # Failure

Shapes ==
    /\ IsSequence(inflight) /\ IsSequence(cq)
    /\ DOMAIN slab = Range(Slots)
    /\ \A s \in DOMAIN slab : slab[s] = Vacant \/ IsConnection(slab[s])

Vacancy ==
    /\ vacant \in Seq(Range(Slots))
    /\ \A i, j \in DOMAIN vacant : vacant[i] = vacant[j] => i = j
    /\ \A s \in DOMAIN slab : slab[s] = Vacant <=> s \in Range(vacant)

\* Each client is in one place: it waits to be accepted, or its completion to
\* be handled, or it has a slot.
Apart ==
    /\ waiting \subseteq Clients
    /\ \A s \in DOMAIN slab : slab[s].client \notin waiting
    /\ \A s, t \in DOMAIN slab : slab[s].client = slab[t].client /\ slab[s] # Vacant => s = t
    /\ \A i \in DOMAIN cq : Arrived(cq[i]) =>
          /\ cq[i].res.val.client \in Clients \ waiting
          /\ \A s \in DOMAIN slab : slab[s].client # cq[i].res.val.client
          /\ \A j \in DOMAIN cq :
                Arrived(cq[j]) /\ cq[i].res.val.client = cq[j].res.val.client => i = j

Ownership ==
    /\ \A i \in DOMAIN inflight : Owned(inflight[i], slab)
    /\ \A i \in DOMAIN cq : Owned(cq[i].op, slab)
    /\ \A i \in DOMAIN cq : cq[i].op.type \in KtlsOps => cq[i].res.kind = "ok"

Counts ==
    \A s \in DOMAIN slab :
        Cardinality(Submitted(s)) + Cardinality(Unhandled(s)) = Awaited(slab[s])

RingInv == Shapes /\ Vacancy /\ Apart /\ Ownership /\ Counts

ServerInv == running /\ refused = {} => RingInv

-----------------------------------------------------------------------------
(* Counting the members of a set in a sequence.                            *)

Places(q, A) == {i \in DOMAIN q : q[i] \in A}
Count(q, A) == Cardinality(Places(q, A))

LEMMA SeqInto ==
    ASSUME NEW S, NEW T, S \subseteq T, NEW q \in Seq(S)
    PROVE  q \in Seq(T)
<1>1. Len(q) \in Nat /\ q \in [1..Len(q) -> S]
  BY LenProperties
<1>2. q \in [1..Len(q) -> T]
  BY <1>1
<1> QED
  BY <1>1, <1>2, SeqDef

LEMMA IntervalSubset ==
    ASSUME NEW n \in Nat, NEW V \in SUBSET (1..n)
    PROVE  IsFiniteSet(V) /\ Cardinality(V) \in Nat /\ Cardinality(1..n) = n
<1>1. IsFiniteSet(1..n) /\ Cardinality(1..n) = IF 1 > n THEN 0 ELSE n - 1 + 1
  BY FS_Interval
<1>2. Cardinality(1..n) = n
  BY <1>1
<1> QED
  BY <1>1, <1>2, FS_Subset, FS_CardinalityType

LEMMA CountConcat ==
    ASSUME NEW S, NEW p \in Seq(S), NEW q \in Seq(S), NEW A
    PROVE  /\ Count(p, A) \in Nat /\ Count(q, A) \in Nat
           /\ Count(p \o q, A) = Count(p, A) + Count(q, A)
<1> DEFINE m == Len(p)
           n == Len(q)
           P == Places(p, A)
           Q == Places(q, A)
           R == Places(p \o q, A)
           U == {i \in (m + 1)..(m + n) : q[i - m] \in A}
<1>1. m \in Nat /\ n \in Nat /\ DOMAIN p = 1..m /\ DOMAIN q = 1..n
  BY LenProperties
<1>2. /\ DOMAIN (p \o q) = 1..(m + n)
      /\ \A i \in 1..(m + n) : (p \o q)[i] = IF i <= m THEN p[i] ELSE q[i - m]
  BY <1>1, ConcatProperties, LenProperties
<1> HIDE DEF m, n
<1>3. R = P \cup U /\ P \cap U = {}
  <2>1. \A i \in 1..(m + n) : i \in 1..m \/ i \in (m + 1)..(m + n)
    BY <1>1
  <2>2. \A i \in 1..m : i \in 1..(m + n) /\ i <= m /\ i \notin (m + 1)..(m + n)
    BY <1>1
  <2>3. \A i \in (m + 1)..(m + n) : i \in 1..(m + n) /\ ~(i <= m)
    BY <1>1
  <2> QED
    BY <1>1, <1>2, <2>1, <2>2, <2>3 DEF Places
<1>4. P \in SUBSET (1..m) /\ Q \in SUBSET (1..n)
  BY <1>1 DEF Places
<1>5. IsFiniteSet(P) /\ IsFiniteSet(Q) /\ Cardinality(P) \in Nat /\ Cardinality(Q) \in Nat
  BY <1>1, <1>4, IntervalSubset
<1>6. IsFiniteSet(U) /\ Cardinality(U) = Cardinality(Q)
  <2> DEFINE f == [j \in Q |-> m + j]
  <2>1. \A j \in Q : m + j \in U
    <3>1. \A j \in 1..n : m + j \in (m + 1)..(m + n) /\ (m + j) - m = j
      BY <1>1
    <3> QED
      BY <1>1, <3>1 DEF Places
  <2>2. \A i \in U : i - m \in Q /\ m + (i - m) = i
    <3>1. \A i \in (m + 1)..(m + n) : i - m \in 1..n /\ m + (i - m) = i
      BY <1>1
    <3> QED
      BY <1>1, <3>1 DEF Places
  <2>3. \A j, k \in Q : m + j = m + k => j = k
    BY <1>1, <1>4
  <2> HIDE DEF U, Q
  <2>4. f \in [Q -> U]
    BY <2>1
  <2>5. \A a, b \in Q : f[a] = f[b] => a = b
    BY <2>3
  <2>6. \A u \in U : \E a \in Q : f[a] = u
    BY <2>2
  <2>7. f \in Bijection(Q, U)
    BY <2>4, <2>5, <2>6 DEF Bijection, Injection, Surjection, IsInjective
  <2>8. ExistsBijection(Q, U)
    BY <2>7 DEF ExistsBijection
  <2> QED
    BY <1>5, <2>8, FS_Bijection
<1> HIDE DEF P, Q, R, U
<1>7. Cardinality(R) = Cardinality(P) + Cardinality(U) - Cardinality(P \cap U)
  BY <1>3, <1>5, <1>6, FS_Union
<1>8. Cardinality(P \cap U) = 0
  BY <1>3, FS_EmptySet
<1> QED
  BY <1>5, <1>6, <1>7, <1>8 DEF Count, P, Q, R

LEMMA CountOne ==
    ASSUME NEW x, NEW A
    PROVE  Count(<<x>>, A) = IF x \in A THEN 1 ELSE 0
<1>1. DOMAIN <<x>> = {1} /\ <<x>>[1] = x
  OBVIOUS
<1>2. Places(<<x>>, A) = IF x \in A THEN {1} ELSE {}
  BY <1>1 DEF Places
<1> QED
  BY <1>2, FS_Singleton, FS_EmptySet DEF Count

LEMMA CountNone ==
    ASSUME NEW A
    PROVE  Count(<< >>, A) = 0
<1>1. Places(<< >>, A) = {}
  BY EmptySeq DEF Places
<1> QED
  BY <1>1, FS_EmptySet DEF Count

\* Counting what is removed at position k.
LEMMA CountRemove ==
    ASSUME NEW S, NEW q \in Seq(S), NEW k \in 1..Len(q), NEW A
    PROVE  /\ RemoveAt(q, k) \in Seq(S)
           /\ Len(RemoveAt(q, k)) = Len(q) - 1
           /\ \A i \in 1..(Len(q) - 1) : RemoveAt(q, k)[i] = IF i < k THEN q[i] ELSE q[i + 1]
           /\ Count(RemoveAt(q, k), A) \in Nat
           /\ Count(q, A) = Count(RemoveAt(q, k), A) + (IF q[k] \in A THEN 1 ELSE 0)
<1> DEFINE f == SubSeq(q, 1, k - 1)
           b == SubSeq(q, k + 1, Len(q))
           x == <<q[k]>>
           n == Len(q)
<1>1. n \in Nat /\ k \in Nat /\ k >= 1 /\ k <= n /\ k - 1 \in Nat /\ k - 1 <= n /\ k + 1 \in Nat /\ n \in Int /\ k - 1 \in Int
  BY LenProperties
<1>2. f \in Seq(S) /\ Len(f) = k - 1 /\ \A i \in 1..(k - 1) : f[i] = q[i]
  <2>1. /\ f \in Seq(S) /\ Len(f) = (IF 1 <= k - 1 THEN (k - 1) - 1 + 1 ELSE 0)
        /\ \A i \in 1..((k - 1) - 1 + 1) : f[i] = q[1 + i - 1]
    BY <1>1, Slice
  <2> HIDE DEF f
  <2> QED
    BY <1>1, <2>1
<1>3. b \in Seq(S) /\ Len(b) = n - k /\ \A i \in 1..(n - k) : b[i] = q[k + i]
  <2>1. /\ b \in Seq(S) /\ Len(b) = (IF k + 1 <= n THEN n - (k + 1) + 1 ELSE 0)
        /\ \A i \in 1..(n - (k + 1) + 1) : b[i] = q[(k + 1) + i - 1]
    BY <1>1, Slice
  <2> HIDE DEF b, n
  <2>2. \A i \in 1..(n - k) : i \in 1..(n - (k + 1) + 1) /\ (k + 1) + i - 1 = k + i
    BY <1>1
  <2> QED
    BY <1>1, <2>1, <2>2
<1>4. x \in Seq(S) /\ Len(x) = 1 /\ x[1] = q[k]
  BY <1>1, ElementOfSeq
<1>5. /\ f \o b \in Seq(S) /\ Len(f \o b) = Len(f) + Len(b)
      /\ \A i \in 1..(Len(f) + Len(b)) : (f \o b)[i] = IF i <= Len(f) THEN f[i] ELSE b[i - Len(f)]
  BY <1>2, <1>3, ConcatProperties
<1>6. /\ f \o x \in Seq(S) /\ Len(f \o x) = Len(f) + Len(x)
      /\ \A i \in 1..(Len(f) + Len(x)) : (f \o x)[i] = IF i <= Len(f) THEN f[i] ELSE x[i - Len(f)]
  BY <1>2, <1>4, ConcatProperties
<1> DEFINE g == f \o x
<1> HIDE DEF f, b, x, n, g
<1>7. /\ g \o b \in Seq(S) /\ Len(g \o b) = Len(g) + Len(b)
      /\ \A i \in 1..(Len(g) + Len(b)) : (g \o b)[i] = IF i <= Len(g) THEN g[i] ELSE b[i - Len(g)]
  <2>1. g \in Seq(S)
    BY <1>6 DEF g
  <2> QED
    BY <1>3, <2>1, ConcatProperties
<1>8. Len(g) = k /\ \A i \in 1..k : g[i] = q[i]
  <2>3. Len(f) + Len(x) = k /\ Len(f) = k - 1
    BY <1>1, <1>2, <1>4
  <2>1. Len(g) = k /\ \A i \in 1..k : g[i] = IF i <= k - 1 THEN f[i] ELSE x[i - (k - 1)]
    BY <1>6, <2>3, Zenon DEF g
  <2>2. \A i \in 1..k : i \in 1..(k - 1) \/ (i = k /\ ~(i <= k - 1) /\ i - (k - 1) = 1)
    BY <1>1
  <2> QED
    BY <1>1, <1>2, <1>4, <2>1, <2>2
<1>9. g \o b = q
  <2>1. Len(g \o b) = Len(q)
    BY <1>1, <1>3, <1>7, <1>8 DEF n
  <2>2. ASSUME NEW i \in 1..n PROVE (g \o b)[i] = q[i]
    <3>1. i \in 1..(Len(g) + Len(b))
      BY <1>1, <1>3, <1>8
    <3>2. CASE i <= k
      BY <1>1, <1>7, <1>8, <3>1, <3>2
    <3>3. CASE i > k
      <4>1. i - k \in 1..(n - k) /\ k + (i - k) = i /\ ~(i <= k)
        BY <1>1, <3>3
      <4> QED
        BY <1>3, <1>7, <1>8, <3>1, <4>1
    <3>4. i <= k \/ i > k
      BY <1>1
    <3> QED
      BY <3>2, <3>3, <3>4, Zenon
  <2> QED
    BY <1>7, <2>1, <2>2, SeqEqual DEF n
<1>10. RemoveAt(q, k) = f \o b
  BY DEF RemoveAt, f, b
<1>11. Count(f \o b, A) = Count(f, A) + Count(b, A) /\ Count(f, A) \in Nat /\ Count(b, A) \in Nat
  BY <1>2, <1>3, CountConcat
<1>12. Count(g \o b, A) = Count(g, A) + Count(b, A)
  BY <1>3, <1>6, CountConcat DEF g
<1>13. Count(g, A) = Count(f, A) + Count(x, A)
  BY <1>2, <1>4, CountConcat DEF g
<1>14. Count(x, A) = IF q[k] \in A THEN 1 ELSE 0
  BY CountOne DEF x
<1>15. Count(q, A) = Count(f \o b, A) + (IF q[k] \in A THEN 1 ELSE 0) /\ Count(f \o b, A) \in Nat
  BY <1>9, <1>11, <1>12, <1>13, <1>14
<1>16. \A i \in 1..(n - 1) : (f \o b)[i] = IF i < k THEN q[i] ELSE q[i + 1]
  <2>1. SUFFICES ASSUME NEW i \in 1..(n - 1) PROVE (f \o b)[i] = IF i < k THEN q[i] ELSE q[i + 1]
    OBVIOUS
  <2>2. i \in 1..(Len(f) + Len(b)) /\ (i < k <=> i <= Len(f))
    BY <1>1, <1>2, <1>3
  <2>3. CASE i < k
    <3>1. i \in 1..(k - 1)
      BY <1>1, <2>3
    <3> QED
      BY <1>2, <1>5, <2>2, <2>3, <3>1
  <2>4. CASE ~(i < k)
    <3>1. i - (k - 1) \in 1..(n - k) /\ k + (i - (k - 1)) = i + 1
      BY <1>1, <2>4
    <3> QED
      BY <1>2, <1>3, <1>5, <2>2, <2>4, <3>1
  <2> QED
    BY <2>3, <2>4
<1>17. Len(f \o b) = n - 1
  BY <1>1, <1>2, <1>3, <1>5
<1> QED
  BY <1>5, <1>10, <1>15, <1>16, <1>17 DEF n

-----------------------------------------------------------------------------
(* What submitting, completing and handling an operation do to the queues. *)

OpsFor(S, s) == {o \in S : ForSlot(o, s)}
EntriesFor(S, s) == {e \in S : ForSlot(e.op, s)}

LEMMA CountFor ==
    ASSUME NEW S, NEW q \in Seq(S), NEW s
    PROVE  /\ {i \in DOMAIN q : ForSlot(q[i], s)} = Places(q, OpsFor(S, s))
           /\ {i \in DOMAIN q : ForSlot(q[i].op, s)} = Places(q, EntriesFor(S, s))
<1>1. \A i \in DOMAIN q : q[i] \in S
  BY LenProperties, ElementOfSeq
<1> QED
  BY <1>1 DEF Places, OpsFor, EntriesFor

LEMMA SequenceFacts ==
    ASSUME NEW q, IsSequence(q)
    PROVE  /\ q \in Seq(Range(q)) /\ Len(q) \in Nat /\ DOMAIN q = 1..Len(q)
           /\ \A i \in DOMAIN q : q[i] \in Range(q)
  BY LenProperties DEF IsSequence, Range

LEMMA IsSequenceIntro ==
    ASSUME NEW S, NEW q \in Seq(S)
    PROVE  IsSequence(q)
<1>1. Len(q) \in Nat /\ q \in [1..Len(q) -> S]
  BY LenProperties
<1>2. q \in [1..Len(q) -> Range(q)]
  BY <1>1 DEF Range
<1> QED
  BY <1>1, <1>2, SeqDef DEF IsSequence

LEMMA Singles ==
    ASSUME NEW x
    PROVE  /\ IsSequence(<<x>>) /\ Len(<<x>>) = 1 /\ DOMAIN <<x>> = {1} /\ <<x>>[1] = x
<1>1. <<x>> \in Seq({x})
  OBVIOUS
<1>2. Len(<<x>>) = 1 /\ DOMAIN <<x>> = {1} /\ <<x>>[1] = x
  OBVIOUS
<1>3. IsSequence(<<x>>)
  BY <1>1, IsSequenceIntro, Zenon
<1> QED
  BY <1>2, <1>3

\* Two sequences over a common set.
LEMMA CommonSet ==
    ASSUME NEW p, NEW q, IsSequence(p), IsSequence(q)
    PROVE  p \in Seq(Range(p) \cup Range(q)) /\ q \in Seq(Range(p) \cup Range(q))
<1>1. p \in Seq(Range(p)) /\ q \in Seq(Range(q))
  BY DEF IsSequence
<1>2. Range(p) \subseteq Range(p) \cup Range(q) /\ Range(q) \subseteq Range(p) \cup Range(q)
  OBVIOUS
<1> QED
  BY <1>1, <1>2, SeqInto, Zenon

\* r comes from p or q.
From(r, p, q) == \A i \in DOMAIN r : (\E j \in DOMAIN p : r[i] = p[j]) \/ (\E j \in DOMAIN q : r[i] = q[j])

LEMMA ConcatFacts ==
    ASSUME NEW p, NEW q, IsSequence(p), IsSequence(q)
    PROVE  IsSequence(p \o q) /\ From(p \o q, p, q)
<1> DEFINE S == Range(p) \cup Range(q)
<1>1. p \in Seq(S) /\ q \in Seq(S)
  BY CommonSet
<1> HIDE DEF S
<1>2. Len(p) \in Nat /\ Len(q) \in Nat /\ DOMAIN p = 1..Len(p) /\ DOMAIN q = 1..Len(q)
  BY <1>1, LenProperties
<1>3. /\ p \o q \in Seq(S) /\ Len(p \o q) = Len(p) + Len(q)
      /\ \A i \in 1..(Len(p) + Len(q)) : (p \o q)[i] = IF i <= Len(p) THEN p[i] ELSE q[i - Len(p)]
  BY <1>1, ConcatProperties
<1>4. DOMAIN (p \o q) = 1..(Len(p) + Len(q))
  BY <1>3, LenProperties
<1>5. ASSUME NEW i \in 1..(Len(p) + Len(q))
      PROVE  (\E j \in DOMAIN p : (p \o q)[i] = p[j]) \/ (\E j \in DOMAIN q : (p \o q)[i] = q[j])
  <2>1. CASE i <= Len(p)
    <3>1. i \in DOMAIN p /\ (p \o q)[i] = p[i]
      BY <1>2, <1>3, <2>1
    <3> QED
      BY <3>1
  <2>2. CASE ~(i <= Len(p))
    <3>1. i - Len(p) \in DOMAIN q
      BY <1>2, <2>2
    <3>2. (p \o q)[i] = q[i - Len(p)]
      BY <1>3, <2>2
    <3> QED
      BY <3>1, <3>2
  <2> QED
    BY <2>1, <2>2
<1>6. IsSequence(p \o q)
  BY <1>3, IsSequenceIntro
<1> QED
  BY <1>4, <1>5, <1>6 DEF From

\* How many of the operations are for slot s.
OpCount(ops, s) == Cardinality({j \in DOMAIN ops : ForSlot(ops[j], s)})

LEMMA Submits ==
    ASSUME NEW ops, IsSequence(inflight), IsSequence(ops), inflight' = inflight \o ops, NEW s
    PROVE  /\ Cardinality(Submitted(s)) \in Nat /\ OpCount(ops, s) \in Nat
           /\ Cardinality(Submitted(s)') = Cardinality(Submitted(s)) + OpCount(ops, s)
<1> DEFINE S == Range(inflight) \cup Range(ops)
           A == OpsFor(S, s)
<1>1. inflight \in Seq(S) /\ ops \in Seq(S)
  BY CommonSet
<1> HIDE DEF S
<1>2. inflight \o ops \in Seq(S)
  BY <1>1, ConcatProperties
<1>3. /\ Submitted(s) = Places(inflight, A)
      /\ {j \in DOMAIN ops : ForSlot(ops[j], s)} = Places(ops, A)
      /\ {i \in DOMAIN (inflight \o ops) : ForSlot((inflight \o ops)[i], s)} = Places(inflight \o ops, A)
  BY <1>1, <1>2, CountFor DEF Submitted
<1>4. Submitted(s)' = {i \in DOMAIN (inflight \o ops) : ForSlot((inflight \o ops)[i], s)}
  BY DEF Submitted, ForSlot
<1> HIDE DEF A
<1>5. /\ Count(inflight, A) \in Nat /\ Count(ops, A) \in Nat
      /\ Count(inflight \o ops, A) = Count(inflight, A) + Count(ops, A)
  BY <1>1, CountConcat
<1> QED
  BY <1>3, <1>4, <1>5, Zenon DEF Count, OpCount

LEMMA Handles ==
    ASSUME IsSequence(cq), cq # << >>, cq' = Tail(cq), NEW s
    PROVE  /\ IsSequence(cq') /\ 1 \in DOMAIN cq /\ Head(cq) = cq[1]
           /\ \A i \in DOMAIN cq' : i + 1 \in DOMAIN cq /\ cq'[i] = cq[i + 1] /\ i + 1 # 1
           /\ \A i, j \in DOMAIN cq' : i + 1 = j + 1 => i = j
           /\ Cardinality(Unhandled(s)') \in Nat
           /\ Cardinality(Unhandled(s)) = Cardinality(Unhandled(s)') + (IF ForSlot(cq[1].op, s) THEN 1 ELSE 0)
<1> DEFINE S == Range(cq)
           A == EntriesFor(S, s)
           t == Tail(cq)
           n == Len(cq)
<1>1. cq \in Seq(S) /\ n \in Nat /\ DOMAIN cq = 1..n /\ \A i \in DOMAIN cq : cq[i] \in S
  BY SequenceFacts
<1> HIDE DEF S
<1>2. n # 0
  BY <1>1, EmptySeq
<1>3. /\ t \in Seq(S) /\ Len(t) = n - 1 /\ \A i \in 1..Len(t) : t[i] = cq[i + 1]
  BY <1>1, HeadTailProperties
<1>4. 1 \in 1..n /\ 1 \in 1..Len(cq) /\ n - 1 \in Nat
  BY <1>1, <1>2
<1>5. /\ RemoveAt(cq, 1) \in Seq(S) /\ Len(RemoveAt(cq, 1)) = n - 1
      /\ \A i \in 1..(n - 1) : RemoveAt(cq, 1)[i] = IF i < 1 THEN cq[i] ELSE cq[i + 1]
      /\ Count(RemoveAt(cq, 1), A) \in Nat
      /\ Count(cq, A) = Count(RemoveAt(cq, 1), A) + (IF cq[1] \in A THEN 1 ELSE 0)
  BY <1>1, <1>4, CountRemove, Zenon
<1> HIDE DEF A, t, n
<1>6. t = RemoveAt(cq, 1)
  <2>1. \A i \in 1..(n - 1) : ~(i < 1)
    OBVIOUS
  <2>2. \A i \in 1..Len(t) : t[i] = RemoveAt(cq, 1)[i]
    BY <1>3, <1>5, <2>1
  <2> QED
    BY <1>3, <1>5, <2>2, SeqEqual
<1>7. DOMAIN t = 1..(n - 1)
  BY <1>3, LenProperties
<1>8. \A i \in 1..(n - 1) : i + 1 \in 1..n /\ i + 1 # 1 /\ i \in Int
  BY <1>1
<1>9. \A i, j \in 1..(n - 1) : i + 1 = j + 1 => i = j
  BY <1>1
<1>10. Unhandled(s)' = {i \in DOMAIN t : ForSlot(t[i].op, s)}
  BY DEF Unhandled, ForSlot, t
<1>11. {i \in DOMAIN t : ForSlot(t[i].op, s)} = Places(t, A) /\ Unhandled(s) = Places(cq, A)
  BY <1>1, <1>3, CountFor DEF Unhandled, A
<1>12. cq[1] \in A <=> ForSlot(cq[1].op, s)
  BY <1>1, <1>4 DEF A, EntriesFor
<1>13. /\ Cardinality(Unhandled(s)') \in Nat
       /\ Cardinality(Unhandled(s)) = Cardinality(Unhandled(s)') + (IF ForSlot(cq[1].op, s) THEN 1 ELSE 0)
  BY <1>5, <1>6, <1>10, <1>11, <1>12, Zenon DEF Count
<1>14. IsSequence(cq') /\ cq' = t
  BY <1>3, IsSequenceIntro DEF t
<1>15. Head(cq) = cq[1]
  BY <1>1
<1>16. \A i \in 1..(n - 1) : t[i] = cq[i + 1]
  BY <1>3
<1> QED
  BY <1>1, <1>4, <1>7, <1>8, <1>9, <1>13, <1>14, <1>15, <1>16

\* An operation that completes moves from the one queue to the other.
LEMMA CompletesFacts ==
    ASSUME IsSequence(inflight), IsSequence(cq), NEW k \in DOMAIN inflight, NEW res, Completes(k, res), NEW s
    PROVE  /\ IsSequence(inflight') /\ IsSequence(cq')
           /\ \A i \in DOMAIN inflight' : \E j \in DOMAIN inflight : inflight'[i] = inflight[j]
           /\ Len(cq) + 1 \notin DOMAIN cq /\ DOMAIN cq' = DOMAIN cq \cup {Len(cq) + 1}
           /\ \A i \in DOMAIN cq : cq'[i] = cq[i]
           /\ cq'[Len(cq) + 1] = [op |-> inflight[k], res |-> res]
           /\ Cardinality(Submitted(s)') + Cardinality(Unhandled(s)')
                 = Cardinality(Submitted(s)) + Cardinality(Unhandled(s))
<1> DEFINE S == Range(inflight)
           A == OpsFor(S, s)
           q == RemoveAt(inflight, k)
           n == Len(inflight)
           e == [op |-> inflight[k], res |-> res]
           T == Range(cq) \cup Range(<<e>>)
           B == EntriesFor(T, s)
<1>1. inflight \in Seq(S) /\ n \in Nat /\ DOMAIN inflight = 1..n /\ inflight[k] \in S
  BY SequenceFacts
<1>2. inflight' = q /\ cq' = Append(cq, e)
  BY DEF Completes
<1>3. IsSequence(<<e>>)
  BY Singles
<1>4. cq \in Seq(T) /\ <<e>> \in Seq(T) /\ Len(cq) \in Nat /\ DOMAIN cq = 1..Len(cq)
  BY <1>3, CommonSet, SequenceFacts
<1>5. e \in T
  <2>1. <<e>>[1] = e /\ 1 \in DOMAIN <<e>>
    OBVIOUS
  <2> QED
    BY <2>1 DEF Range
<1> HIDE DEF S, T, e
<1>6. k \in 1..Len(inflight)
  BY <1>1
<1>7. /\ q \in Seq(S) /\ Len(q) = n - 1
      /\ \A i \in 1..(n - 1) : q[i] = IF i < k THEN inflight[i] ELSE inflight[i + 1]
      /\ Count(q, A) \in Nat
      /\ Count(inflight, A) = Count(q, A) + (IF inflight[k] \in A THEN 1 ELSE 0)
  BY <1>1, <1>6, CountRemove, Zenon
<1>8. Append(cq, e) = cq \o <<e>>
  BY <1>4, <1>5, AppendIsConcat
<1>9. /\ Append(cq, e) \in Seq(T) /\ Len(Append(cq, e)) = Len(cq) + 1
      /\ \A i \in 1..Len(cq) : Append(cq, e)[i] = cq[i]
      /\ Append(cq, e)[Len(cq) + 1] = e
  BY <1>4, <1>5, AppendProperties
<1> HIDE DEF A, B, q, n
<1>10. /\ Count(cq, B) \in Nat /\ Count(<<e>>, B) \in Nat
       /\ Count(cq \o <<e>>, B) = Count(cq, B) + Count(<<e>>, B)
  BY <1>4, CountConcat
<1>11. Count(<<e>>, B) = IF e \in B THEN 1 ELSE 0
  BY CountOne
<1>12. (e \in B <=> ForSlot(inflight[k], s)) /\ (inflight[k] \in A <=> ForSlot(inflight[k], s))
  <2>1. e.op = inflight[k]
    BY DEF e
  <2> QED
    BY <1>1, <1>5, <2>1 DEF A, B, OpsFor, EntriesFor
<1>13. /\ Submitted(s) = Places(inflight, A) /\ Submitted(s)' = Places(q, A)
       /\ Unhandled(s) = Places(cq, B) /\ Unhandled(s)' = Places(cq \o <<e>>, B)
  <2>1. /\ Submitted(s)' = {i \in DOMAIN q : ForSlot(q[i], s)}
        /\ Unhandled(s)' = {i \in DOMAIN (cq \o <<e>>) : ForSlot((cq \o <<e>>)[i].op, s)}
    BY <1>2, <1>8 DEF Submitted, Unhandled, ForSlot
  <2>2. cq \o <<e>> \in Seq(T)
    BY <1>8, <1>9
  <2>3. Submitted(s) = Places(inflight, A) /\ {i \in DOMAIN q : ForSlot(q[i], s)} = Places(q, A)
    BY <1>1, <1>7, CountFor, Zenon DEF Submitted, A
  <2>4. Unhandled(s) = Places(cq, B)
    BY <1>4, CountFor, Zenon DEF Unhandled, B
  <2>5. {i \in DOMAIN (cq \o <<e>>) : ForSlot((cq \o <<e>>)[i].op, s)} = Places(cq \o <<e>>, B)
    BY <2>2, CountFor, Zenon DEF B
  <2> QED
    BY <2>1, <2>3, <2>4, <2>5, Zenon
<1>14. Cardinality(Submitted(s)') + Cardinality(Unhandled(s)')
          = Cardinality(Submitted(s)) + Cardinality(Unhandled(s))
  <2> DEFINE a == Count(q, A)
             b == Count(cq, B)
             c == IF ForSlot(inflight[k], s) THEN 1 ELSE 0
  <2>1. /\ Cardinality(Submitted(s)') = a /\ Cardinality(Submitted(s)) = a + c
        /\ Cardinality(Unhandled(s)) = b /\ Cardinality(Unhandled(s)') = b + c
    BY <1>7, <1>10, <1>11, <1>12, <1>13, Zenon DEF Count
  <2>2. a \in Nat /\ b \in Nat /\ c \in Nat
    BY <1>7, <1>10
  <2> HIDE DEF a, b, c
  <2>3. a + (b + c) = (a + c) + b
    BY <2>2
  <2> QED
    BY <2>1, <2>3, Zenon
<1>15. ASSUME NEW i \in DOMAIN q PROVE \E j \in DOMAIN inflight : q[i] = inflight[j]
  <2>1. i \in 1..(n - 1)
    BY <1>7, LenProperties
  <2>2. i \in 1..n /\ i + 1 \in 1..n
    BY <1>1, <2>1
  <2> QED
    BY <1>1, <1>7, <2>1, <2>2
<1>16. /\ Len(cq) + 1 \notin DOMAIN cq /\ DOMAIN Append(cq, e) = DOMAIN cq \cup {Len(cq) + 1}
  <2>1. DOMAIN Append(cq, e) = 1..(Len(cq) + 1)
    BY <1>9, LenProperties
  <2>2. \A m \in Nat : m + 1 \notin 1..m /\ 1..(m + 1) = 1..m \cup {m + 1}
    OBVIOUS
  <2> QED
    BY <1>4, <2>1, <2>2
<1>17. IsSequence(inflight') /\ IsSequence(cq')
  BY <1>2, <1>7, <1>9, IsSequenceIntro
<1> QED
  BY <1>2, <1>4, <1>9, <1>14, <1>15, <1>16, <1>17 DEF e

LEMMA QueueSets ==
    ASSUME IsSequence(inflight), IsSequence(cq), NEW s
    PROVE  /\ IsFiniteSet(Submitted(s)) /\ Cardinality(Submitted(s)) \in Nat
           /\ IsFiniteSet(Unhandled(s)) /\ Cardinality(Unhandled(s)) \in Nat
<1>1. Len(inflight) \in Nat /\ DOMAIN inflight = 1..Len(inflight)
  BY SequenceFacts, Zenon
<1>2. Len(cq) \in Nat /\ DOMAIN cq = 1..Len(cq)
  BY SequenceFacts, Zenon
<1>3. Submitted(s) \in SUBSET (1..Len(inflight)) /\ Unhandled(s) \in SUBSET (1..Len(cq))
  BY <1>1, <1>2 DEF Submitted, Unhandled
<1> QED
  BY <1>1, <1>2, <1>3, IntervalSubset

\* When the only operation of a slot has been handled, none is left.
LEMMA LastOne ==
    ASSUME IsSequence(inflight), IsSequence(cq), cq # << >>, cq' = Tail(cq), NEW s,
           ForSlot(cq[1].op, s), Cardinality(Submitted(s)) + Cardinality(Unhandled(s)) = 1
    PROVE  /\ \A i \in DOMAIN inflight : ~ForSlot(inflight[i], s)
           /\ \A i \in DOMAIN cq' : ~ForSlot(cq'[i].op, s)
<1>1. /\ IsFiniteSet(Submitted(s)) /\ Cardinality(Submitted(s)) \in Nat
      /\ IsFiniteSet(Unhandled(s)) /\ Cardinality(Unhandled(s)) \in Nat
  BY QueueSets
<1>2. /\ 1 \in DOMAIN cq
      /\ \A i \in DOMAIN cq' : i + 1 \in DOMAIN cq /\ cq'[i] = cq[i + 1] /\ i + 1 # 1
      /\ Cardinality(Unhandled(s)') \in Nat
      /\ Cardinality(Unhandled(s)) = Cardinality(Unhandled(s)') + 1
  BY Handles
<1>3. \A a, b, d \in Nat : a + b = 1 /\ b = d + 1 => a = 0 /\ b = 1
  OBVIOUS
<1>4. Cardinality(Submitted(s)) = 0 /\ Cardinality(Unhandled(s)) = 1
  BY <1>1, <1>2, <1>3, Zenon
<1>5. Submitted(s) = {}
  BY <1>1, <1>4, FS_EmptySet
<1>6. 1 \in Unhandled(s)
  BY <1>2 DEF Unhandled
<1>7. PICK x : Unhandled(s) = {x}
  BY <1>1, <1>4, FS_Singleton
<1>8. \A i \in DOMAIN cq' : ~ForSlot(cq'[i].op, s)
  <2>1. SUFFICES ASSUME NEW i \in DOMAIN cq', ForSlot(cq'[i].op, s) PROVE FALSE
    OBVIOUS
  <2>2. i + 1 \in Unhandled(s)
    BY <1>2, <2>1 DEF Unhandled
  <2> QED
    BY <1>2, <1>6, <1>7, <2>2
<1> QED
  BY <1>5, <1>8 DEF Submitted

\* Operations that are all for one slot.
LEMMA OpsOfOne ==
    ASSUME NEW ops, IsSequence(ops), NEW s, \A i \in DOMAIN ops : ForSlot(ops[i], s)
    PROVE  /\ OpCount(ops, s) = Len(ops)
           /\ \A t : t # s => OpCount(ops, t) = 0
<1>1. Len(ops) \in Nat /\ DOMAIN ops = 1..Len(ops)
  BY SequenceFacts
<1>2. {j \in DOMAIN ops : ForSlot(ops[j], s)} = 1..Len(ops)
  BY <1>1
<1>3. Cardinality(1..Len(ops)) = Len(ops)
  <2>1. {} \in SUBSET (1..Len(ops))
    OBVIOUS
  <2> QED
    BY <1>1, <2>1, IntervalSubset
<1>4. ASSUME NEW t, t # s PROVE OpCount(ops, t) = 0
  <2>1. {j \in DOMAIN ops : ForSlot(ops[j], t)} = {}
    BY <1>4 DEF ForSlot
  <2> QED
    BY <2>1, FS_EmptySet DEF OpCount
<1> QED
  BY <1>2, <1>3, <1>4 DEF OpCount

LEMMA ConnectionFacts ==
    ASSUME NEW conn, IsConnection(conn)
    PROVE  /\ conn # Vacant /\ conn.client \in Clients /\ conn.client # Closed
           /\ Awaited(conn) = (IF conn.state = "EnablingKtls" THEN conn.ktls ELSE 1)
           /\ Awaited(conn) \in Nat
<1>1. conn.client \in Clients /\ conn.ktls \in Nat
  BY DEF IsConnection
<1>2. Vacant.client = Closed
  BY DEF Vacant
<1>3. conn # Vacant /\ conn.client # Closed
  BY <1>1, <1>2, ServerAssumption
<1> QED
  BY <1>1, <1>3 DEF Awaited

\* An operation that the connection conn in slot s has submitted.
OwnOp(op, s, conn) ==
    op.type # "Accept" /\ op.slot = s /\ op.client = conn.client /\ Fits(op.type, conn.state)

\* The connection that the next completion is for.
LEMMA CompletionOwner ==
    ASSUME RingInv, cq # << >>, cq' = Tail(cq), Head(cq).op.type # "Accept"
    PROVE  /\ Head(cq) = cq[1] /\ 1 \in DOMAIN cq
           /\ Head(cq).op.slot \in DOMAIN slab /\ slab[Head(cq).op.slot] # Vacant
           /\ IsConnection(slab[Head(cq).op.slot])
           /\ Fits(Head(cq).op.type, slab[Head(cq).op.slot].state)
           /\ ForSlot(cq[1].op, Head(cq).op.slot)
           /\ Head(cq).op.type \in KtlsOps => Head(cq).res.kind = "ok"
<1>1. IsSequence(cq)
  BY DEF RingInv, Shapes
<1>2. Head(cq) = cq[1] /\ 1 \in DOMAIN cq
  BY <1>1, Handles
<1>3. Owned(cq[1].op, slab) /\ (cq[1].op.type \in KtlsOps => cq[1].res.kind = "ok")
  BY <1>2 DEF RingInv, Ownership
<1>4. /\ cq[1].op.slot \in DOMAIN slab /\ slab[cq[1].op.slot] # Vacant
      /\ Fits(cq[1].op.type, slab[cq[1].op.slot].state)
  BY <1>2, <1>3 DEF Owned
<1>5. IsConnection(slab[cq[1].op.slot])
  BY <1>4 DEF RingInv, Shapes
<1> QED
  BY <1>2, <1>3, <1>4, <1>5 DEF ForSlot

\* A completion that leaves its connection in its slot with the operations it
\* should have.
LEMMA Resume ==
    ASSUME RingInv, cq # << >>, cq' = Tail(cq), Head(cq).op.type # "Accept",
           NEW s, s = Head(cq).op.slot, NEW c1, NEW ops,
           slab' = [slab EXCEPT ![s] = c1], vacant' = vacant, inflight' = inflight \o ops,
           waiting' = waiting,
           IsConnection(c1), c1.client = slab[s].client,
           IsSequence(ops), \A i \in DOMAIN ops : OwnOp(ops[i], s, c1),
           Awaited(c1) + 1 = Awaited(slab[s]) + Len(ops),
           Awaited(slab[s]) = 1 \/ c1.state = slab[s].state
    PROVE  RingInv'
<1>1. /\ Head(cq) = cq[1] /\ 1 \in DOMAIN cq /\ s \in DOMAIN slab
      /\ slab[s] # Vacant /\ IsConnection(slab[s]) /\ ForSlot(cq[1].op, s)
  BY CompletionOwner
<1>2. IsSequence(cq) /\ IsSequence(inflight)
  BY DEF RingInv, Shapes
<1>3. /\ c1 # Vacant /\ c1.client \in Clients /\ Awaited(c1) \in Nat
      /\ Awaited(slab[s]) \in Nat
  BY <1>1, ConnectionFacts
<1>4. /\ DOMAIN slab' = DOMAIN slab /\ slab'[s] = c1
      /\ \A t \in DOMAIN slab : t # s => slab'[t] = slab[t]
  BY <1>1
<1>5. /\ \A t \in DOMAIN slab : slab'[t].client = slab[t].client
      /\ \A t \in DOMAIN slab : slab'[t] = Vacant <=> slab[t] = Vacant
  BY <1>1, <1>3, <1>4
<1>6. /\ IsSequence(cq')
      /\ \A i \in DOMAIN cq' : i + 1 \in DOMAIN cq /\ cq'[i] = cq[i + 1] /\ i + 1 # 1
      /\ \A i, j \in DOMAIN cq' : i + 1 = j + 1 => i = j
  BY <1>1, <1>2, Handles
<1>7. /\ IsSequence(inflight')
      /\ \A i \in DOMAIN inflight' : \/ \E j \in DOMAIN inflight : inflight'[i] = inflight[j]
                                     \/ \E j \in DOMAIN ops : inflight'[i] = ops[j]
  <2>1. IsSequence(inflight \o ops) /\ From(inflight \o ops, inflight, ops)
    BY <1>2, ConcatFacts
  <2>2. IsSequence(inflight') /\ From(inflight', inflight, ops)
    BY <2>1
  <2> QED
    BY <2>2 DEF From
<1>8. Shapes'
  BY <1>4, <1>6, <1>7 DEF RingInv, Shapes, IsSequence, IsConnection, ConnFields, ConnStates
<1>9. Vacancy'
  BY <1>4, <1>5 DEF RingInv, Vacancy
<1>10. Apart'
  <2>1. \A t \in DOMAIN slab' : slab'[t].client \notin waiting'
    BY <1>4, <1>5 DEF RingInv, Apart
  <2>2. \A t, u \in DOMAIN slab' : slab'[t].client = slab'[u].client /\ slab'[t] # Vacant => t = u
    BY <1>4, <1>5 DEF RingInv, Apart
  <2>3. ASSUME NEW i \in DOMAIN cq', Arrived(cq'[i])
        PROVE  /\ cq'[i].res.val.client \in Clients \ waiting'
               /\ \A t \in DOMAIN slab' : slab'[t].client # cq'[i].res.val.client
               /\ \A j \in DOMAIN cq' :
                     Arrived(cq'[j]) /\ cq'[i].res.val.client = cq'[j].res.val.client => i = j
    BY <1>4, <1>5, <1>6, <2>3 DEF RingInv, Apart
  <2> QED
    BY <2>1, <2>2, <2>3 DEF RingInv, Apart, Arrived, Vacant
<1>11. Cardinality(Submitted(s)) + Cardinality(Unhandled(s)) = Awaited(slab[s])
  BY <1>1 DEF RingInv, Counts
<1>12. ASSUME NEW op, Owned(op, slab), Awaited(slab[s]) = 1 => ~ForSlot(op, s)
       PROVE  Owned(op, slab')
  <2>1. SUFFICES ASSUME op.type # "Accept"
                 PROVE  /\ op.slot \in DOMAIN slab' /\ slab'[op.slot] # Vacant
                        /\ op.client = slab'[op.slot].client
                        /\ Fits(op.type, slab'[op.slot].state)
    BY DEF Owned
  <2>2. /\ op.slot \in DOMAIN slab /\ slab[op.slot] # Vacant
        /\ op.client = slab[op.slot].client /\ Fits(op.type, slab[op.slot].state)
    BY <1>12, <2>1 DEF Owned
  <2>3. slab'[op.slot].state = slab[op.slot].state
    BY <1>4, <1>12, <2>1, <2>2 DEF ForSlot
  <2> QED
    BY <1>4, <1>5, <2>2, <2>3
<1>13. ASSUME Awaited(slab[s]) = 1
       PROVE  /\ \A i \in DOMAIN inflight : ~ForSlot(inflight[i], s)
              /\ \A i \in DOMAIN cq' : ~ForSlot(cq'[i].op, s)
  BY <1>1, <1>2, <1>11, <1>13, LastOne
<1>14. Ownership'
  <2>1. ASSUME NEW i \in DOMAIN inflight' PROVE Owned(inflight'[i], slab')
    <3>1. CASE \E j \in DOMAIN inflight : inflight'[i] = inflight[j]
      <4>1. PICK j \in DOMAIN inflight : inflight'[i] = inflight[j]
        BY <3>1
      <4>2. Owned(inflight[j], slab)
        BY DEF RingInv, Ownership
      <4>3. Owned(inflight'[i], slab) /\ (Awaited(slab[s]) = 1 => ~ForSlot(inflight'[i], s))
        BY <1>13, <4>1, <4>2
      <4>4. \A op : Owned(op, slab) /\ (Awaited(slab[s]) = 1 => ~ForSlot(op, s)) => Owned(op, slab')
        BY <1>12
      <4> QED
        BY <4>3, <4>4, Zenon
    <3>2. CASE \E j \in DOMAIN ops : inflight'[i] = ops[j]
      <4>1. PICK j \in DOMAIN ops : inflight'[i] = ops[j]
        BY <3>2
      <4>2. OwnOp(inflight'[i], s, c1)
        BY <4>1
      <4> QED
        BY <1>1, <1>3, <1>4, <4>2 DEF OwnOp, Owned
    <3> QED
      BY <1>7, <3>1, <3>2
  <2>2. ASSUME NEW i \in DOMAIN cq' PROVE Owned(cq'[i].op, slab') /\ (cq'[i].op.type \in KtlsOps => cq'[i].res.kind = "ok")
    <3>1. Owned(cq'[i].op, slab) /\ (cq'[i].op.type \in KtlsOps => cq'[i].res.kind = "ok")
      BY <1>6, <2>2 DEF RingInv, Ownership
    <3>2. Awaited(slab[s]) = 1 => ~ForSlot(cq'[i].op, s)
      BY <1>13
    <3>4. \A op : Owned(op, slab) /\ (Awaited(slab[s]) = 1 => ~ForSlot(op, s)) => Owned(op, slab')
      BY <1>12
    <3> QED
      BY <3>1, <3>2, <3>4, Zenon
  <2> QED
    BY <2>1, <2>2 DEF Ownership, KtlsOps
<1>15. \A i \in DOMAIN ops : ForSlot(ops[i], s)
  BY DEF OwnOp, ForSlot
<1>16. Counts'
  <2>1. ASSUME NEW t \in DOMAIN slab
        PROVE  Cardinality(Submitted(t)') + Cardinality(Unhandled(t)') = Awaited(slab'[t])
    <3> DEFINE a == Cardinality(Submitted(t))
               b == Cardinality(Unhandled(t))
               a1 == Cardinality(Submitted(t)')
               b1 == Cardinality(Unhandled(t)')
               m == OpCount(ops, t)
    <3>1. a \in Nat /\ m \in Nat /\ a1 = a + m
      BY <1>2, Submits
    <3>2. b1 \in Nat /\ b = b1 + (IF ForSlot(cq[1].op, t) THEN 1 ELSE 0)
      BY <1>2, Handles
    <3>3. a + b = Awaited(slab[t])
      BY DEF RingInv, Counts
    <3> HIDE DEF a, b, a1, b1, m
    <3>4. CASE t = s
      <4>1. m = Len(ops) /\ b = b1 + 1
        BY <1>1, <1>15, <3>2, <3>4, OpsOfOne DEF m
      <4>2. Awaited(slab'[t]) + 1 = a + b + m /\ Awaited(slab'[t]) \in Nat
        BY <1>3, <1>4, <3>3, <3>4, <4>1
      <4> QED
        BY <3>1, <3>2, <4>1, <4>2 DEF a1, b1
    <3>5. CASE t # s
      <4>1. m = 0
        BY <1>15, <3>5, OpsOfOne DEF m
      <4>2. b = b1
        BY <1>1, <3>2, <3>5 DEF ForSlot
      <4> QED
        BY <1>4, <3>1, <3>3, <3>5, <4>1, <4>2 DEF a1, b1
    <3> QED
      BY <3>4, <3>5
  <2> QED
    BY <1>4, <2>1 DEF Counts, Awaited, Vacant, Closed
<1> QED
  BY <1>8, <1>9, <1>10, <1>14, <1>16 DEF RingInv

\* An operation that completes.
LEMMA KernelStep ==
    ASSUME RingInv, NEW k \in DOMAIN inflight, NEW res, Completes(k, res),
           waiting' \subseteq waiting,
           inflight[k].type \in KtlsOps => res.kind = "ok",
           inflight[k].type = "Accept" /\ res # Failure => res.val.client \in waiting \ waiting'
    PROVE  RingInv'
<1> DEFINE n == Len(cq) + 1
           e == [op |-> inflight[k], res |-> res]
<1>1. IsSequence(inflight) /\ IsSequence(cq)
  BY DEF RingInv, Shapes
<1>2. slab' = slab /\ vacant' = vacant
  BY DEF Completes
<1>3. /\ IsSequence(inflight') /\ IsSequence(cq')
      /\ \A i \in DOMAIN inflight' : \E j \in DOMAIN inflight : inflight'[i] = inflight[j]
      /\ n \notin DOMAIN cq /\ DOMAIN cq' = DOMAIN cq \cup {n}
      /\ \A i \in DOMAIN cq : cq'[i] = cq[i]
      /\ cq'[n] = e
  BY <1>1, CompletesFacts
<1>4. e.op = inflight[k] /\ e.res = res
  OBVIOUS
<1> HIDE DEF n, e
<1>5. Shapes'
  BY <1>2, <1>3 DEF RingInv, Shapes, IsConnection, ConnFields, ConnStates
<1>6. Vacancy'
  BY <1>2 DEF RingInv, Vacancy
<1>7. Arrived(e) => e.res.val.client \in waiting \ waiting'
  BY <1>4 DEF Arrived
<1>8. /\ waiting \subseteq Clients
      /\ \A s \in DOMAIN slab : slab[s].client \notin waiting
      /\ \A s, t \in DOMAIN slab : slab[s].client = slab[t].client /\ slab[s] # Vacant => s = t
      /\ \A i \in DOMAIN cq : Arrived(cq[i]) =>
          /\ cq[i].res.val.client \in Clients \ waiting
          /\ \A s \in DOMAIN slab : slab[s].client # cq[i].res.val.client
          /\ \A j \in DOMAIN cq :
                Arrived(cq[j]) /\ cq[i].res.val.client = cq[j].res.val.client => i = j
  BY DEF RingInv, Apart
<1>9. Apart'
  <2>1. ASSUME NEW i \in DOMAIN cq', Arrived(cq'[i])
        PROVE  /\ cq'[i].res.val.client \in Clients \ waiting'
               /\ \A t \in DOMAIN slab' : slab'[t].client # cq'[i].res.val.client
               /\ \A j \in DOMAIN cq' :
                     Arrived(cq'[j]) /\ cq'[i].res.val.client = cq'[j].res.val.client => i = j
    <3>1. CASE i = n
      <4>1. cq'[i] = e
        BY <1>3, <3>1
      <4>2. e.res.val.client \in waiting \ waiting'
        BY <1>7, <2>1, <4>1
      <4>3. ASSUME NEW j \in DOMAIN cq, Arrived(cq'[j]) PROVE cq'[j].res.val.client # e.res.val.client
        BY <1>3, <1>8, <4>2, <4>3
      <4> QED
        BY <1>2, <1>3, <1>8, <3>1, <4>1, <4>2, <4>3
    <3>2. CASE i \in DOMAIN cq
      <4>1. cq'[i] = cq[i] /\ Arrived(cq[i])
        BY <1>3, <2>1, <3>2
      <4>2. cq[i].res.val.client \in Clients \ waiting
        BY <1>8, <3>2, <4>1
      <4>3. ASSUME NEW j \in DOMAIN cq', Arrived(cq'[j]), cq[i].res.val.client = cq'[j].res.val.client
            PROVE  i = j
        <5>1. CASE j = n
          BY <1>3, <1>7, <4>2, <4>3, <5>1
        <5>2. CASE j \in DOMAIN cq
          BY <1>3, <1>8, <3>2, <4>1, <4>3, <5>2
        <5> QED
          BY <1>3, <5>1, <5>2
      <4> QED
        BY <1>2, <1>8, <3>2, <4>1, <4>2, <4>3
    <3> QED
      BY <1>3, <3>1, <3>2
  <2> QED
    BY <1>2, <1>8, <2>1 DEF Apart, Arrived, Failure
<1>10. Ownership'
  <2>1. ASSUME NEW i \in DOMAIN inflight' PROVE Owned(inflight'[i], slab')
    BY <1>2, <1>3 DEF RingInv, Ownership
  <2>2. ASSUME NEW i \in DOMAIN cq' PROVE Owned(cq'[i].op, slab') /\ (cq'[i].op.type \in KtlsOps => cq'[i].res.kind = "ok")
    <3>1. CASE i = n
      <4>1. cq'[i].op = inflight[k] /\ cq'[i].res = res
        BY <1>3, <1>4, <3>1
      <4>2. Owned(inflight[k], slab)
        BY DEF RingInv, Ownership
      <4> QED
        BY <1>2, <4>1, <4>2
    <3>2. CASE i \in DOMAIN cq
      BY <1>2, <1>3, <3>2 DEF RingInv, Ownership
    <3> QED
      BY <1>3, <3>1, <3>2
  <2> QED
    BY <2>1, <2>2 DEF Ownership, KtlsOps
<1>11. Counts'
  <2>1. ASSUME NEW s \in DOMAIN slab
        PROVE  Cardinality(Submitted(s)') + Cardinality(Unhandled(s)') = Awaited(slab[s])
    <3>1. Cardinality(Submitted(s)) + Cardinality(Unhandled(s)) = Awaited(slab[s])
      BY DEF RingInv, Counts
    <3>2. Cardinality(Submitted(s)') + Cardinality(Unhandled(s)')
             = Cardinality(Submitted(s)) + Cardinality(Unhandled(s))
      BY <1>1, CompletesFacts
    <3> QED
      BY <3>1, <3>2, Zenon
  <2> QED
    BY <1>2, <2>1 DEF Counts, Awaited, Vacant, Closed
<1> QED
  BY <1>5, <1>6, <1>9, <1>10, <1>11 DEF RingInv

LEMMA KernelSteps ==
    ASSUME RingInv, refused = {}, Kernel
    PROVE  RingInv'
<1>1. PICK k \in DOMAIN inflight :
         \/ KernelAccept(k) \/ KernelRead(k) \/ KernelWrite(k) \/ KernelSetOption(k)
         \/ KernelRefusesKtls(k) \/ KernelClose(k) \/ KernelGone(k) \/ KernelAcceptFails(k)
  BY DEF Kernel
<1>2. CASE KernelAccept(k)
  <2> DEFINE free == {f \in Fds : files[f] = Closed}
             fd == CHOOSE f \in free : \A g \in free : f <= g
  <2>1. PICK c \in waiting :
          /\ Completes(k, Success([client |-> c, fd |-> fd])) /\ waiting' = waiting \ {c}
    BY <1>2 DEF KernelAccept
  <2>2. inflight[k].type = "Accept"
    BY <1>2 DEF KernelAccept
  <2> HIDE DEF fd
  <2>3. Success([client |-> c, fd |-> fd]).val.client \in waiting \ waiting'
    BY <2>1 DEF Success
  <2> QED
    BY <2>1, <2>2, <2>3, KernelStep DEF KtlsOps
<1>3. CASE KernelRead(k)
  <2>1. /\ inflight[k].type = "Read" /\ waiting' = waiting
        /\ \E n \in 1..Len(Readable(inflight[k].client)) :
              Completes(k, Success(SubSeq(Readable(inflight[k].client), 1, n)))
    BY <1>3 DEF KernelRead
  <2>2. PICK res : Completes(k, res)
    BY <2>1
  <2> QED
    BY <2>1, <2>2, KernelStep DEF KtlsOps
<1>4. CASE KernelWrite(k)
  <2>1. inflight[k].type = "Write" /\ waiting' = waiting /\ \E res : Completes(k, res)
    BY <1>4 DEF KernelWrite
  <2>2. PICK res : Completes(k, res)
    BY <2>1
  <2> QED
    BY <2>1, <2>2, KernelStep DEF KtlsOps
<1>5. CASE KernelSetOption(k)
  <2>1. inflight[k].type \in KtlsOps /\ waiting' = waiting /\ Completes(k, Success(0)) /\ Success(0).kind = "ok"
    BY <1>5 DEF KernelSetOption, Success
  <2> QED
    BY <2>1, KernelStep DEF KtlsOps
<1>6. CASE KernelRefusesKtls(k)
  BY <1>6 DEF KernelRefusesKtls
<1>7. CASE KernelClose(k)
  <2>1. inflight[k].type = "Close" /\ waiting' = waiting /\ Completes(k, Success(0))
    BY <1>7 DEF KernelClose
  <2> QED
    BY <2>1, KernelStep DEF KtlsOps
<1>8. CASE KernelGone(k)
  <2>1. inflight[k].type \in {"Read", "Write"} /\ waiting' = waiting /\ \E res : Completes(k, res)
    BY <1>8 DEF KernelGone
  <2>2. PICK res : Completes(k, res)
    BY <2>1
  <2> QED
    BY <2>1, <2>2, KernelStep DEF KtlsOps
<1>9. CASE KernelAcceptFails(k)
  <2>1. inflight[k].type = "Accept" /\ waiting' = waiting /\ Completes(k, Failure)
    BY <1>9 DEF KernelAcceptFails
  <2> QED
    BY <2>1, KernelStep DEF KtlsOps
<1> QED
  BY <1>1, <1>2, <1>3, <1>4, <1>5, <1>6, <1>7, <1>8, <1>9

-----------------------------------------------------------------------------
(* The handlers.                                                           *)

\* The next completion is for slot s, and its handler runs.
Handling(s) ==
    /\ RingInv /\ cq # << >> /\ cq' = Tail(cq) /\ waiting' = waiting
    /\ Head(cq).op.type # "Accept" /\ s = Head(cq).op.slot

LEMMA HandlingFacts ==
    ASSUME NEW s, Handling(s)
    PROVE  /\ s \in DOMAIN slab /\ slab[s] # Vacant /\ IsConnection(slab[s])
           /\ Fits(Head(cq).op.type, slab[s].state)
           /\ Awaited(slab[s]) = (IF slab[s].state = "EnablingKtls" THEN slab[s].ktls ELSE 1)
           /\ Awaited(slab[s]) \in Nat \ {0}
<1>1. /\ 1 \in DOMAIN cq /\ s \in DOMAIN slab /\ slab[s] # Vacant /\ IsConnection(slab[s])
      /\ Fits(Head(cq).op.type, slab[s].state) /\ ForSlot(cq[1].op, s)
  BY CompletionOwner DEF Handling
<1>2. /\ Awaited(slab[s]) = (IF slab[s].state = "EnablingKtls" THEN slab[s].ktls ELSE 1)
      /\ Awaited(slab[s]) \in Nat
  BY <1>1, ConnectionFacts
<1>3. IsSequence(inflight) /\ IsSequence(cq)
  BY DEF Handling, RingInv, Shapes
<1>4. /\ Cardinality(Unhandled(s)') \in Nat
      /\ Cardinality(Unhandled(s)) = Cardinality(Unhandled(s)') + 1
  BY <1>1, <1>3, Handles DEF Handling
<1>5. Cardinality(Submitted(s)) \in Nat
  BY <1>3, QueueSets
<1>6. Cardinality(Submitted(s)) + Cardinality(Unhandled(s)) = Awaited(slab[s])
  BY <1>1 DEF Handling, RingInv, Counts
<1>7. \A a, b, c, d \in Nat : b = c + 1 /\ a + b = d => d # 0
  OBVIOUS
<1>8. Cardinality(Unhandled(s)) \in Nat
  BY <1>3, QueueSets
<1>9. Awaited(slab[s]) # 0
  BY <1>2, <1>4, <1>5, <1>6, <1>7, <1>8, Zenon
<1> QED
  BY <1>1, <1>2, <1>9

LEMMA ContinueKeeps ==
    ASSUME NEW s, Handling(s), NEW c1, NEW ops, Continue(s, c1, ops),
           IsConnection(c1), c1.client = slab[s].client,
           IsSequence(ops), \A i \in DOMAIN ops : OwnOp(ops[i], s, c1),
           Awaited(c1) + 1 = Awaited(slab[s]) + Len(ops),
           Awaited(slab[s]) = 1 \/ c1.state = slab[s].state, running'
    PROVE  RingInv'
<1>1. slab' = [slab EXCEPT ![s] = c1] /\ vacant' = vacant /\ inflight' = inflight \o ops
  BY DEF Continue, Submit, Stops
<1> QED
  BY <1>1, Resume DEF Handling

\* A connection that goes on with one operation.
LEMMA OneMore ==
    ASSUME NEW s, Handling(s), Awaited(slab[s]) = 1, NEW c1, NEW c2, NEW type, type # "Accept",
           IsConnection(c1), c1.client = slab[s].client, c2.client = slab[s].client,
           c1.state # "EnablingKtls", Fits(type, c1.state),
           Continue(s, c1, <<ConnOp(type, s, c2)>>), running'
    PROVE  RingInv'
<1> DEFINE op == ConnOp(type, s, c2)
<1>1. OwnOp(op, s, c1)
  <2>1. op.type = type /\ op.slot = s /\ op.client = c2.client
    BY DEF ConnOp, Op
  <2> QED
    BY <2>1 DEF OwnOp
<1> HIDE DEF op
<1>2. IsSequence(<<op>>) /\ Len(<<op>>) = 1 /\ \A i \in DOMAIN <<op>> : <<op>>[i] = op
  BY Singles
<1>3. \A i \in DOMAIN <<op>> : OwnOp(<<op>>[i], s, c1)
  BY <1>1, <1>2
<1>4. Awaited(c1) = 1
  BY ConnectionFacts
<1>5. Awaited(c1) + 1 = Awaited(slab[s]) + Len(<<op>>)
  BY <1>2, <1>4
<1>6. Continue(s, c1, <<op>>)
  BY DEF op
<1> QED
  BY <1>2, <1>3, <1>5, <1>6, ContinueKeeps

LEMMA CloseKeeps ==
    ASSUME NEW s, Handling(s), Awaited(slab[s]) = 1, NEW conn, IsConnection(conn),
           conn.client = slab[s].client, conn.state # "EnablingKtls",
           CloseConnection(s, conn), running'
    PROVE  RingInv'
  BY OneMore DEF CloseConnection, Fits

LEMMA NextWriteKeeps ==
    ASSUME NEW s, Handling(s), Awaited(slab[s]) = 1, NEW conn, IsConnection(conn),
           conn.client = slab[s].client, NextWrite(s, conn), running'
    PROVE  RingInv'
<1>1. CASE conn.pending # << >>
  <2> DEFINE next == Head(conn.pending)
             c1 == [conn EXCEPT !.pending = Tail(@), !.write = next.parts,
                                !.state = IF next.keep THEN "Writing" ELSE "Closing"]
  <2>1. Continue(s, c1, <<ConnOp("Write", s, c1)>>)
    BY <1>1 DEF NextWrite
  <2>2. IsConnection(c1) /\ c1.client = conn.client /\ c1.state \in {"Writing", "Closing"}
    BY DEF IsConnection, ConnFields, ConnStates
  <2> HIDE DEF c1
  <2>3. c1.state # "EnablingKtls" /\ Fits("Write", c1.state)
    BY <2>2 DEF Fits
  <2> QED
    BY <2>1, <2>2, <2>3, OneMore
<1>2. CASE conn.pending = << >>
  <2> DEFINE c1 == [conn EXCEPT !.state = "Reading"]
  <2>1. Continue(s, c1, <<ConnOp("Read", s, conn)>>)
    BY <1>2 DEF NextWrite
  <2>2. IsConnection(c1) /\ c1.client = conn.client /\ c1.state = "Reading"
    BY DEF IsConnection, ConnFields, ConnStates
  <2> HIDE DEF c1
  <2>3. c1.state # "EnablingKtls" /\ Fits("Read", c1.state)
    BY <2>2 DEF Fits
  <2> QED
    BY <2>1, <2>2, <2>3, OneMore
<1> QED
  BY <1>1, <1>2

LEMMA DecodedFacts ==
    ASSUME NEW conn, IsConnection(conn), NEW d
    PROVE  /\ IsConnection(Decoded(conn, d)) /\ Decoded(conn, d).client = conn.client
           /\ Decoded(conn, d).state = conn.state
  BY DEF Decoded, IsConnection, ConnFields, ConnStates

LEMMA HandOffKeeps ==
    ASSUME NEW s, Handling(s), Awaited(slab[s]) = 1, NEW conn, IsConnection(conn),
           conn.client = slab[s].client, conn.state # "EnablingKtls", HandOff(s, conn), running'
    PROVE  RingInv'
<1> DEFINE d == DecodeLoop(conn.decoder \o conn.plaintext, conn.count)
           c1 == [Decoded(conn, d) EXCEPT !.plaintext = << >>]
           c2 == [c1 EXCEPT !.state = "EnablingKtls", !.ktls = 3]
           a == ConnOp("TCP_ULP", s, conn)
           b == ConnOp("TLS_TX", s, conn)
           c == ConnOp("TLS_RX", s, conn)
           ops == <<a, b, c>>
<1>1. IF d.failed THEN CloseConnection(s, c1) ELSE Continue(s, c2, ops)
  BY DEF HandOff
<1> HIDE DEF d
<1>2. IsConnection(c1) /\ c1.client = conn.client /\ c1.state = conn.state
  <2>1. /\ IsConnection(Decoded(conn, d)) /\ Decoded(conn, d).client = conn.client
        /\ Decoded(conn, d).state = conn.state
    BY DecodedFacts
  <2> QED
    BY <2>1 DEF IsConnection, ConnFields, ConnStates
<1> HIDE DEF c1
<1>3. CASE d.failed
  BY <1>1, <1>2, <1>3, CloseKeeps
<1>4. CASE ~d.failed
  <2>1. Continue(s, c2, ops)
    BY <1>1, <1>4
  <2>2. IsConnection(c2) /\ c2.client = conn.client /\ c2.state = "EnablingKtls" /\ c2.ktls = 3
    BY <1>2 DEF IsConnection, ConnFields, ConnStates
  <2> HIDE DEF c2
  <2>3. OwnOp(a, s, c2) /\ OwnOp(b, s, c2) /\ OwnOp(c, s, c2)
    <3>1. /\ a.type = "TCP_ULP" /\ a.slot = s /\ a.client = conn.client
          /\ b.type = "TLS_TX" /\ b.slot = s /\ b.client = conn.client
          /\ c.type = "TLS_RX" /\ c.slot = s /\ c.client = conn.client
      BY DEF ConnOp, Op
    <3> QED
      BY <2>2, <3>1 DEF OwnOp, Fits, KtlsOps
  <2> HIDE DEF a, b, c
  <2>4. ops \in Seq({a, b, c}) /\ Len(ops) = 3 /\ \A i \in DOMAIN ops : ops[i] \in {a, b, c}
    OBVIOUS
  <2>5. IsSequence(ops)
    BY <2>4, IsSequenceIntro, Zenon
  <2>6. \A i \in DOMAIN ops : OwnOp(ops[i], s, c2)
    BY <2>3, <2>4
  <2>7. Awaited(c2) = 3
    BY <2>2, ConnectionFacts
  <2> HIDE DEF ops
  <2>8. Awaited(c2) + 1 = Awaited(slab[s]) + Len(ops)
    BY <2>4, <2>7
  <2> QED
    BY <2>1, <2>2, <2>5, <2>6, <2>8, ContinueKeeps
<1> QED
  BY <1>3, <1>4

LEMMA ForConnectionFacts ==
    ASSUME RingInv, NEW types, ForConnection(types), "Accept" \notin types
    PROVE  Handling(Head(cq).op.slot) /\ Head(cq).op.type \in types
  BY DEF ForConnection, Completion, Completed, Handling, world

LEMMA TlsReadKeeps ==
    ASSUME RingInv, TlsRead, running'
    PROVE  RingInv'
<1>0. ForConnection({"Read"})
  BY Zenon DEF TlsRead
<1> DEFINE s == Head(cq).op.slot
           data == Head(cq).res.val
           has(x) == \E i \in DOMAIN data : data[i] = x
           finished == ~slab[s].handshaking \/ has("finished")
           app == IF Head(data) \in {"hello", "finished"} THEN Tail(data) ELSE data
           c1 == [slab[s] EXCEPT !.handshaking = ~finished, !.plaintext = @ \o app]
           c2 == [c1 EXCEPT !.write = <<Flight>>, !.state = "HandshakeWriting"]
           c3 == [c1 EXCEPT !.state = "HandshakeReading"]
<1>1. Handling(s)
  BY <1>0, ForConnectionFacts
<1>2. slab[s].state \in {"HandshakeReading", "HandshakeWriting"}
  BY DEF TlsRead
<1>3. IsConnection(slab[s]) /\ Awaited(slab[s]) = 1
  BY <1>1, <1>2, HandlingFacts
<1>4. \/ CloseConnection(s, slab[s])
      \/ Continue(s, c2, <<ConnOp("Write", s, c1)>>)
      \/ HandOff(s, c1)
      \/ Continue(s, c3, <<ConnOp("Read", s, c1)>>)
  BY DEF TlsRead
<1> HIDE DEF finished, data
<1>5. IsConnection(c1) /\ c1.client = slab[s].client /\ c1.state = slab[s].state
  BY <1>3 DEF IsConnection, ConnFields, ConnStates
<1> HIDE DEF c1
<1>6. /\ IsConnection(c2) /\ c2.client = slab[s].client /\ c2.state = "HandshakeWriting"
      /\ IsConnection(c3) /\ c3.client = slab[s].client /\ c3.state = "HandshakeReading"
  BY <1>5 DEF IsConnection, ConnFields, ConnStates
<1> HIDE DEF c2, c3, s
<1>7. Fits("Write", c2.state) /\ Fits("Read", c3.state)
  BY <1>6 DEF Fits
<1>8. CASE CloseConnection(s, slab[s])
  BY <1>1, <1>2, <1>3, <1>8, CloseKeeps
<1>9. CASE Continue(s, c2, <<ConnOp("Write", s, c1)>>)
  BY <1>1, <1>3, <1>5, <1>6, <1>7, <1>9, OneMore
<1>10. CASE HandOff(s, c1)
  BY <1>1, <1>2, <1>3, <1>5, <1>10, HandOffKeeps
<1>11. CASE Continue(s, c3, <<ConnOp("Read", s, c1)>>)
  BY <1>1, <1>3, <1>5, <1>6, <1>7, <1>11, OneMore
<1> QED
  BY <1>4, <1>8, <1>9, <1>10, <1>11, Zenon

LEMMA HttpReadKeeps ==
    ASSUME RingInv, HttpRead, running'
    PROVE  RingInv'
<1>0. ForConnection({"Read"})
  BY Zenon DEF HttpRead
<1> DEFINE s == Head(cq).op.slot
           d == DecodeLoop(slab[s].decoder \o Head(cq).res.val, slab[s].count)
<1>1. Handling(s)
  BY <1>0, ForConnectionFacts
<1>2. slab[s].state = "Reading"
  BY DEF HttpRead
<1>3. IsConnection(slab[s]) /\ Awaited(slab[s]) = 1
  BY <1>1, <1>2, HandlingFacts
<1>4. NextWrite(s, Decoded(slab[s], d))
  BY DEF HttpRead, Stops
<1> HIDE DEF s, d
<1>5. IsConnection(Decoded(slab[s], d)) /\ Decoded(slab[s], d).client = slab[s].client
  BY <1>3, DecodedFacts
<1> QED
  BY <1>1, <1>3, <1>4, <1>5, NextWriteKeeps

LEMMA WrittenKeeps ==
    ASSUME RingInv, Written, running'
    PROVE  RingInv'
<1>0. ForConnection({"Write"})
  BY Zenon DEF Written
<1> DEFINE s == Head(cq).op.slot
           n == Head(cq).res.val
           c1 == [slab[s] EXCEPT !.write = SubSeq(@, n + 1, Len(@))]
           c2 == [c1 EXCEPT !.state = "HandshakeReading"]
           c3 == [c1 EXCEPT !.pending = << >>]
<1>1. Handling(s) /\ Head(cq).op.type = "Write"
  BY <1>0, ForConnectionFacts
<1>2. slab[s].state \in {"HandshakeWriting", "Writing", "Closing"}
  BY <1>1, HandlingFacts DEF Fits, KtlsOps
<1>3. IsConnection(slab[s]) /\ Awaited(slab[s]) = 1
  BY <1>1, <1>2, HandlingFacts
<1>4. IsConnection(c1) /\ c1.client = slab[s].client /\ c1.state = slab[s].state
  BY <1>3 DEF IsConnection, ConnFields, ConnStates
<1>5. \/ Continue(s, c1, <<ConnOp("Write", s, c1)>>)
      \/ Continue(s, c2, <<ConnOp("Read", s, c1)>>)
      \/ HandOff(s, c1)
      \/ NextWrite(s, c1)
      \/ CloseConnection(s, c3)
  <2>1. IF c1.write # << >> THEN Continue(s, c1, <<ConnOp("Write", s, c1)>>)
        ELSE CASE c1.state = "HandshakeWriting" ->
                    IF c1.handshaking THEN Continue(s, c2, <<ConnOp("Read", s, c1)>>) ELSE HandOff(s, c1)
               [] c1.state = "Writing" -> NextWrite(s, c1)
               [] c1.state = "Closing" -> CloseConnection(s, c3)
               [] OTHER -> Continue(s, c1, << >>)
    BY DEF Written
  <2>2. c1.state \in {"HandshakeWriting", "Writing", "Closing"}
    BY <1>2, <1>4
  <2> HIDE DEF c1, c2, c3, s
  <2> QED
    BY <2>1, <2>2
<1> HIDE DEF c1
<1>6. /\ IsConnection(c2) /\ c2.client = slab[s].client /\ c2.state = "HandshakeReading"
      /\ IsConnection(c3) /\ c3.client = slab[s].client /\ c3.state = slab[s].state
  BY <1>4 DEF IsConnection, ConnFields, ConnStates
<1> HIDE DEF c2, c3, s
<1>7. Fits("Write", c1.state) /\ Fits("Read", c2.state) /\ c1.state # "EnablingKtls"
  BY <1>2, <1>4, <1>6 DEF Fits
<1>8. CASE Continue(s, c1, <<ConnOp("Write", s, c1)>>)
  BY <1>1, <1>3, <1>4, <1>7, <1>8, OneMore
<1>9. CASE Continue(s, c2, <<ConnOp("Read", s, c1)>>)
  BY <1>1, <1>3, <1>4, <1>6, <1>7, <1>9, OneMore
<1>10. CASE HandOff(s, c1)
  BY <1>1, <1>3, <1>4, <1>7, <1>10, HandOffKeeps
<1>11. CASE NextWrite(s, c1)
  BY <1>1, <1>3, <1>4, <1>11, NextWriteKeeps
<1>12. CASE CloseConnection(s, c3)
  BY <1>1, <1>3, <1>4, <1>6, <1>7, <1>12, CloseKeeps
<1> QED
  BY <1>5, <1>8, <1>9, <1>10, <1>11, <1>12, Zenon

LEMMA OptionSetKeeps ==
    ASSUME RingInv, OptionSet, running'
    PROVE  RingInv'
<1>0. ForConnection(KtlsOps)
  BY Zenon DEF OptionSet
<1> DEFINE s == Head(cq).op.slot
           c1 == [slab[s] EXCEPT !.ktls = @ - 1]
<1>1. Handling(s) /\ Head(cq).op.type \in KtlsOps
  BY <1>0, ForConnectionFacts DEF KtlsOps
<1>2. slab[s].state = "EnablingKtls"
  BY <1>1, HandlingFacts DEF Fits, KtlsOps
<1>3. IsConnection(slab[s]) /\ Awaited(slab[s]) = slab[s].ktls /\ slab[s].ktls \in Nat \ {0}
  BY <1>1, <1>2, HandlingFacts
<1>4. /\ IsConnection(c1) /\ c1.client = slab[s].client /\ c1.state = slab[s].state
      /\ c1.ktls = slab[s].ktls - 1
  BY <1>3 DEF IsConnection, ConnFields, ConnStates
<1>5. IF c1.ktls = 0 THEN NextWrite(s, c1) ELSE Continue(s, c1, << >>)
  BY DEF OptionSet
<1> HIDE DEF c1, s
<1>6. CASE c1.ktls = 0
  <2>1. Awaited(slab[s]) = 1
    BY <1>3, <1>4, <1>6
  <2> QED
    BY <1>1, <1>4, <1>5, <1>6, <2>1, NextWriteKeeps
<1>7. CASE c1.ktls # 0
  <2>1. Awaited(c1) = c1.ktls
    BY <1>2, <1>4, ConnectionFacts
  <2>2. Awaited(c1) + 1 = Awaited(slab[s]) + Len(<< >>)
    BY <1>3, <1>4, <2>1
  <2>3. IsSequence(<< >>) /\ \A i \in DOMAIN << >> : OwnOp(<< >>[i], s, c1)
    <3>1. << >> \in Seq({}) /\ DOMAIN << >> = {}
      OBVIOUS
    <3> QED
      BY <3>1, IsSequenceIntro
  <2> QED
    BY <1>1, <1>4, <1>5, <1>7, <2>2, <2>3, ContinueKeeps
<1> QED
  BY <1>6, <1>7

LEMMA OperationFailedKeeps ==
    ASSUME RingInv, OperationFailed, running'
    PROVE  RingInv'
<1> DEFINE s == Head(cq).op.slot
<1>0. ForConnection({"Read", "Write"} \cup KtlsOps)
  BY Zenon DEF OperationFailed
<1>1. Handling(s) /\ Head(cq).op.type \in {"Read", "Write"} \cup KtlsOps
  BY <1>0, ForConnectionFacts DEF KtlsOps
<1>2. Head(cq).res.kind # "ok" /\ CloseConnection(s, slab[s])
  BY DEF OperationFailed
<1>3. Head(cq).op.type \notin KtlsOps
  BY <1>1, <1>2, CompletionOwner DEF Handling
<1>4. IsConnection(slab[s]) /\ slab[s].state # "EnablingKtls" /\ Awaited(slab[s]) = 1
  <2>1. slab[s].state # "EnablingKtls"
    BY <1>1, <1>3, HandlingFacts DEF Fits
  <2> QED
    BY <1>1, <2>1, HandlingFacts
<1> QED
  BY <1>1, <1>2, <1>4, CloseKeeps

-----------------------------------------------------------------------------
(* The list of vacant keys.                                                *)

Distinct(v) == \A i, j \in DOMAIN v : v[i] = v[j] => i = j

LEMMA Prepend ==
    ASSUME NEW S, NEW v \in Seq(S), NEW x \in S, Distinct(v), x \notin Range(v)
    PROVE  /\ <<x>> \o v \in Seq(S) /\ Distinct(<<x>> \o v)
           /\ Range(<<x>> \o v) = {x} \cup Range(v)
<1> DEFINE w == <<x>> \o v
           n == Len(v)
<1>1. <<x>> \in Seq(S) /\ Len(<<x>>) = 1 /\ <<x>>[1] = x /\ n \in Nat /\ DOMAIN v = 1..n
  BY LenProperties
<1>2. /\ w \in Seq(S) /\ Len(w) = 1 + n
      /\ \A i \in 1..(1 + n) : w[i] = IF i <= 1 THEN <<x>>[i] ELSE v[i - 1]
  BY <1>1, ConcatProperties
<1>3. DOMAIN w = 1..(1 + n)
  BY <1>2, LenProperties
<1> HIDE DEF w, n
<1>4. /\ 1 \in DOMAIN w /\ w[1] = x
      /\ \A i \in DOMAIN w : i # 1 => i - 1 \in DOMAIN v /\ w[i] = v[i - 1]
      /\ \A i \in DOMAIN v : i + 1 \in DOMAIN w /\ i + 1 # 1 /\ w[i + 1] = v[i]
  <2>1. \A i \in 1..(1 + n) : i # 1 => i - 1 \in 1..n /\ ~(i <= 1)
    BY <1>1
  <2>2. \A i \in 1..n : i + 1 \in 1..(1 + n) /\ ~(i + 1 <= 1) /\ (i + 1) - 1 = i /\ i + 1 # 1
    BY <1>1
  <2>3. 1 \in 1..(1 + n) /\ 1 <= 1
    BY <1>1
  <2> QED
    BY <1>1, <1>2, <1>3, <2>1, <2>2, <2>3
<1>5. Range(w) = {x} \cup Range(v)
  BY <1>4 DEF Range
<1>6. ASSUME NEW i \in DOMAIN w, NEW j \in DOMAIN w, w[i] = w[j] PROVE i = j
  <2>1. \A m \in DOMAIN v : v[m] # x
    BY DEF Range
  <2>2. CASE i = 1 \/ j = 1
    BY <1>4, <1>6, <2>1, <2>2
  <2>3. CASE i # 1 /\ j # 1
    <3>1. i - 1 = j - 1
      BY <1>4, <1>6, <2>3 DEF Distinct
    <3> QED
      BY <1>1, <1>3, <3>1
  <2> QED
    BY <2>2, <2>3
<1> QED
  BY <1>2, <1>5, <1>6 DEF Distinct, w

LEMMA DropFirst ==
    ASSUME NEW S, NEW v \in Seq(S), v # << >>, Distinct(v)
    PROVE  /\ Tail(v) \in Seq(S) /\ Distinct(Tail(v))
           /\ Head(v) \in Range(v) /\ Range(Tail(v)) = Range(v) \ {Head(v)}
<1> DEFINE w == Tail(v)
           n == Len(v)
<1>1. n \in Nat /\ DOMAIN v = 1..n /\ n # 0
  BY LenProperties, EmptySeq
<1>2. w \in Seq(S) /\ Len(w) = n - 1 /\ \A i \in 1..Len(w) : w[i] = v[i + 1]
  BY HeadTailProperties
<1>3. DOMAIN w = 1..(n - 1)
  BY <1>2, LenProperties
<1>4. Head(v) = v[1]
  OBVIOUS
<1> HIDE DEF w, n
<1>5. /\ 1 \in DOMAIN v
      /\ \A i \in DOMAIN w : i + 1 \in DOMAIN v /\ i + 1 # 1 /\ w[i] = v[i + 1]
      /\ \A i \in DOMAIN v : i # 1 => i - 1 \in DOMAIN w /\ w[i - 1] = v[i]
      /\ \A i, j \in DOMAIN w : i + 1 = j + 1 => i = j
  <2>1. \A i \in 1..(n - 1) : i + 1 \in 1..n /\ i + 1 # 1
    BY <1>1
  <2>2. \A i \in 1..n : i # 1 => i - 1 \in 1..(n - 1) /\ (i - 1) + 1 = i
    BY <1>1
  <2>3. \A i, j \in 1..(n - 1) : i + 1 = j + 1 => i = j
    BY <1>1
  <2>4. 1 \in 1..n
    BY <1>1
  <2> QED
    BY <1>1, <1>2, <1>3, <2>1, <2>2, <2>3, <2>4
<1>6. Distinct(w)
  BY <1>5 DEF Distinct
<1>7. v[1] \in Range(v) /\ Range(w) = Range(v) \ {v[1]}
  <2>1. \A i \in DOMAIN v : i # 1 => v[i] # v[1]
    BY <1>5 DEF Distinct
  <2> QED
    BY <1>5, <2>1 DEF Range
<1> QED
  BY <1>2, <1>4, <1>6, <1>7 DEF w

LEMMA RangeSize ==
    ASSUME NEW S, NEW v \in Seq(S), Distinct(v)
    PROVE  IsFiniteSet(Range(v)) /\ Cardinality(Range(v)) = Len(v)
<1>1. Len(v) \in Nat /\ DOMAIN v = 1..Len(v) /\ v \in [1..Len(v) -> S]
  BY LenProperties
<1>2. v \in [1..Len(v) -> Range(v)]
  BY <1>1 DEF Range
<1>3. v \in Injection(1..Len(v), Range(v))
  BY <1>1, <1>2 DEF Injection, IsInjective, Distinct
<1>4. v \in Surjection(1..Len(v), Range(v))
  BY <1>1, <1>2 DEF Surjection, Range
<1>5. ExistsBijection(1..Len(v), Range(v))
  BY <1>3, <1>4 DEF ExistsBijection, Bijection
<1>6. IsFiniteSet(1..Len(v)) /\ Cardinality(1..Len(v)) = Len(v)
  <2>1. 1..Len(v) \in SUBSET (1..Len(v))
    OBVIOUS
  <2> QED
    BY <1>1, <2>1, IntervalSubset
<1> QED
  BY <1>5, <1>6, FS_Bijection

\* There is a slot for a client that has been accepted.
LEMMA SlotLeft ==
    ASSUME RingInv, NEW k \in DOMAIN cq, Arrived(cq[k])
    PROVE  vacant # << >>
<1> DEFINE c == cq[k].res.val.client
           others == Clients \ {c}
           who == [s \in Range(Slots) |-> slab[s].client]
<1>1. SUFFICES ASSUME vacant = << >> PROVE FALSE
  OBVIOUS
<1>2. Slots \in Seq(Nat) /\ Distinct(Slots) /\ IsFiniteSet(Clients) /\ Cardinality(Clients) <= Len(Slots)
  BY ServerAssumption DEF Distinct
<1>3. c \in Clients /\ \A s \in DOMAIN slab : slab[s].client # c
  BY DEF RingInv, Apart
<1>4. Range(vacant) = {}
  BY <1>1 DEF Range
<1>5. \A s \in Range(Slots) : s \in DOMAIN slab /\ slab[s] # Vacant /\ IsConnection(slab[s])
  BY <1>4 DEF RingInv, Shapes, Vacancy
<1> HIDE DEF c
<1>6. who \in [Range(Slots) -> others]
  BY <1>3, <1>5 DEF IsConnection
<1>7. \A s, t \in Range(Slots) : who[s] = who[t] => s = t
  BY <1>5 DEF RingInv, Apart
<1>8. who \in Injection(Range(Slots), others)
  <2>1. DOMAIN who = Range(Slots)
    OBVIOUS
  <2> HIDE DEF who
  <2> QED
    BY <1>6, <1>7, <2>1 DEF Injection, IsInjective
<1>9. IsFiniteSet(others) /\ Cardinality(others) = Cardinality(Clients) - 1 /\ Cardinality(Clients) \in Nat
  BY <1>2, <1>3, FS_RemoveElement, FS_CardinalityType
<1> HIDE DEF who, others
<1>10. Cardinality(Range(Slots)) <= Cardinality(others)
  BY <1>8, <1>9, FS_Injection
<1>11. Cardinality(Range(Slots)) = Len(Slots)
  BY <1>2, RangeSize
<1>12. Len(Slots) \in Nat
  BY <1>2, LenProperties
<1> QED
  BY <1>2, <1>9, <1>10, <1>11, <1>12

LEMMA RemovedKeeps ==
    ASSUME RingInv, Removed
    PROVE  RingInv'
<1> DEFINE s == Head(cq).op.slot
<1>1. Handling(s) /\ Head(cq).op.type = "Close" /\ inflight' = inflight /\ waiting' = waiting /\ cq' = Tail(cq)
  BY DEF Removed, Completion, Completed, Handling, world
<1>2. /\ s \in DOMAIN slab /\ slab[s] # Vacant /\ slab[s].state # "EnablingKtls"
      /\ Awaited(slab[s]) = 1
  <2>1. s \in DOMAIN slab /\ slab[s] # Vacant /\ Fits("Close", slab[s].state)
    BY <1>1, HandlingFacts
  <2>2. slab[s].state # "EnablingKtls"
    BY <2>1 DEF Fits, KtlsOps
  <2> QED
    BY <1>1, <2>1, <2>2, HandlingFacts
<1>3. slab' = [slab EXCEPT ![s] = Vacant] /\ vacant' = <<s>> \o vacant
  BY <1>2 DEF Removed
<1>4. IsSequence(inflight) /\ IsSequence(cq) /\ DOMAIN slab = Range(Slots)
  BY DEF RingInv, Shapes
<1>5. 1 \in DOMAIN cq /\ ForSlot(cq[1].op, s) /\ cq # << >>
  BY <1>1, CompletionOwner DEF Handling
<1> HIDE DEF s
<1>6. Cardinality(Submitted(s)) + Cardinality(Unhandled(s)) = 1
  BY <1>2 DEF RingInv, Counts
<1>7. /\ \A i \in DOMAIN inflight : ~ForSlot(inflight[i], s)
      /\ \A i \in DOMAIN cq' : ~ForSlot(cq'[i].op, s)
  BY <1>1, <1>4, <1>5, <1>6, LastOne
<1>8. /\ IsSequence(cq')
      /\ \A i \in DOMAIN cq' : i + 1 \in DOMAIN cq /\ cq'[i] = cq[i + 1] /\ i + 1 # 1
      /\ \A i, j \in DOMAIN cq' : i + 1 = j + 1 => i = j
  BY <1>1, <1>4, <1>5, Handles
<1>9. /\ DOMAIN slab' = DOMAIN slab /\ slab'[s] = Vacant
      /\ \A t \in DOMAIN slab : t # s => slab'[t] = slab[t]
  BY <1>2, <1>3
<1>10. Shapes'
  BY <1>1, <1>4, <1>8, <1>9 DEF RingInv, Shapes, IsConnection, ConnFields, ConnStates, Vacant, Closed
<1>11. Vacancy'
  <2>1. vacant \in Seq(Range(Slots)) /\ Distinct(vacant) /\ s \notin Range(vacant) /\ s \in Range(Slots)
    BY <1>2, <1>4 DEF RingInv, Vacancy, Distinct
  <2>2. /\ vacant' \in Seq(Range(Slots)) /\ Distinct(vacant') /\ Range(vacant') = {s} \cup Range(vacant)
    BY <1>3, <2>1, Prepend
  <2>3. \A t \in DOMAIN slab' : slab'[t] = Vacant <=> t \in Range(vacant')
    BY <1>9, <2>2 DEF RingInv, Vacancy
  <2> QED
    BY <2>2, <2>3 DEF Vacancy, Distinct
<1>12. Vacant.client = Closed /\ Closed \notin Clients
  BY ServerAssumption DEF Vacant
<1>13. Apart'
  <2>1. \A t \in DOMAIN slab' : slab'[t].client \notin waiting'
    BY <1>1, <1>9, <1>12 DEF RingInv, Apart
  <2>2. ASSUME NEW t \in DOMAIN slab', NEW u \in DOMAIN slab',
               slab'[t].client = slab'[u].client, slab'[t] # Vacant
        PROVE  t = u
    <3>1. t # s /\ slab'[t] = slab[t] /\ IsConnection(slab[t])
      BY <1>9, <2>2 DEF RingInv, Shapes
    <3>2. slab[t].client # Closed
      BY <3>1, <1>12 DEF IsConnection
    <3>3. u # s
      BY <1>9, <1>12, <2>2, <3>1, <3>2
    <3> QED
      BY <1>9, <2>2, <3>1, <3>3 DEF RingInv, Apart
  <2>3. ASSUME NEW i \in DOMAIN cq', Arrived(cq'[i])
        PROVE  /\ cq'[i].res.val.client \in Clients \ waiting'
               /\ \A t \in DOMAIN slab' : slab'[t].client # cq'[i].res.val.client
               /\ \A j \in DOMAIN cq' :
                     Arrived(cq'[j]) /\ cq'[i].res.val.client = cq'[j].res.val.client => i = j
    BY <1>1, <1>8, <1>9, <1>12, <2>3 DEF RingInv, Apart
  <2> QED
    BY <1>1, <2>1, <2>2, <2>3 DEF RingInv, Apart, Arrived, Vacant
<1>14. ASSUME NEW op, Owned(op, slab), ~ForSlot(op, s) PROVE Owned(op, slab')
  BY <1>9, <1>14 DEF Owned, ForSlot
<1>15. Ownership'
  <2>1. ASSUME NEW i \in DOMAIN inflight PROVE Owned(inflight[i], slab')
    BY <1>7, <1>14 DEF RingInv, Ownership
  <2>2. ASSUME NEW i \in DOMAIN cq' PROVE Owned(cq'[i].op, slab') /\ (cq'[i].op.type \in KtlsOps => cq'[i].res.kind = "ok")
    <3>1. Owned(cq'[i].op, slab) /\ (cq'[i].op.type \in KtlsOps => cq'[i].res.kind = "ok")
      BY <1>8, <2>2 DEF RingInv, Ownership
    <3> QED
      BY <1>7, <1>14, <3>1
  <2> QED
    BY <1>1, <2>1, <2>2 DEF Ownership, KtlsOps
<1>16. Counts'
  <2>1. ASSUME NEW t \in DOMAIN slab
        PROVE  Cardinality(Submitted(t)') + Cardinality(Unhandled(t)') = Awaited(slab'[t])
    <3>1. Submitted(t)' = Submitted(t)
      BY <1>1 DEF Submitted, ForSlot
    <3>2. CASE t = s
      <4>1. Submitted(t) = {} /\ Unhandled(t)' = {}
        BY <1>7, <3>2 DEF Submitted, Unhandled, ForSlot
      <4>2. Awaited(slab'[t]) = 0
        BY <1>9, <3>2 DEF Awaited
      <4> QED
        BY <3>1, <4>1, <4>2, FS_EmptySet
    <3>3. CASE t # s
      <4>1. /\ Cardinality(Unhandled(t)') \in Nat
            /\ Cardinality(Unhandled(t)) = Cardinality(Unhandled(t)') + (IF ForSlot(cq[1].op, t) THEN 1 ELSE 0)
        BY <1>1, <1>4, <1>5, Handles
      <4>2. ~ForSlot(cq[1].op, t)
        BY <1>5, <3>3 DEF ForSlot
      <4>3. Cardinality(Unhandled(t)') = Cardinality(Unhandled(t))
        BY <4>1, <4>2
      <4>4. Cardinality(Submitted(t)) + Cardinality(Unhandled(t)) = Awaited(slab[t])
        BY DEF RingInv, Counts
      <4>5. slab'[t] = slab[t]
        BY <1>9, <3>3
      <4> QED
        BY <3>1, <4>3, <4>4, <4>5, Zenon
    <3> QED
      BY <3>2, <3>3
  <2> QED
    BY <1>9, <2>1 DEF Counts, Awaited, Vacant, Closed
<1> QED
  BY <1>10, <1>11, <1>13, <1>15, <1>16 DEF RingInv

NextAccept == Op("Accept", 0, 0, Closed)

LEMMA AcceptIsFree ==
    /\ NextAccept.type = "Accept"
    /\ \A slots : Owned(NextAccept, slots)
    /\ \A s : ~ForSlot(NextAccept, s)
  BY DEF NextAccept, Op, Owned, ForSlot

LEMMA AcceptFailedKeeps ==
    ASSUME RingInv, AcceptFailed, running'
    PROVE  RingInv'
<1>1. /\ cq # << >> /\ cq' = Tail(cq) /\ Head(cq).op.type = "Accept"
      /\ slab' = slab /\ vacant' = vacant /\ inflight' = inflight \o <<NextAccept>> /\ waiting' = waiting
  BY DEF AcceptFailed, Completion, Completed, Submit, Stops, world, NextAccept
<1>2. IsSequence(inflight) /\ IsSequence(cq)
  BY DEF RingInv, Shapes
<1>3. /\ IsSequence(cq') /\ Head(cq) = cq[1]
      /\ \A i \in DOMAIN cq' : i + 1 \in DOMAIN cq /\ cq'[i] = cq[i + 1] /\ i + 1 # 1
      /\ \A i, j \in DOMAIN cq' : i + 1 = j + 1 => i = j
  BY <1>1, <1>2, Handles
<1>4. IsSequence(<<NextAccept>>) /\ \A i \in DOMAIN <<NextAccept>> : <<NextAccept>>[i] = NextAccept
  BY Singles
<1>5. IsSequence(inflight') /\ From(inflight', inflight, <<NextAccept>>)
  <2>1. IsSequence(inflight \o <<NextAccept>>) /\ From(inflight \o <<NextAccept>>, inflight, <<NextAccept>>)
    BY <1>2, <1>4, ConcatFacts
  <2> QED
    BY <1>1, <2>1
<1>6. Shapes'
  BY <1>1, <1>3, <1>5 DEF RingInv, Shapes, IsConnection, ConnFields, ConnStates
<1>7. Vacancy'
  BY <1>1 DEF RingInv, Vacancy
<1>8. Apart'
  <2>1. ASSUME NEW i \in DOMAIN cq', Arrived(cq'[i])
        PROVE  /\ cq'[i].res.val.client \in Clients \ waiting
               /\ \A t \in DOMAIN slab : slab[t].client # cq'[i].res.val.client
               /\ \A j \in DOMAIN cq' :
                     Arrived(cq'[j]) /\ cq'[i].res.val.client = cq'[j].res.val.client => i = j
    BY <1>3, <2>1 DEF RingInv, Apart
  <2> QED
    BY <1>1, <2>1 DEF RingInv, Apart, Arrived, Failure
<1>9. Ownership'
  <2>1. ASSUME NEW i \in DOMAIN inflight' PROVE Owned(inflight'[i], slab)
    <3>1. (\E j \in DOMAIN inflight : inflight'[i] = inflight[j]) \/ inflight'[i] = NextAccept
      BY <1>4, <1>5 DEF From
    <3> QED
      BY <3>1, AcceptIsFree DEF RingInv, Ownership
  <2>2. ASSUME NEW i \in DOMAIN cq' PROVE Owned(cq'[i].op, slab) /\ (cq'[i].op.type \in KtlsOps => cq'[i].res.kind = "ok")
    BY <1>3, <2>2 DEF RingInv, Ownership
  <2> QED
    BY <1>1, <2>1, <2>2 DEF Ownership, KtlsOps
<1>10. Counts'
  <2>1. ASSUME NEW t \in DOMAIN slab
        PROVE  Cardinality(Submitted(t)') + Cardinality(Unhandled(t)') = Awaited(slab[t])
    <3>1. /\ Cardinality(Submitted(t)) \in Nat
          /\ Cardinality(Submitted(t)') = Cardinality(Submitted(t)) + OpCount(<<NextAccept>>, t)
      BY <1>1, <1>2, <1>4, Submits
    <3>2. OpCount(<<NextAccept>>, t) = 0
      <4>1. {j \in DOMAIN <<NextAccept>> : ForSlot(<<NextAccept>>[j], t)} = {}
        BY <1>4, AcceptIsFree
      <4> QED
        BY <4>1, FS_EmptySet DEF OpCount
    <3>3. /\ Cardinality(Unhandled(t)') \in Nat
          /\ Cardinality(Unhandled(t)) = Cardinality(Unhandled(t)') + (IF ForSlot(cq[1].op, t) THEN 1 ELSE 0)
      BY <1>1, <1>2, Handles
    <3>4. ~ForSlot(cq[1].op, t)
      BY <1>1, <1>3 DEF ForSlot
    <3>5. /\ Cardinality(Unhandled(t)') = Cardinality(Unhandled(t))
          /\ Cardinality(Submitted(t)') = Cardinality(Submitted(t))
      BY <3>1, <3>2, <3>3, <3>4
    <3>6. Cardinality(Submitted(t)) + Cardinality(Unhandled(t)) = Awaited(slab[t])
      BY DEF RingInv, Counts
    <3> QED
      BY <3>5, <3>6, Zenon
  <2> QED
    BY <1>1, <2>1 DEF Counts, Awaited, Vacant, Closed
<1> QED
  BY <1>6, <1>7, <1>8, <1>9, <1>10 DEF RingInv

LEMMA NewConnection ==
    ASSUME NEW c \in Clients, NEW fd
    PROVE  /\ IsConnection(Connection(c, fd)) /\ Connection(c, fd).client = c
           /\ Connection(c, fd).state = "HandshakeReading"
  BY DEF Connection, IsConnection, ConnFields, ConnStates

LEMMA AcceptedKeeps ==
    ASSUME RingInv, Accepted, running'
    PROVE  RingInv'
<1> DEFINE e == Head(cq)
           s == Head(vacant)
           c == e.res.val.client
           conn == Connection(c, e.res.val.fd)
           rd == ConnOp("Read", s, conn)
           ops == <<NextAccept, rd>>
<1>1. /\ cq # << >> /\ cq' = Tail(cq) /\ e.op.type = "Accept" /\ e.res # Failure
      /\ slab' = [slab EXCEPT ![s] = conn] /\ vacant' = Tail(vacant)
      /\ inflight' = inflight \o ops /\ waiting' = waiting
  BY DEF Accepted, Completion, Completed, Submit, Stops, world, NextAccept
<1>2. IsSequence(inflight) /\ IsSequence(cq) /\ DOMAIN slab = Range(Slots)
  BY DEF RingInv, Shapes
<1>3. /\ IsSequence(cq') /\ e = cq[1] /\ 1 \in DOMAIN cq
      /\ \A i \in DOMAIN cq' : i + 1 \in DOMAIN cq /\ cq'[i] = cq[i + 1] /\ i + 1 # 1
      /\ \A i, j \in DOMAIN cq' : i + 1 = j + 1 => i = j
  BY <1>1, <1>2, Handles
<1> HIDE DEF e
<1>4. Arrived(cq[1])
  BY <1>1, <1>3 DEF Arrived
<1>5. c \in Clients \ waiting /\ \A t \in DOMAIN slab : slab[t].client # c
  BY <1>3, <1>4 DEF RingInv, Apart
<1>6. vacant # << >>
  BY <1>3, <1>4, SlotLeft
<1>7. vacant \in Seq(Range(Slots)) /\ Distinct(vacant)
  BY DEF RingInv, Vacancy, Distinct
<1>8. /\ vacant' \in Seq(Range(Slots)) /\ Distinct(vacant')
      /\ s \in Range(vacant) /\ Range(vacant') = Range(vacant) \ {s}
  BY <1>1, <1>6, <1>7, DropFirst
<1>9. s \in DOMAIN slab /\ slab[s] = Vacant
  <2>1. Range(vacant) \subseteq Range(Slots)
    <3>1. \A i \in DOMAIN vacant : vacant[i] \in Range(Slots)
      BY <1>7, LenProperties, ElementOfSeq
    <3> QED
      BY <3>1 DEF Range
  <2> QED
    BY <1>2, <1>8, <2>1 DEF RingInv, Vacancy
<1> HIDE DEF s, c
<1>10. IsConnection(conn) /\ conn.client = c /\ conn.state = "HandshakeReading"
  BY <1>5, NewConnection
<1> HIDE DEF conn
<1>11. conn # Vacant /\ Awaited(conn) = 1
  BY <1>10, ConnectionFacts
<1>12. rd.type = "Read" /\ rd.slot = s /\ rd.client = c
  BY <1>10 DEF ConnOp, Op
<1> HIDE DEF rd
<1>13. ops \in Seq({NextAccept, rd}) /\ DOMAIN ops = {1, 2} /\ ops[1] = NextAccept /\ ops[2] = rd
  OBVIOUS
<1>14. IsSequence(ops)
  BY <1>13, IsSequenceIntro, Zenon
<1> HIDE DEF ops
<1>15. IsSequence(inflight') /\ From(inflight', inflight, ops)
  <2>1. IsSequence(inflight \o ops) /\ From(inflight \o ops, inflight, ops)
    BY <1>2, <1>14, ConcatFacts
  <2> QED
    BY <1>1, <2>1
<1>16. /\ DOMAIN slab' = DOMAIN slab /\ slab'[s] = conn
       /\ \A t \in DOMAIN slab : t # s => slab'[t] = slab[t]
  BY <1>1, <1>9
<1>17. Shapes'
  BY <1>3, <1>10, <1>15, <1>16 DEF RingInv, Shapes, IsConnection, ConnFields, ConnStates
<1>18. Vacancy'
  <2>1. \A t \in DOMAIN slab' : slab'[t] = Vacant <=> t \in Range(vacant')
    BY <1>8, <1>11, <1>16 DEF RingInv, Vacancy
  <2> QED
    BY <1>8, <2>1 DEF Vacancy, Distinct
<1>19. Apart'
  <2>1. \A t \in DOMAIN slab' : slab'[t].client \notin waiting'
    BY <1>1, <1>5, <1>10, <1>16 DEF RingInv, Apart
  <2>2. ASSUME NEW t \in DOMAIN slab', NEW u \in DOMAIN slab',
               slab'[t].client = slab'[u].client, slab'[t] # Vacant
        PROVE  t = u
    <3>1. CASE t = s \/ u = s
      BY <1>5, <1>10, <1>16, <2>2, <3>1
    <3>2. CASE t # s /\ u # s
      BY <1>16, <2>2, <3>2 DEF RingInv, Apart
    <3> QED
      BY <3>1, <3>2
  <2>3. ASSUME NEW i \in DOMAIN cq', Arrived(cq'[i])
        PROVE  /\ cq'[i].res.val.client \in Clients \ waiting'
               /\ \A t \in DOMAIN slab' : slab'[t].client # cq'[i].res.val.client
               /\ \A j \in DOMAIN cq' :
                     Arrived(cq'[j]) /\ cq'[i].res.val.client = cq'[j].res.val.client => i = j
    <3>1. i + 1 \in DOMAIN cq /\ Arrived(cq[i + 1]) /\ i + 1 # 1 /\ cq'[i] = cq[i + 1]
      BY <1>3, <2>3
    <3>2. cq[i + 1].res.val.client # c
      <4>1. c = cq[1].res.val.client
        BY <1>3 DEF c
      <4> QED
        BY <1>3, <1>4, <3>1, <4>1 DEF RingInv, Apart
    <3>3. \A t \in DOMAIN slab' : slab'[t].client # cq[i + 1].res.val.client
      BY <1>10, <1>16, <3>1, <3>2 DEF RingInv, Apart
    <3> QED
      BY <1>1, <1>3, <3>1, <3>3 DEF RingInv, Apart
  <2> QED
    BY <1>1, <2>1, <2>2, <2>3 DEF RingInv, Apart, Arrived, Vacant, Failure
<1>20. ASSUME NEW op, Owned(op, slab) PROVE Owned(op, slab') /\ ~ForSlot(op, s)
  BY <1>9, <1>16, <1>20 DEF Owned, ForSlot
<1>21. Owned(rd, slab')
  BY <1>9, <1>10, <1>11, <1>12, <1>16 DEF Owned, Fits
<1>22. Ownership'
  <2>1. ASSUME NEW i \in DOMAIN inflight' PROVE Owned(inflight'[i], slab')
    <3>1. (\E j \in DOMAIN inflight : inflight'[i] = inflight[j]) \/ inflight'[i] = NextAccept \/ inflight'[i] = rd
      BY <1>13, <1>15 DEF From
    <3>2. \A j \in DOMAIN inflight : Owned(inflight[j], slab')
      BY <1>20 DEF RingInv, Ownership
    <3> QED
      BY <1>21, <3>1, <3>2, AcceptIsFree
  <2>2. ASSUME NEW i \in DOMAIN cq' PROVE Owned(cq'[i].op, slab') /\ (cq'[i].op.type \in KtlsOps => cq'[i].res.kind = "ok")
    <3>1. Owned(cq'[i].op, slab) /\ (cq'[i].op.type \in KtlsOps => cq'[i].res.kind = "ok")
      BY <1>3, <2>2 DEF RingInv, Ownership
    <3> QED
      BY <1>20, <3>1
  <2> QED
    BY <2>1, <2>2 DEF Ownership, KtlsOps
<1>23. Counts'
  <2>1. ASSUME NEW t \in DOMAIN slab
        PROVE  Cardinality(Submitted(t)') + Cardinality(Unhandled(t)') = Awaited(slab'[t])
    <3> DEFINE a == Cardinality(Submitted(t))
               b == Cardinality(Unhandled(t))
               a1 == Cardinality(Submitted(t)')
               b1 == Cardinality(Unhandled(t)')
               m == OpCount(ops, t)
    <3>1. a \in Nat /\ m \in Nat /\ a1 = a + m
      BY <1>1, <1>2, <1>14, Submits
    <3>2. b1 \in Nat /\ b = b1 + (IF ForSlot(cq[1].op, t) THEN 1 ELSE 0)
      BY <1>1, <1>2, Handles
    <3>3. ~ForSlot(cq[1].op, t)
      BY <1>1, <1>3 DEF ForSlot
    <3>4. a + b = Awaited(slab[t])
      BY DEF RingInv, Counts
    <3>5. m = IF t = s THEN 1 ELSE 0
      <4>1. {j \in DOMAIN ops : ForSlot(ops[j], t)} = IF t = s THEN {2} ELSE {}
        BY <1>12, <1>13, AcceptIsFree DEF ForSlot
      <4> QED
        BY <4>1, FS_EmptySet, FS_Singleton DEF OpCount
    <3> HIDE DEF a, b, a1, b1, m
    <3>6. b = b1
      BY <3>2, <3>3
    <3>7. CASE t = s
      <4>1. Awaited(slab[t]) = 0 /\ Awaited(slab'[t]) = 1
        BY <1>9, <1>11, <1>16, <3>7 DEF Awaited
      <4> QED
        BY <3>1, <3>2, <3>4, <3>5, <3>6, <3>7, <4>1 DEF a1, b1
    <3>8. CASE t # s
      <4>1. slab'[t] = slab[t]
        BY <1>16, <3>8
      <4> QED
        BY <3>1, <3>2, <3>4, <3>5, <3>6, <3>8, <4>1 DEF a1, b1
    <3> QED
      BY <3>7, <3>8
  <2> QED
    BY <1>16, <2>1 DEF Counts, Awaited, Vacant, Closed
<1> QED
  BY <1>17, <1>18, <1>19, <1>22, <1>23 DEF RingInv

-----------------------------------------------------------------------------
(* The invariant of the server.                                            *)

LEMMA ServerInit == Init => ServerInv
<1> SUFFICES ASSUME Init PROVE RingInv
  BY DEF ServerInv
<1>1. /\ slab = [s \in Range(Slots) |-> Vacant] /\ vacant = Slots /\ waiting = Clients
      /\ inflight = <<NextAccept>> /\ cq = << >>
  BY DEF Init, NextAccept
<1>2. DOMAIN slab = Range(Slots) /\ \A s \in DOMAIN slab : slab[s] = Vacant
  BY <1>1
<1>3. IsSequence(inflight) /\ DOMAIN inflight = {1} /\ inflight[1] = NextAccept
  BY <1>1, Singles
<1>4. IsSequence(cq) /\ DOMAIN cq = {}
  <2>1. << >> \in Seq({}) /\ DOMAIN << >> = {}
    OBVIOUS
  <2> QED
    BY <1>1, <2>1, IsSequenceIntro
<1>5. Shapes
  BY <1>2, <1>3, <1>4 DEF Shapes
<1>6. Vacancy
  <2>1. Slots \in Seq(Nat) /\ \A i, j \in DOMAIN Slots : Slots[i] = Slots[j] => i = j
    BY ServerAssumption
  <2>2. Slots \in Seq(Range(Slots))
    BY <2>1, IsSequenceIntro DEF IsSequence
  <2> QED
    BY <1>1, <1>2, <2>1, <2>2 DEF Vacancy
<1>7. Apart
  <2>1. Vacant.client = Closed /\ Closed \notin Clients
    BY ServerAssumption DEF Vacant
  <2> QED
    BY <1>1, <1>2, <1>4, <2>1 DEF Apart
<1>8. Ownership
  BY <1>3, <1>4, AcceptIsFree DEF Ownership
<1>9. Counts
  <2>1. ASSUME NEW s \in DOMAIN slab
        PROVE  Submitted(s) = {} /\ Unhandled(s) = {} /\ Awaited(slab[s]) = 0
    BY <1>2, <1>3, <1>4, AcceptIsFree DEF Submitted, Unhandled, Awaited
  <2>2. Cardinality({}) = 0
    BY FS_EmptySet
  <2> QED
    BY <2>1, <2>2 DEF Counts
<1> QED
  BY <1>5, <1>6, <1>7, <1>8, <1>9 DEF RingInv

LEMMA RingUnchanged ==
    ASSUME RingInv, UNCHANGED <<slab, vacant, waiting, inflight, cq>>
    PROVE  RingInv'
  BY ZenonT(60) DEF RingInv, Shapes, Vacancy, Apart, Ownership, Counts, IsConnection, ConnFields,
         ConnStates, Arrived, Failure, Vacant, Closed, KtlsOps, Submitted, Unhandled, ForSlot, Awaited

LEMMA ServerNext == ServerInv /\ [Next]_vars => ServerInv'
<1> SUFFICES ASSUME ServerInv, [Next]_vars, running', refused' = {} PROVE RingInv'
  BY DEF ServerInv
<1>1. CASE UNCHANGED vars
  <2>1. RingInv
    BY <1>1 DEF ServerInv, vars
  <2>2. UNCHANGED <<slab, vacant, waiting, inflight, cq>>
    BY <1>1 DEF vars
  <2> QED
    BY <2>1, <2>2, RingUnchanged
<1>2. CASE Handle
  <2>1. refused = {} /\ running
    BY <1>2 DEF Handle, AcceptFailed, Accepted, ForNobody, OperationFailed, TlsRead, HttpRead,
               Written, OptionSet, Removed, ForConnection, Completion, world
  <2>2. RingInv
    BY <2>1 DEF ServerInv
  <2>3. ~ForNobody
    <3>1. SUFFICES ASSUME ForNobody PROVE FALSE
      OBVIOUS
    <3>2. /\ cq # << >> /\ cq' = Tail(cq) /\ Head(cq).op.type # "Accept"
          /\ slab[Head(cq).op.slot] = Vacant
      BY <3>1 DEF ForNobody, Completion, Completed, KtlsOps
    <3> QED
      BY <2>2, <3>2, CompletionOwner
  <2>4. \/ AcceptFailed \/ Accepted \/ OperationFailed
        \/ TlsRead \/ HttpRead \/ Written \/ OptionSet \/ Removed
    BY <1>2, <2>3 DEF Handle
  <2> QED
    BY <2>2, <2>4, AcceptFailedKeeps, AcceptedKeeps, OperationFailedKeeps, TlsReadKeeps,
       HttpReadKeeps, WrittenKeeps, OptionSetKeeps, RemovedKeeps, Zenon
<1>3. CASE Kernel
  <2>1. refused = {} /\ running
    <3>1. running /\ refused' = refused
      BY <1>3 DEF Kernel, KernelAccept, KernelRead, KernelWrite, KernelSetOption, KernelRefusesKtls,
                 KernelClose, KernelGone, KernelAcceptFails, Completes, world
    <3> QED
      BY <3>1
  <2> QED
    BY <1>3, <2>1, KernelSteps DEF ServerInv
<1>4. CASE running /\ \E c \in Clients : ClientCloses(c)
  <2>1. RingInv /\ UNCHANGED <<slab, vacant, waiting, inflight, cq>>
    BY <1>4 DEF ServerInv, ClientCloses
  <2> QED
    BY <2>1, RingUnchanged
<1> QED
  BY <1>1, <1>2, <1>3, <1>4 DEF Next

\* Whatever the clients send and in whatever order the kernel completes the
\* operations, as long as it accepts kTLS: each slot of the slab has exactly
\* the operations its connection waits for, and every one of them is that
\* connection's own (the user data of main() and of the submit functions).
THEOREM OperationsAreOwned == Spec => []OneOperation
<1>1. ServerInv => OneOperation
  <2> SUFFICES ASSUME RingInv, NEW s \in DOMAIN slab
               PROVE  /\ \A i \in Submitted(s) : inflight[i].client = slab[s].client
                      /\ \A i \in Unhandled(s) : cq[i].op.client = slab[s].client
                      /\ Cardinality(Submitted(s)) + Cardinality(Unhandled(s)) = Awaited(slab[s])
    BY DEF ServerInv, OneOperation
  <2>1. \A i \in Submitted(s) : inflight[i].client = slab[s].client
    BY DEF RingInv, Ownership, Owned, Submitted, ForSlot
  <2>2. \A i \in Unhandled(s) : cq[i].op.client = slab[s].client
    BY DEF RingInv, Ownership, Owned, Unhandled, ForSlot
  <2>3. Cardinality(Submitted(s)) + Cardinality(Unhandled(s)) = Awaited(slab[s])
    BY DEF RingInv, Counts
  <2> QED
    BY <2>1, <2>2, <2>3
<1> QED
  BY <1>1, ServerInit, ServerNext, PTL DEF Spec

-----------------------------------------------------------------------------
(* Responses.  Where each connection is, in what its client sends and in   *)
(* what it has to answer, at the operation it waits for.                   *)

\* x holds the symbols k + 1 .. n of sc.
Cut(x, sc, k, n) ==
    /\ k \in Nat /\ n \in Nat /\ k <= n /\ n <= Len(sc)
    /\ x \in Seq(Symbols) /\ Len(x) = n - k
    /\ \A i \in 1..(n - k) : x[i] = sc[k + i]

Parts == Nat \X BOOLEAN \X Nat
Responses == {Response(n, keep) : n \in Nat, keep \in BOOLEAN}

\* How the clients see their connections.
Views == [c \in Clients |-> [sc |-> script[c], got |-> got[c], lost |-> c \in gone]]

\* m symbols of responses have been delivered, unless the client is gone.
Reach(v, m) == v.lost \/ \E f \in Nat : Delivered(v.sc, v.got, f, m)

\* A connection in the handshake that has read q symbols.
Handshake(conn, q, v) ==
    /\ conn.count = 0 /\ conn.pending = << >> /\ conn.decoder = << >>
    /\ conn.handshaking = (q < 2)
    /\ IF q < 2 THEN conn.plaintext = << >> ELSE Cut(conn.plaintext, v.sc, 2, q)
    /\ Reach(v, 0)

\* The next L of K responses wait.
Queued(pending, sc, K, L) ==
    /\ K \in Nat /\ L \in Nat /\ L <= K
    /\ pending \in Seq(Responses) /\ Len(pending) = L
    /\ \A j \in 1..L : pending[j] = Response(K - L + j, KeepsOpen(sc, K - L + j))

\* The decoder holds what follows K requests.
Holds(decoder, sc, K, q) ==
    /\ StaysOpen(sc, K - 1)
    /\ StaysOpen(sc, K) => Cut(decoder, sc, 2 * K + 2, q)

\* A connection that has decoded its requests out of q symbols; N responses
\* have been started.
Serving(conn, q, v, N) ==
    /\ N \in Nat /\ N <= conn.count
    /\ Queued(conn.pending, v.sc, conn.count, conn.count - N)
    /\ Holds(conn.decoder, v.sc, conn.count, q)

\* A connection that is about to start the next response, or to read.
Ready(conn, q, v, N) ==
    /\ Serving(conn, q, v, N) /\ conn.write = << >>
    /\ StaysOpen(v.sc, N) /\ Reach(v, 2 * N)

\* A read submitted when q symbols had been read.
ReadPoint(conn, q, v) ==
    /\ conn.state = "HandshakeReading" =>
          Handshake(conn, q, v) /\ q < 2 /\ conn.write = << >> /\ (q = 0 => v.got = << >>)
    /\ conn.state = "Reading" => Ready(conn, q, v, conn.count)

\* The write buffer holds the end of the N-th response.
Sending(write, sc, N) ==
    /\ N \in Nat /\ N >= 1 /\ write \in Seq(Parts) /\ Len(write) \in 1..2
    /\ \A k \in 1..Len(write) : write[k] = Due(sc, 2 * N - Len(write) + k)
    /\ StaysOpen(sc, N - 1)

\* A write of which the kernel has taken n symbols.
Responding(conn, q, n, v, N) ==
    /\ Serving(conn, q, v, N) /\ Sending(conn.write, v.sc, N)
    /\ conn.state = "Writing" => StaysOpen(v.sc, N)
    /\ Reach(v, 2 * N - Len(conn.write) + n)

WritePoint(conn, q, n, v) ==
    /\ conn.state = "HandshakeWriting" =>
          Handshake(conn, q, v) /\ 1 <= q /\ conn.write = <<Flight>>
    /\ conn.state \in {"Writing", "Closing"} => \E N \in Nat : Responding(conn, q, n, v, N)

KtlsPoint(conn, q, v) == Ready(conn, q, v, 0)

\* What is known at an operation that waits, and at one that has completed.
OpPoint(op, conn, q, v) ==
    /\ op.type = "Read" => ReadPoint(conn, q, v)
    /\ op.type = "Write" => WritePoint(conn, q, 0, v)
    /\ op.type \in KtlsOps => KtlsPoint(conn, q, v)

ReadTo(conn, val, q, r, v) ==
    q < r /\ (q = 0 => r = 1) /\ Cut(val, v.sc, q, r) /\ ReadPoint(conn, q, v)

DonePoint(e, conn, r, v) ==
    e.res.kind = "ok" =>
        /\ e.op.type = "Read" => \E q \in Nat : ReadTo(conn, e.res.val, q, r, v)
        /\ e.op.type = "Write" =>
              e.res.val \in 1..Len(conn.write) /\ WritePoint(conn, r, e.res.val, v)
        /\ e.op.type \in KtlsOps => KtlsPoint(conn, r, v)

Fresh(c, reads, gots) == reads[c] = 0 /\ gots[c] = << >>

OpFlow(op, slots, reads, views) ==
    op.type # "Accept" => OpPoint(op, slots[op.slot], reads[op.client], views[op.client])

DoneFlow(e, slots, reads, views) ==
    e.op.type # "Accept" => DonePoint(e, slots[e.op.slot], reads[e.op.client], views[e.op.client])

Flow ==
    /\ \A i \in DOMAIN inflight : OpFlow(inflight[i], slab, read, Views)
    /\ \A i \in DOMAIN cq : DoneFlow(cq[i], slab, read, Views)
    /\ \A c \in waiting : Fresh(c, read, got)
    /\ \A i \in DOMAIN cq : Arrived(cq[i]) => Fresh(cq[i].res.val.client, read, got)

InOrder(c) ==
    /\ got[c] \in Seq(Parts) /\ IsScript(script[c])
    /\ \E f \in Nat, m \in Nat : Delivered(script[c], got[c], f, m)

Traffic ==
    /\ read \in [Clients -> Nat] /\ DOMAIN got = Clients
    /\ \A c \in Clients : read[c] <= Len(script[c]) /\ InOrder(c)

ResponsesInv == refused = {} => Traffic /\ (running => RingInv /\ Flow)

LEMMA ScriptFacts ==
    ASSUME NEW sc, IsScript(sc)
    PROVE  /\ sc \in Seq(Symbols) /\ Len(sc) \in Nat /\ Len(sc) >= 1
           /\ \A i \in 1..Len(sc) :
                 /\ sc[i] \in Symbols
                 /\ i = 1 => sc[i] \in {"hello", "bad"}
                 /\ i = 2 => sc[i] \in {"finished", "bad"}
                 /\ i > 2 => sc[i] \notin {"hello", "finished"}
                 /\ i > 2 /\ i % 2 = 1 => sc[i] \in {"get", "last", "bad"}
                 /\ i > 2 /\ i % 2 = 0 => sc[i] \in {"rest", "bad"}
<1>1. sc \in Seq(Symbols) /\ sc # << >>
  BY DEF IsScript
<1>2. Len(sc) \in Nat /\ DOMAIN sc = 1..Len(sc) /\ Len(sc) # 0
  BY <1>1, LenProperties, EmptySeq
<1>3. \A i \in 1..Len(sc) : sc[i] \in Symbols
  BY <1>1, <1>2, ElementOfSeq
<1>4. \A i \in 1..Len(sc) :
          \/ sc[i] = "bad"
          \/ i = 1 /\ sc[i] = "hello"
          \/ i = 2 /\ sc[i] = "finished"
          \/ i > 2 /\ i % 2 = 1 /\ sc[i] \in {"get", "last"}
          \/ i > 2 /\ i % 2 = 0 /\ sc[i] = "rest"
  BY <1>2 DEF IsScript
<1> QED
  BY <1>1, <1>2, <1>3, <1>4

LEMMA CutEmpty ==
    ASSUME NEW sc, NEW k \in Nat, k <= Len(sc)
    PROVE  Cut(<< >>, sc, k, k)
<1>1. << >> \in Seq(Symbols) /\ Len(<< >>) = 0 /\ k - k = 0 /\ 1..0 = {} /\ k <= k
  OBVIOUS
<1> QED
  BY <1>1 DEF Cut

LEMMA CutOf ==
    ASSUME NEW sc \in Seq(Symbols), NEW k \in Nat, NEW n \in Nat, k <= n, n <= Len(sc)
    PROVE  Cut(SubSeq(sc, k + 1, n), sc, k, n)
<1>1. k + 1 \in Nat /\ k + 1 >= 1 /\ n \in Int /\ n - (k + 1) + 1 = n - k
      /\ (k + 1 <= n \/ n - k = 0)
  OBVIOUS
<1>2. /\ SubSeq(sc, k + 1, n) \in Seq(Symbols)
      /\ Len(SubSeq(sc, k + 1, n)) = IF k + 1 <= n THEN n - (k + 1) + 1 ELSE 0
      /\ \A i \in 1..(n - (k + 1) + 1) : SubSeq(sc, k + 1, n)[i] = sc[k + 1 + i - 1]
  BY <1>1, Slice
<1>3. \A i \in 1..(n - k) : k + 1 + i - 1 = k + i
  OBVIOUS
<1>4. Len(SubSeq(sc, k + 1, n)) = n - k
  BY <1>1, <1>2
<1>5. \A i \in 1..(n - k) : SubSeq(sc, k + 1, n)[i] = sc[k + i]
  BY <1>1, <1>2, <1>3
<1> QED
  BY <1>2, <1>4, <1>5 DEF Cut

LEMMA CutJoin ==
    ASSUME NEW sc, NEW x, NEW y, NEW k, NEW m, NEW n, Cut(x, sc, k, m), Cut(y, sc, m, n)
    PROVE  Cut(x \o y, sc, k, n)
<1>1. /\ k \in Nat /\ m \in Nat /\ n \in Nat /\ k <= m /\ m <= n /\ n <= Len(sc)
      /\ x \in Seq(Symbols) /\ Len(x) = m - k /\ y \in Seq(Symbols) /\ Len(y) = n - m
      /\ \A i \in 1..(m - k) : x[i] = sc[k + i]
      /\ \A i \in 1..(n - m) : y[i] = sc[m + i]
  BY DEF Cut
<1>2. /\ x \o y \in Seq(Symbols) /\ Len(x \o y) = Len(x) + Len(y)
      /\ \A i \in 1..(Len(x) + Len(y)) : (x \o y)[i] = IF i <= Len(x) THEN x[i] ELSE y[i - Len(x)]
  BY <1>1, ConcatProperties
<1>3. Len(x) + Len(y) = n - k /\ k <= n
  BY <1>1
<1>4. ASSUME NEW i \in 1..(n - k) PROVE (x \o y)[i] = sc[k + i]
  <2>1. (x \o y)[i] = IF i <= m - k THEN x[i] ELSE y[i - (m - k)]
    BY <1>1, <1>2, <1>3
  <2>2. CASE i <= m - k
    BY <1>1, <2>1, <2>2
  <2>3. CASE ~(i <= m - k)
    <3>1. i - (m - k) \in 1..(n - m) /\ m + (i - (m - k)) = k + i
      BY <1>1, <2>3
    <3> QED
      BY <1>1, <2>1, <2>3, <3>1
  <2> QED
    BY <2>2, <2>3
<1> QED
  BY <1>1, <1>2, <1>3, <1>4 DEF Cut

LEMMA CutAppend ==
    ASSUME NEW sc \in Seq(Symbols), NEW x, NEW k, NEW n, Cut(x, sc, k, n), n + 1 <= Len(sc)
    PROVE  Cut(Append(x, sc[n + 1]), sc, k, n + 1)
<1>1. /\ k \in Nat /\ n \in Nat /\ k <= n /\ n <= Len(sc)
      /\ x \in Seq(Symbols) /\ Len(x) = n - k
      /\ \A i \in 1..(n - k) : x[i] = sc[k + i]
  BY DEF Cut
<1>2. PICK y : y = sc[n + 1]
  OBVIOUS
<1>3. y \in Symbols
  <2>1. Len(sc) \in Nat
    BY LenProperties
  <2>2. n + 1 \in 1..Len(sc)
    BY <1>1, <2>1
  <2> QED
    BY <1>2, <2>2, ElementOfSeq
<1>4. /\ Append(x, y) \in Seq(Symbols) /\ Len(Append(x, y)) = Len(x) + 1
      /\ \A i \in 1..Len(x) : Append(x, y)[i] = x[i]
      /\ Append(x, y)[Len(x) + 1] = y
  BY <1>1, <1>3, AppendProperties
<1>5. n + 1 \in Nat /\ k <= n + 1 /\ Len(x) + 1 = n + 1 - k
  BY <1>1
<1>6. ASSUME NEW i \in 1..(n + 1 - k) PROVE Append(x, y)[i] = sc[k + i]
  <2>1. i \in 1..(n - k) \/ (i = Len(x) + 1 /\ k + i = n + 1)
    BY <1>1
  <2> QED
    BY <1>1, <1>2, <1>4, <2>1
<1>7. Cut(Append(x, y), sc, k, n + 1)
  BY <1>1, <1>4, <1>5, <1>6 DEF Cut
<1> QED
  BY <1>2, <1>7

LEMMA CutTail ==
    ASSUME NEW sc, NEW x, NEW k, NEW n, Cut(x, sc, k, n), k < n
    PROVE  /\ Head(x) = sc[k + 1] /\ 1 \in DOMAIN x /\ x[1] = sc[k + 1]
           /\ Cut(Tail(x), sc, k + 1, n)
<1>1. /\ k \in Nat /\ n \in Nat /\ k <= n /\ n <= Len(sc)
      /\ x \in Seq(Symbols) /\ Len(x) = n - k
      /\ \A i \in 1..(n - k) : x[i] = sc[k + i]
  BY DEF Cut
<1>2. x # << >>
  BY <1>1
<1>3. /\ Head(x) = x[1] /\ Tail(x) \in Seq(Symbols) /\ Len(Tail(x)) = Len(x) - 1
      /\ \A i \in 1..Len(Tail(x)) : Tail(x)[i] = x[i + 1]
  BY <1>1, <1>2, HeadTailProperties
<1>4. 1 \in 1..(n - k) /\ k + 1 \in Nat /\ k + 1 <= n /\ Len(Tail(x)) = n - (k + 1)
  BY <1>1, <1>3
<1>5. ASSUME NEW i \in 1..(n - (k + 1)) PROVE Tail(x)[i] = sc[k + 1 + i]
  <2>1. i + 1 \in 1..(n - k) /\ k + (i + 1) = k + 1 + i
    BY <1>1
  <2> QED
    BY <1>1, <1>3, <1>4, <2>1
<1>6. DOMAIN x = 1..(n - k)
  BY <1>1, LenProperties
<1> QED
  BY <1>1, <1>3, <1>4, <1>5, <1>6 DEF Cut

-----------------------------------------------------------------------------
(* Decoding what follows K requests.                                       *)

DecodeStart(count) ==
    [rest |-> << >>, out |-> << >>, count |-> count, closed |-> FALSE, failed |-> FALSE]

\* The steps are what their definition says: the recursive function exists.
LEMMA DecodeUnfolds ==
    ASSUME NEW bytes, NEW count
    PROVE  /\ DecodeSteps(bytes, count)[0] = DecodeStart(count)
           /\ \A n \in Nat : DecodeSteps(bytes, count)[n + 1]
                                 = DecodeStep(DecodeSteps(bytes, count)[n], bytes[n + 1])
<1> DEFINE start == DecodeStart(count)
           Step(x, n) == DecodeStep(x, bytes[n])
           Approx(g, n) == g[0] = start /\ \A i \in 0..(n - 1) : g[i + 1] = Step(g[i], i + 1)
           Has == {n \in Nat : \E g : Approx(g, n)}
           Body(g) == [n \in Nat |-> IF n = 0 THEN start ELSE Step(g[n - 1], n)]
           G == [n \in Nat |-> (CHOOSE g : Approx(g, n))[n]]
<1> HIDE DEF start, Step
<1>1. \A n \in Nat : n \in Has
  <2>1. 0 \in Has
    <3>1. Approx([i \in {0} |-> start], 0)
      OBVIOUS
    <3> QED
      BY <3>1
  <2>2. ASSUME NEW n \in Nat, n \in Has PROVE n + 1 \in Has
    <3>1. PICK g : Approx(g, n)
      BY <2>2
    <3> DEFINE h == [i \in 0..(n + 1) |-> IF i <= n THEN g[i] ELSE Step(g[n], n + 1)]
    <3>2. h[0] = start /\ \A i \in 0..n : h[i] = g[i]
      BY <3>1
    <3>3. h[n + 1] = Step(g[n], n + 1)
      OBVIOUS
    <3>4. ASSUME NEW i \in 0..(n + 1 - 1) PROVE h[i + 1] = Step(h[i], i + 1)
      <4>1. CASE i = n
        BY <3>2, <3>3, <4>1
      <4>2. CASE i # n
        <5>1. i \in 0..(n - 1) /\ i + 1 \in 0..n /\ i \in 0..n
          BY <4>2
        <5> QED
          BY <3>1, <3>2, <5>1
      <4> QED
        BY <4>1, <4>2
    <3>5. Approx(h, n + 1)
      BY <3>2, <3>4
    <3> HIDE DEF h
    <3> QED
      BY <3>5
  <2> HIDE DEF Has
  <2> QED
    BY <2>1, <2>2, NatSetInduction
<1>2. ASSUME NEW n \in Nat, NEW g, NEW h, Approx(g, n), Approx(h, n + 1)
      PROVE  g[n] = h[n]
  <2> DEFINE Agree == {i \in Nat : i <= n => g[i] = h[i]}
  <2>1. 0 \in Agree
    BY <1>2
  <2>2. ASSUME NEW i \in Nat, i \in Agree PROVE i + 1 \in Agree
    <3>1. CASE i + 1 <= n
      <4>1. i \in 0..(n - 1) /\ i \in 0..(n + 1 - 1) /\ i <= n
        BY <3>1
      <4> QED
        BY <1>2, <2>2, <4>1
    <3>2. CASE ~(i + 1 <= n)
      BY <3>2
    <3> QED
      BY <3>1, <3>2
  <2> HIDE DEF Agree
  <2>3. n \in Agree
    BY <2>1, <2>2, NatSetInduction
  <2> QED
    BY <2>3 DEF Agree
<1>3. \A n \in Nat : Approx(CHOOSE g : Approx(g, n), n)
  BY <1>1
<1>4. G = Body(G)
  <2>1. G[0] = start
    BY <1>3
  <2>2. ASSUME NEW n \in Nat PROVE G[n + 1] = Step(G[n], n + 1)
    <3> DEFINE g == CHOOSE g : Approx(g, n)
               h == CHOOSE h : Approx(h, n + 1)
    <3>0. n + 1 \in Nat
      OBVIOUS
    <3> HIDE DEF Approx
    <3>1. Approx(g, n) /\ Approx(h, n + 1)
      BY <1>3, <3>0, Zenon
    <3> USE DEF Approx
    <3>2. G[n] = g[n] /\ G[n + 1] = h[n + 1]
      OBVIOUS
    <3> HIDE DEF g, h, G
    <3>3. n \in 0..(n + 1 - 1)
      OBVIOUS
    <3> QED
      BY <1>2, <3>1, <3>2, <3>3
  <2>3. \A n \in Nat : n = 0 \/ (n - 1 \in Nat /\ n - 1 + 1 = n)
    OBVIOUS
  <2>4. \A n \in Nat : G[n] = IF n = 0 THEN start ELSE Step(G[n - 1], n)
    BY <2>1, <2>2, <2>3, SMTT(30)
  <2>5. Body(G) = [n \in Nat |-> G[n]]
    BY <2>4, Zenon
  <2>6. G = [n \in Nat |-> G[n]]
    OBVIOUS
  <2> HIDE DEF G
  <2> QED
    BY <2>5, <2>6
<1> HIDE DEF G
<1>5. DecodeSteps(bytes, count) = CHOOSE g : g = Body(g)
  BY DEF DecodeSteps, start, Step, DecodeStart
<1>6. DecodeSteps(bytes, count) = Body(DecodeSteps(bytes, count))
  BY <1>4, <1>5
<1>7. \A n \in Nat : n + 1 \in Nat /\ n + 1 # 0 /\ n + 1 - 1 = n
  OBVIOUS
<1>8. DecodeSteps(bytes, count)[0] = start
  BY <1>6
<1>9. \A n \in Nat : DecodeSteps(bytes, count)[n + 1] = Step(DecodeSteps(bytes, count)[n], n + 1)
  BY <1>6, <1>7
<1> QED
  BY <1>8, <1>9 DEF start, Step

\* What the loop has after the first p symbols, K requests of which had been
\* decoded before.
DecodedTo(d, sc, K, p) ==
    /\ DOMAIN d = {"rest", "out", "count", "closed", "failed"}
    /\ d.failed \in BOOLEAN
    /\ ~d.failed =>
          /\ d.count \in Nat /\ K <= d.count /\ d.closed \in BOOLEAN
          /\ Queued(d.out, sc, d.count, d.count - K)
          /\ StaysOpen(sc, d.count - 1)
          /\ d.closed => d.count >= 1 /\ ~KeepsOpen(sc, d.count)
          /\ ~d.closed => /\ StaysOpen(sc, d.count) /\ p <= 2 * d.count + 3
                          /\ Cut(d.rest, sc, 2 * d.count + 2, p)

LEMMA OpenFacts ==
    ASSUME NEW sc, NEW n \in Nat
    PROVE  /\ StaysOpen(sc, n) => StaysOpen(sc, n - 1)
           /\ StaysOpen(sc, n) /\ KeepsOpen(sc, n + 1) => StaysOpen(sc, n + 1)
           /\ StaysOpen(sc, n) /\ n >= 1 => KeepsOpen(sc, n)
           /\ StaysOpen(sc, 0) /\ StaysOpen(sc, 0 - 1)
           /\ \A m \in Int : m <= n /\ StaysOpen(sc, n) => StaysOpen(sc, m)
<1>1. \A j \in 1..(n - 1) : j \in 1..n
  OBVIOUS
<1>2. \A j \in 1..(n + 1) : j \in 1..n \/ j = n + 1
  OBVIOUS
<1>3. 1..0 = {} /\ 1..(0 - 1) = {} /\ (n >= 1 => n \in 1..n)
  OBVIOUS
<1>4. \A m \in Int : m <= n => \A j \in 1..m : j \in 1..n
  OBVIOUS
<1> QED
  BY <1>1, <1>2, <1>3, <1>4 DEF StaysOpen

LEMMA QueuedAppend ==
    ASSUME NEW sc, NEW out, NEW n \in Nat, NEW L \in Nat, Queued(out, sc, n, L),
           NEW r, r = Response(n + 1, KeepsOpen(sc, n + 1))
    PROVE  Queued(Append(out, r), sc, n + 1, L + 1)
<1>1. /\ L <= n /\ out \in Seq(Responses) /\ Len(out) = L
      /\ \A j \in 1..L : out[j] = Response(n - L + j, KeepsOpen(sc, n - L + j))
  BY DEF Queued
<1>2. r \in Responses
  <2>1. n + 1 \in Nat /\ KeepsOpen(sc, n + 1) \in BOOLEAN
    BY DEF KeepsOpen
  <2> QED
    BY <2>1 DEF Responses
<1>3. /\ Append(out, r) \in Seq(Responses) /\ Len(Append(out, r)) = L + 1
      /\ \A j \in 1..L : Append(out, r)[j] = out[j]
      /\ Append(out, r)[L + 1] = r
  BY <1>1, <1>2, AppendProperties
<1>4. L + 1 <= n + 1 /\ L + 1 \in Nat /\ n + 1 \in Nat /\ n + 1 - (L + 1) = n - L
  BY <1>1
<1>5. ASSUME NEW j \in 1..(L + 1)
      PROVE  Append(out, r)[j] = Response(n - L + j, KeepsOpen(sc, n - L + j))
  <2>1. CASE j = L + 1
    <3>1. n - L + j = n + 1
      BY <1>4, <2>1
    <3> QED
      BY <1>3, <2>1, <3>1
  <2>2. CASE j # L + 1
    <3>1. j \in 1..L
      BY <2>2
    <3> QED
      BY <1>1, <1>3, <3>1
  <2> QED
    BY <2>1, <2>2
<1> QED
  BY <1>3, <1>4, <1>5 DEF Queued

\* One more symbol.
LEMMA DecodeOne ==
    ASSUME NEW sc, IsScript(sc), NEW K \in Nat, NEW p \in Nat, p + 1 <= Len(sc),
           NEW d, DecodedTo(d, sc, K, p)
    PROVE  DecodedTo(DecodeStep(d, sc[p + 1]), sc, K, p + 1)
<1>1. PICK x : x = sc[p + 1]
  OBVIOUS
<1>2. PICK e : e = DecodeStep(d, x)
  OBVIOUS
<1>3. DOMAIN d = {"rest", "out", "count", "closed", "failed"} /\ d.failed \in BOOLEAN
  BY DEF DecodedTo
<1>4. CASE d.failed
  <2>1. e = [d EXCEPT !.rest = Append(@, x)]
    BY <1>2, <1>4 DEF DecodeStep
  <2>2. DOMAIN e = DOMAIN d /\ e.failed = d.failed
    BY <1>3, <2>1
  <2> QED
    BY <1>1, <1>2, <1>3, <1>4, <2>2 DEF DecodedTo
<1>5. CASE ~d.failed
  <2>1. /\ d.count \in Nat /\ K <= d.count /\ d.closed \in BOOLEAN
        /\ Queued(d.out, sc, d.count, d.count - K) /\ StaysOpen(sc, d.count - 1)
        /\ d.closed => d.count >= 1 /\ ~KeepsOpen(sc, d.count)
        /\ ~d.closed => /\ StaysOpen(sc, d.count) /\ p <= 2 * d.count + 3
                        /\ Cut(d.rest, sc, 2 * d.count + 2, p)
    BY <1>5 DEF DecodedTo
  <2>2. CASE d.closed
    <3>1. e = [d EXCEPT !.rest = Append(@, x)]
      BY <1>2, <2>2 DEF DecodeStep
    <3>2. /\ DOMAIN e = DOMAIN d /\ e.failed = d.failed /\ e.closed = d.closed
          /\ e.count = d.count /\ e.out = d.out
      BY <1>3, <3>1
    <3>3. DecodedTo(e, sc, K, p + 1)
      BY <1>3, <2>1, <2>2, <3>2 DEF DecodedTo
    <3> QED
      BY <1>1, <1>2, <3>3
  <2>3. CASE ~d.closed /\ x = "bad"
    <3>1. e = [d EXCEPT !.failed = TRUE]
      BY <1>2, <1>5, <2>3 DEF DecodeStep
    <3>2. DOMAIN e = DOMAIN d /\ e.failed = TRUE
      BY <1>3, <3>1
    <3> QED
      BY <1>1, <1>2, <1>3, <3>2 DEF DecodedTo
  <2>4. CASE ~d.closed /\ x # "bad"
    <3>1. PICK n : n = d.count
      OBVIOUS
    <3>2. /\ n \in Nat /\ p <= 2 * n + 3 /\ 2 * n + 2 <= p /\ p <= Len(sc)
          /\ d.rest \in Seq(Symbols) /\ Len(d.rest) = p - (2 * n + 2)
          /\ \A i \in 1..(p - (2 * n + 2)) : d.rest[i] = sc[2 * n + 2 + i]
      BY <2>1, <2>4, <3>1 DEF Cut
    <3>3. Len(sc) \in Nat /\ p + 1 \in 1..Len(sc) /\ sc \in Seq(Symbols)
      BY ScriptFacts
    <3>4. CASE p = 2 * n + 2
      <4>1. p + 1 > 2 /\ (p + 1) % 2 = 1
        BY <3>2, <3>4
      <4>2. x # "rest"
        BY <1>1, <3>3, <4>1, ScriptFacts
      <4>3. e = [d EXCEPT !.rest = Append(@, x)]
        BY <1>2, <1>5, <2>4, <4>2 DEF DecodeStep
      <4>4. /\ DOMAIN e = DOMAIN d /\ e.failed = d.failed /\ e.closed = d.closed
            /\ e.count = d.count /\ e.out = d.out /\ e.rest = Append(d.rest, x)
        BY <1>3, <4>3
      <4>5. Cut(e.rest, sc, 2 * d.count + 2, p + 1)
        BY <1>1, <2>1, <2>4, <3>3, <4>4, CutAppend
      <4>6. p + 1 <= 2 * d.count + 3
        BY <3>1, <3>2, <3>4
      <4>7. DecodedTo(e, sc, K, p + 1)
        BY <1>3, <1>5, <2>1, <2>4, <4>4, <4>5, <4>6 DEF DecodedTo
      <4> QED
        BY <1>1, <1>2, <4>7
    <3>5. CASE p # 2 * n + 2
      <4>1. p = 2 * n + 3 /\ p + 1 > 2 /\ (p + 1) % 2 = 0
        <5>1. p = 2 * n + 3 /\ p + 1 > 2 /\ p + 1 = 2 * (n + 2)
          BY <3>2, <3>5
        <5>2. \A i \in Nat : (2 * i) % 2 = 0
          OBVIOUS
        <5> QED
          BY <3>2, <5>1, <5>2
      <4>2. x = "rest"
        BY <1>1, <2>4, <3>3, <4>1, ScriptFacts
      <4>3. d.rest # << >> /\ d.rest[1] = sc[2 * (n + 1) + 1]
        <5>1. Len(d.rest) = 1 /\ 1 \in 1..(p - (2 * n + 2)) /\ 2 * n + 2 + 1 = 2 * (n + 1) + 1
          BY <3>2, <4>1
        <5> QED
          BY <3>2, <5>1
      <4>4. PICK keep : keep = KeepsOpen(sc, n + 1)
        OBVIOUS
      <4>5. keep = (d.rest[1] = "get" /\ n + 1 < MaxRequests)
        BY <4>3, <4>4 DEF KeepsOpen
      <4>6. e = [rest |-> << >>, out |-> Append(d.out, Response(n + 1, keep)), count |-> n + 1,
                 closed |-> ~keep, failed |-> FALSE]
        BY <1>2, <1>5, <2>4, <3>1, <4>2, <4>3, <4>5 DEF DecodeStep
      <4>7. PICK out : out = Append(d.out, Response(n + 1, keep))
        OBVIOUS
      <4>8. Queued(out, sc, n + 1, n + 1 - K)
        <5>1. n - K \in Nat /\ n - K + 1 = n + 1 - K
          BY <2>1, <3>1
        <5>2. Queued(out, sc, n + 1, n - K + 1)
          BY <2>1, <3>1, <3>2, <4>4, <4>7, <5>1, QueuedAppend
        <5> QED
          BY <5>1, <5>2
      <4>9. /\ n + 1 \in Nat /\ K <= n + 1 /\ n + 1 - 1 = n /\ n + 1 >= 1
            /\ p + 1 <= 2 * (n + 1) + 3
        <5>1. n \in Nat /\ K <= n /\ p = 2 * n + 3
          BY <2>1, <3>1, <3>2, <4>1, Zenon
        <5> QED
          BY <5>1
      <4>10. StaysOpen(sc, n) /\ (keep => StaysOpen(sc, n + 1))
        BY <2>1, <2>4, <3>1, <3>2, <4>4, OpenFacts
      <4>11. Cut(<< >>, sc, 2 * (n + 1) + 2, p + 1)
        <5>1. 2 * (n + 1) + 2 = p + 1 /\ p + 1 \in Nat
          BY <3>2, <4>1
        <5> QED
          BY <5>1, CutEmpty
      <4>12. /\ DOMAIN e = {"rest", "out", "count", "closed", "failed"}
             /\ e.rest = << >> /\ e.out = out /\ e.count = n + 1
        BY <4>6, <4>7
      <4>14. e.closed = ~keep /\ e.failed = FALSE
        BY <4>6
      <4>13. DecodedTo(e, sc, K, p + 1)
        <5>1. keep \in BOOLEAN
          BY <4>4 DEF KeepsOpen
        <5>2. /\ e.count \in Nat /\ K <= e.count /\ StaysOpen(sc, e.count - 1) /\ e.count >= 1
              /\ Queued(e.out, sc, e.count, e.count - K) /\ p + 1 <= 2 * e.count + 3
              /\ Cut(e.rest, sc, 2 * e.count + 2, p + 1)
          <6>1. e.count = n + 1 /\ e.rest = << >> /\ e.out = out
            BY <4>12, Zenon
          <6>2. e.count - 1 = n
            BY <3>2, <4>9, <6>1
          <6> QED
            BY <4>8, <4>9, <4>10, <4>11, <6>1, <6>2
        <5>3. /\ e.closed \in BOOLEAN /\ (e.closed => ~KeepsOpen(sc, e.count))
              /\ (~e.closed => StaysOpen(sc, e.count))
          BY <4>4, <4>10, <4>12, <4>14, <5>1
        <5> QED
          BY <4>12, <4>14, <5>2, <5>3 DEF DecodedTo
      <4> QED
        BY <1>1, <1>2, <4>13
    <3> QED
      BY <3>4, <3>5
  <2> QED
    BY <2>1, <2>2, <2>3, <2>4
<1> QED
  BY <1>3, <1>4, <1>5

\* The loop over what follows K requests.
LEMMA DecodeLoopIs ==
    ASSUME NEW sc, IsScript(sc), NEW K \in Nat, StaysOpen(sc, K),
           NEW bytes, NEW q, Cut(bytes, sc, 2 * K + 2, q)
    PROVE  DecodedTo(DecodeLoop(bytes, K), sc, K, q)
<1>1. /\ 2 * K + 2 \in Nat /\ q \in Nat /\ 2 * K + 2 <= q /\ q <= Len(sc)
      /\ Len(bytes) = q - (2 * K + 2)
      /\ \A i \in 1..(q - (2 * K + 2)) : bytes[i] = sc[2 * K + 2 + i]
  BY DEF Cut
<1>2. PICK A : A = DecodeSteps(bytes, K)
  OBVIOUS
<1>3. A[0] = DecodeStart(K) /\ \A n \in Nat : A[n + 1] = DecodeStep(A[n], bytes[n + 1])
  BY <1>2, DecodeUnfolds
<1> DEFINE Good == {n \in Nat : n <= Len(bytes) => DecodedTo(A[n], sc, K, 2 * K + 2 + n)}
<1>4. 0 \in Good
  <2>1. PICK d : d = DecodeStart(K)
    OBVIOUS
  <2>2. /\ DOMAIN d = {"rest", "out", "count", "closed", "failed"}
        /\ d.rest = << >> /\ d.out = << >> /\ d.count = K /\ d.closed = FALSE /\ d.failed = FALSE
    BY <2>1 DEF DecodeStart
  <2>3. Cut(<< >>, sc, 2 * K + 2, 2 * K + 2)
    <3>1. 2 * K + 2 <= Len(sc)
      BY <1>1, ScriptFacts
    <3> QED
      BY <1>1, <3>1, CutEmpty
  <2>4. Queued(<< >>, sc, K, K - K)
    <3>1. K - K = 0 /\ << >> \in Seq(Responses) /\ Len(<< >>) = 0 /\ 1..0 = {} /\ 0 <= K
      OBVIOUS
    <3> QED
      BY <3>1 DEF Queued
  <2>5. StaysOpen(sc, K - 1)
    BY OpenFacts
  <2>6. DecodedTo(d, sc, K, 2 * K + 2)
    <3>1. K <= K /\ 2 * K + 2 <= 2 * K + 3
      OBVIOUS
    <3> QED
      BY <2>2, <2>3, <2>4, <2>5, <3>1 DEF DecodedTo
  <2>7. 2 * K + 2 + 0 = 2 * K + 2
    OBVIOUS
  <2> QED
    BY <1>3, <2>1, <2>6, <2>7
<1>5. ASSUME NEW n \in Nat, n \in Good PROVE n + 1 \in Good
  <2>1. CASE n + 1 <= Len(bytes)
    <3>1. PICK p : p = 2 * K + 2 + n
      OBVIOUS
    <3>2. /\ p \in Nat /\ p + 1 <= Len(sc) /\ n <= Len(bytes) /\ n + 1 \in 1..(q - (2 * K + 2))
          /\ 2 * K + 2 + (n + 1) = p + 1
      BY <1>1, <2>1, <3>1, ScriptFacts
    <3>3. bytes[n + 1] = sc[p + 1]
      BY <1>1, <3>2
    <3>4. DecodedTo(A[n], sc, K, p)
      BY <1>5, <3>1, <3>2
    <3>5. DecodedTo(DecodeStep(A[n], sc[p + 1]), sc, K, p + 1)
      BY <3>2, <3>4, DecodeOne
    <3>6. DecodedTo(A[n + 1], sc, K, 2 * K + 2 + (n + 1))
      BY <1>3, <3>2, <3>3, <3>5
    <3> QED
      BY <3>6
  <2>2. CASE ~(n + 1 <= Len(bytes))
    BY <2>2
  <2> QED
    BY <2>1, <2>2
<1> HIDE DEF Good
<1>6. \A n \in Nat : n \in Good
  BY <1>4, <1>5, NatSetInduction
<1>7. Len(bytes) \in Nat /\ Len(bytes) <= Len(bytes) /\ 2 * K + 2 + Len(bytes) = q
  BY <1>1
<1>8. DecodedTo(A[Len(bytes)], sc, K, q)
  BY <1>6, <1>7 DEF Good
<1> QED
  BY <1>2, <1>8 DEF DecodeLoop

-----------------------------------------------------------------------------
(* What has been delivered.                                                *)

LEMMA DueType ==
    ASSUME NEW sc, NEW k \in Nat
    PROVE  Due(sc, k) \in Parts
<1>1. (k + 1) \div 2 \in Nat /\ 2 - (k % 2) \in Nat
  OBVIOUS
<1>2. \A n : KeepsOpen(sc, n) \in BOOLEAN
  BY DEF KeepsOpen
<1> QED
  BY <1>1, <1>2 DEF Due, Parts

LEMMA FlightType == Flight \in Parts /\ <<Flight>> \in Seq(Parts) /\ Len(<<Flight>>) = 1 /\ <<Flight>>[1] = Flight
<1>1. Flight \in Parts
  BY DEF Flight, Parts
<1>2. \A S : \A x \in S : <<x>> \in Seq(S) /\ Len(<<x>>) = 1 /\ <<x>>[1] = x
  OBVIOUS
<1> QED
  BY <1>1, <1>2

LEMMA NothingDelivered ==
    ASSUME NEW sc
    PROVE  Delivered(sc, << >>, 0, 0)
<1>1. Len(<< >>) = 0 + 0 /\ 1..0 = {}
  OBVIOUS
<1> QED
  BY <1>1 DEF Delivered

LEMMA FlightDelivered ==
    ASSUME NEW sc, NEW g \in Seq(Parts), NEW f \in Nat, Delivered(sc, g, f, 0)
    PROVE  Delivered(sc, g \o <<Flight>>, f + 1, 0) /\ g \o <<Flight>> \in Seq(Parts)
<1>1. Len(g) = f /\ \A i \in 1..f : g[i] = Flight
  BY DEF Delivered
<1>2. PICK t : t = <<Flight>>
  OBVIOUS
<1>3. t \in Seq(Parts) /\ Len(t) = 1 /\ t[1] = Flight
  BY <1>2, FlightType
<1>4. /\ g \o t \in Seq(Parts) /\ Len(g \o t) = Len(g) + Len(t)
      /\ \A i \in 1..(Len(g) + Len(t)) : (g \o t)[i] = IF i <= Len(g) THEN g[i] ELSE t[i - Len(g)]
  BY <1>3, ConcatProperties
<1>5. ASSUME NEW i \in 1..(f + 1) PROVE (g \o t)[i] = Flight
  <2>1. i \in 1..(Len(g) + Len(t)) /\ (i \in 1..f \/ (~(i <= f) /\ i - f = 1))
    BY <1>1, <1>3
  <2> QED
    BY <1>1, <1>3, <1>4, <2>1
<1>6. Len(g \o t) = f + 1 + 0 /\ 1..0 = {}
  BY <1>1, <1>3, <1>4
<1>7. Delivered(sc, g \o t, f + 1, 0)
  BY <1>5, <1>6 DEF Delivered
<1> QED
  BY <1>2, <1>4, <1>7

LEMMA MoreDelivered ==
    ASSUME NEW sc, NEW g \in Seq(Parts), NEW f \in Nat, NEW m \in Nat, Delivered(sc, g, f, m),
           NEW N, NEW buf, Sending(buf, sc, N), m = 2 * N - Len(buf), NEW n \in 1..Len(buf)
    PROVE  /\ Delivered(sc, g \o SubSeq(buf, 1, n), f, m + n)
           /\ g \o SubSeq(buf, 1, n) \in Seq(Parts)
<1>1. /\ Len(g) = f + m /\ \A i \in 1..f : g[i] = Flight
      /\ \A k \in 1..m : g[f + k] = Due(sc, k) /\ StaysOpen(sc, (k - 1) \div 2)
  BY DEF Delivered
<1>2. /\ N \in Nat /\ N >= 1 /\ buf \in Seq(Parts) /\ Len(buf) \in Nat
      /\ \A k \in 1..Len(buf) : buf[k] = Due(sc, m + k)
      /\ StaysOpen(sc, N - 1)
  BY LenProperties DEF Sending
<1>3. PICK t : t = SubSeq(buf, 1, n)
  OBVIOUS
<1>4. t \in Seq(Parts) /\ Len(t) = n /\ \A k \in 1..n : t[k] = buf[k]
  <2>1. n \in Nat /\ n \in Int /\ n <= Len(buf) /\ 1 <= n /\ n - 1 + 1 = n /\ \A k \in 1..n : 1 + k - 1 = k
    BY <1>2
  <2>2. /\ SubSeq(buf, 1, n) \in Seq(Parts)
        /\ Len(SubSeq(buf, 1, n)) = IF 1 <= n THEN n - 1 + 1 ELSE 0
        /\ \A k \in 1..(n - 1 + 1) : SubSeq(buf, 1, n)[k] = buf[1 + k - 1]
    BY <1>2, <2>1, Slice
  <2> QED
    BY <1>3, <2>1, <2>2
<1>5. /\ g \o t \in Seq(Parts) /\ Len(g \o t) = Len(g) + Len(t)
      /\ \A i \in 1..(Len(g) + Len(t)) : (g \o t)[i] = IF i <= Len(g) THEN g[i] ELSE t[i - Len(g)]
  BY <1>4, ConcatProperties
<1>6. n \in Nat /\ n <= Len(buf) /\ Len(g) + Len(t) = f + (m + n) /\ m + n <= 2 * N
  BY <1>1, <1>2, <1>4
<1>7. ASSUME NEW i \in 1..f PROVE (g \o t)[i] = Flight
  <2>1. i \in 1..(Len(g) + Len(t)) /\ i <= Len(g)
    BY <1>1, <1>6, SMTT(30)
  <2> QED
    BY <1>1, <1>5, <2>1
<1>8. ASSUME NEW k \in 1..(m + n) PROVE (g \o t)[f + k] = Due(sc, k)
  <2>1. f + k \in 1..(Len(g) + Len(t))
    BY <1>6
  <2>2. CASE k <= m
    <3>1. k \in 1..m /\ f + k <= Len(g)
      BY <1>1, <2>2
    <3> QED
      BY <1>1, <1>5, <2>1, <3>1
  <2>3. CASE ~(k <= m)
    <3>1. /\ ~(f + k <= Len(g)) /\ f + k - Len(g) = k - m /\ k - m \in 1..n
          /\ k - m \in 1..Len(buf) /\ m + (k - m) = k
      BY <1>1, <1>2, <1>6, <2>3
    <3>2. PICK j : j = k - m
      OBVIOUS
    <3>3. (g \o t)[f + k] = t[j]
      BY <1>5, <2>1, <3>1, <3>2
    <3>4. t[j] = buf[j] /\ buf[j] = Due(sc, m + j) /\ m + j = k
      BY <1>2, <1>4, <3>1, <3>2
    <3> QED
      BY <3>3, <3>4
  <2> QED
    BY <2>2, <2>3
<1>9. ASSUME NEW k \in 1..(m + n) PROVE StaysOpen(sc, (k - 1) \div 2)
  <2>1. (k - 1) \div 2 \in Int /\ (k - 1) \div 2 <= N - 1 /\ N - 1 \in Nat
    <3>1. k \in Int /\ k <= 2 * N /\ N \in Nat /\ N >= 1
      BY <1>2, <1>6
    <3> QED
      BY <3>1
  <2> QED
    BY <1>2, <2>1, OpenFacts
<1>10. Delivered(sc, g \o t, f, m + n)
  BY <1>5, <1>6, <1>7, <1>8, <1>9 DEF Delivered
<1> QED
  BY <1>3, <1>5, <1>10

-----------------------------------------------------------------------------
(* From one operation of a connection to the next.                         *)

LEMMA QueuedSize ==
    ASSUME NEW pending, NEW sc, NEW K, NEW L, Queued(pending, sc, K, L)
    PROVE  /\ K \in Nat /\ L \in Nat /\ L <= K /\ pending \in Seq(Responses)
           /\ (pending = << >>) <=> (L = 0)
<1>1. K \in Nat /\ L \in Nat /\ L <= K /\ pending \in Seq(Responses) /\ Len(pending) = L
  BY DEF Queued
<1> QED
  BY <1>1, EmptySeq

LEMMA QueuedFirst ==
    ASSUME NEW pending, NEW sc, NEW K, NEW L, Queued(pending, sc, K, L), pending # << >>
    PROVE  /\ Head(pending) = Response(K - L + 1, KeepsOpen(sc, K - L + 1))
           /\ Queued(Tail(pending), sc, K, L - 1)
<1>1. /\ K \in Nat /\ L \in Nat /\ L <= K /\ pending \in Seq(Responses) /\ Len(pending) = L
      /\ \A j \in 1..L : pending[j] = Response(K - L + j, KeepsOpen(sc, K - L + j))
  BY DEF Queued
<1>2. /\ Head(pending) = pending[1] /\ Tail(pending) \in Seq(Responses)
      /\ Len(Tail(pending)) = L - 1
      /\ \A i \in 1..Len(Tail(pending)) : Tail(pending)[i] = pending[i + 1]
  BY <1>1, HeadTailProperties
<1>3. 1 \in 1..L /\ L - 1 \in Nat /\ L - 1 <= K
  BY <1>1, QueuedSize
<1>4. ASSUME NEW j \in 1..(L - 1)
      PROVE  Tail(pending)[j] = Response(K - (L - 1) + j, KeepsOpen(sc, K - (L - 1) + j))
  <2>1. j + 1 \in 1..L /\ K - L + (j + 1) = K - (L - 1) + j
    BY <1>1
  <2> QED
    BY <1>1, <1>2, <2>1
<1> QED
  BY <1>1, <1>2, <1>3, <1>4 DEF Queued

\* c1 has the requests and responses of conn.
SameWork(c1, conn) ==
    c1.count = conn.count /\ c1.pending = conn.pending /\ c1.decoder = conn.decoder

LEMMA ReadNext ==
    ASSUME NEW conn, NEW q, NEW v, NEW N, Ready(conn, q, v, N), conn.pending = << >>,
           NEW c1, SameWork(c1, conn), c1.write = conn.write, c1.state = "Reading"
    PROVE  ReadPoint(c1, q, v)
<1>1. Queued(conn.pending, v.sc, conn.count, conn.count - N) /\ N \in Nat
  BY DEF Ready, Serving
<1>2. conn.count \in Nat /\ conn.count - N = 0
  <2>1. PICK L : L = conn.count - N
    OBVIOUS
  <2>2. Queued(conn.pending, v.sc, conn.count, L)
    BY <1>1, <2>1
  <2>3. conn.count \in Nat /\ L = 0
    BY <2>2, QueuedSize
  <2> QED
    BY <2>1, <2>3
<1>3. N = conn.count
  BY <1>1, <1>2
<1>4. Ready(c1, q, v, c1.count)
  BY <1>3 DEF Ready, Serving, SameWork
<1> QED
  BY <1>4 DEF ReadPoint

LEMMA SendNext ==
    ASSUME NEW conn, NEW q, NEW v, NEW N, Ready(conn, q, v, N), conn.pending # << >>,
           NEW c1, c1.count = conn.count, c1.decoder = conn.decoder,
           c1.pending = Tail(conn.pending), c1.write = Head(conn.pending).parts,
           c1.state = IF Head(conn.pending).keep THEN "Writing" ELSE "Closing"
    PROVE  WritePoint(c1, q, 0, v)
<1>1. /\ Queued(conn.pending, v.sc, conn.count, conn.count - N) /\ N \in Nat /\ N <= conn.count
      /\ Holds(conn.decoder, v.sc, conn.count, q) /\ StaysOpen(v.sc, N) /\ Reach(v, 2 * N)
  BY DEF Ready, Serving
<1>2. PICK keep : keep = KeepsOpen(v.sc, N + 1)
  OBVIOUS
<1>3. /\ conn.count \in Nat /\ conn.count - N \in Nat
      /\ Head(conn.pending) = Response(conn.count - (conn.count - N) + 1,
                                       KeepsOpen(v.sc, conn.count - (conn.count - N) + 1))
      /\ Queued(c1.pending, v.sc, conn.count, conn.count - N - 1)
      /\ conn.count - N # 0
  <2>1. PICK L : L = conn.count - N
    OBVIOUS
  <2>2. Queued(conn.pending, v.sc, conn.count, L)
    BY <1>1, <2>1
  <2>3. /\ conn.count \in Nat /\ L \in Nat /\ L # 0
        /\ Head(conn.pending) = Response(conn.count - L + 1, KeepsOpen(v.sc, conn.count - L + 1))
        /\ Queued(Tail(conn.pending), v.sc, conn.count, L - 1)
    BY <2>2, QueuedSize, QueuedFirst
  <2> QED
    BY <2>1, <2>3
<1>4. conn.count - (conn.count - N) + 1 = N + 1 /\ N + 1 \in Nat /\ N + 1 >= 1 /\ N + 1 <= conn.count
      /\ conn.count - N - 1 = conn.count - (N + 1) /\ N + 1 - 1 = N
  BY <1>1, <1>3
<1>5. Head(conn.pending) = Response(N + 1, keep)
  BY <1>2, <1>3, <1>4
<1>6. PICK x, y : x = <<N + 1, keep, 1>> /\ y = <<N + 1, keep, 2>>
  OBVIOUS
<1>7. Head(conn.pending).parts = <<x, y>> /\ Head(conn.pending).keep = keep
  BY <1>5, <1>6 DEF Response
<1>8. x = Due(v.sc, 2 * (N + 1) - 2 + 1) /\ y = Due(v.sc, 2 * (N + 1) - 2 + 2)
  <2>1. /\ (2 * (N + 1) - 2 + 1 + 1) \div 2 = N + 1 /\ (2 * (N + 1) - 2 + 2 + 1) \div 2 = N + 1
        /\ 2 - ((2 * (N + 1) - 2 + 1) % 2) = 1 /\ 2 - ((2 * (N + 1) - 2 + 2) % 2) = 2
    BY <1>1
  <2> QED
    BY <1>2, <1>6, <2>1 DEF Due
<1>9. x \in Parts /\ y \in Parts
  <2>1. 2 * (N + 1) - 2 + 1 \in Nat /\ 2 * (N + 1) - 2 + 2 \in Nat
    BY <1>1
  <2> QED
    BY <1>8, <2>1, DueType
<1>10. /\ c1.write \in Seq(Parts) /\ Len(c1.write) = 2 /\ c1.write[1] = x /\ c1.write[2] = y
  <2>1. \A S : \A a, b \in S : <<a, b>> \in Seq(S) /\ Len(<<a, b>>) = 2 /\ <<a, b>>[1] = a /\ <<a, b>>[2] = b
    OBVIOUS
  <2>2. <<x, y>> \in Seq(Parts) /\ Len(<<x, y>>) = 2 /\ <<x, y>>[1] = x /\ <<x, y>>[2] = y
    BY <1>9, <2>1, Zenon
  <2>3. c1.write = <<x, y>>
    BY <1>7
  <2> QED
    BY <2>2, <2>3, Zenon
<1>11. Sending(c1.write, v.sc, N + 1)
  <2>1. \A k \in 1..2 : k = 1 \/ k = 2
    OBVIOUS
  <2>2. \A k \in 1..2 : c1.write[k] = Due(v.sc, 2 * (N + 1) - 2 + k)
    BY <1>8, <1>10, <2>1
  <2>3. PICK w : w = c1.write
    OBVIOUS
  <2>4. w \in Seq(Parts) /\ Len(w) = 2 /\ \A k \in 1..2 : w[k] = Due(v.sc, 2 * (N + 1) - 2 + k)
    BY <1>10, <2>2, <2>3
  <2>7. Len(w) \in 1..2
    BY <2>4
  <2>8. ASSUME NEW k \in 1..Len(w) PROVE w[k] = Due(v.sc, 2 * (N + 1) - Len(w) + k)
    <3>1. k \in 1..2
      BY <2>4
    <3> QED
      BY <2>4, <3>1
  <2>9. PICK M : M = N + 1
    OBVIOUS
  <2>10. M \in Nat /\ M >= 1 /\ StaysOpen(v.sc, M - 1) /\ w \in Seq(Parts)
    <3>1. w \in Seq(Parts)
      BY <2>4, Zenon
    <3>2. M \in Nat /\ M >= 1
      BY <1>4, <2>9
    <3>3. M - 1 = N /\ StaysOpen(v.sc, M - 1)
      BY <1>1, <2>9
    <3> QED
      BY <3>1, <3>2, <3>3, Zenon
  <2>11. \A k \in 1..Len(w) : w[k] = Due(v.sc, 2 * M - Len(w) + k)
    BY <2>8, <2>9
  <2>12. Sending(w, v.sc, M)
    BY <2>7, <2>10, <2>11, Zenon DEF Sending
  <2>6. Sending(w, v.sc, N + 1)
    BY <2>9, <2>12
  <2> QED
    BY <2>3, <2>6
<1>12. Serving(c1, q, v, N + 1)
  BY <1>1, <1>3, <1>4 DEF Serving
<1>13. c1.state = "Writing" => StaysOpen(v.sc, N + 1)
  <2>1. c1.state = "Writing" => keep
    BY <1>7
  <2> QED
    BY <1>1, <1>2, <2>1, OpenFacts
<1>14. Reach(v, 2 * (N + 1) - Len(c1.write) + 0)
  <2>1. 2 * (N + 1) - 2 + 0 = 2 * N
    BY <1>1
  <2> QED
    BY <1>1, <1>10, <2>1
<1>15. Responding(c1, q, 0, v, N + 1)
  BY <1>11, <1>12, <1>13, <1>14 DEF Responding
<1>16. c1.state # "HandshakeWriting"
  OBVIOUS
<1> QED
  BY <1>4, <1>15, <1>16 DEF WritePoint

\* What the loop leaves is what Serving asks for.
LEMMA DecodedServing ==
    ASSUME NEW d, NEW v, NEW K \in Nat, NEW q, DecodedTo(d, v.sc, K, q), ~d.failed,
           NEW c1, c1.pending = d.out, c1.decoder = d.rest, c1.count = d.count
    PROVE  Serving(c1, q, v, K)
<1>1. /\ d.count \in Nat /\ K <= d.count /\ d.closed \in BOOLEAN
      /\ Queued(d.out, v.sc, d.count, d.count - K) /\ StaysOpen(v.sc, d.count - 1)
      /\ d.closed => d.count >= 1 /\ ~KeepsOpen(v.sc, d.count)
      /\ ~d.closed => Cut(d.rest, v.sc, 2 * d.count + 2, q)
  BY DEF DecodedTo
<1>2. StaysOpen(v.sc, d.count) => Cut(d.rest, v.sc, 2 * d.count + 2, q)
  BY <1>1, OpenFacts
<1>3. Holds(d.rest, v.sc, d.count, q)
  BY <1>1, <1>2 DEF Holds
<1> QED
  BY <1>1, <1>3 DEF Serving

LEMMA HandOffReady ==
    ASSUME NEW conn, NEW q, NEW v, IsScript(v.sc), Handshake(conn, q, v), ~(q < 2),
           NEW d, d = DecodeLoop(conn.decoder \o conn.plaintext, conn.count), ~d.failed,
           NEW c1, c1.pending = conn.pending \o d.out, c1.decoder = d.rest, c1.count = d.count,
           c1.write = << >>
    PROVE  Ready(c1, q, v, 0)
<1>1. /\ conn.count = 0 /\ conn.pending = << >> /\ conn.decoder = << >>
      /\ Cut(conn.plaintext, v.sc, 2, q) /\ Reach(v, 0)
  BY DEF Handshake
<1>2. conn.decoder \o conn.plaintext = conn.plaintext
  BY <1>1, ConcatEmptySeq DEF Cut
<1>3. d = DecodeLoop(conn.plaintext, 0)
  BY <1>1, <1>2
<1>4. 2 * 0 + 2 = 2 /\ 0 \in Nat /\ 2 * 0 = 0
  OBVIOUS
<1>5. StaysOpen(v.sc, 0)
  BY <1>4, OpenFacts
<1>6. DecodedTo(d, v.sc, 0, q)
  BY <1>1, <1>3, <1>4, <1>5, DecodeLoopIs
<1>7. c1.pending = d.out
  <2>1. d.out \in Seq(Responses)
    BY <1>6 DEF DecodedTo, Queued
  <2> QED
    BY <1>1, <2>1, ConcatEmptySeq
<1>8. Serving(c1, q, v, 0)
  BY <1>4, <1>6, <1>7, DecodedServing
<1> QED
  BY <1>1, <1>4, <1>5, <1>8 DEF Ready

LEMMA HttpReady ==
    ASSUME NEW conn, NEW q, NEW r, NEW v, IsScript(v.sc), NEW val, ReadTo(conn, val, q, r, v),
           conn.state = "Reading",
           NEW d, d = DecodeLoop(conn.decoder \o val, conn.count), ~d.failed,
           NEW c1, c1.pending = conn.pending \o d.out, c1.decoder = d.rest, c1.count = d.count,
           c1.write = conn.write
    PROVE  Ready(c1, r, v, conn.count)
<1>1. Cut(val, v.sc, q, r) /\ Ready(conn, q, v, conn.count)
  BY DEF ReadTo, ReadPoint
<1>2. PICK K : K = conn.count
  OBVIOUS
<1>3. /\ K \in Nat /\ Queued(conn.pending, v.sc, K, K - K) /\ Holds(conn.decoder, v.sc, K, q)
      /\ conn.write = << >> /\ StaysOpen(v.sc, K) /\ Reach(v, 2 * K)
  BY <1>1, <1>2 DEF Ready, Serving
<1>4. Cut(conn.decoder \o val, v.sc, 2 * K + 2, r)
  BY <1>1, <1>3, CutJoin DEF Holds
<1>5. DecodedTo(d, v.sc, K, r)
  BY <1>2, <1>3, <1>4, DecodeLoopIs
<1>6. c1.pending = d.out
  <2>1. d.out \in Seq(Responses)
    BY <1>5 DEF DecodedTo, Queued
  <2>2. K - K = 0
    BY <1>3
  <2>3. conn.pending = << >>
    BY <1>3, <2>2, QueuedSize
  <2> QED
    BY <2>1, <2>3, ConcatEmptySeq
<1>7. Serving(c1, r, v, K)
  BY <1>3, <1>5, <1>6, DecodedServing
<1> QED
  BY <1>2, <1>3, <1>7 DEF Ready

\* A write that was cut short, and one that took the rest of the response.
LEMMA AfterWrite ==
    ASSUME NEW conn, NEW q, NEW v, NEW n, NEW N \in Nat, Responding(conn, q, n, v, N),
           n \in 1..Len(conn.write),
           NEW c1, SameWork(c1, conn), c1.state = conn.state,
           c1.write = SubSeq(conn.write, n + 1, Len(conn.write))
    PROVE  /\ c1.write # << >> => Responding(c1, q, 0, v, N)
           /\ c1.write = << >> /\ c1.state = "Writing" => Ready(c1, q, v, N)
<1>1. PICK w, u : w = conn.write /\ u = c1.write
  OBVIOUS
<1>2. /\ N >= 1 /\ w \in Seq(Parts) /\ Len(w) \in 1..2 /\ Len(w) \in Nat
      /\ \A k \in 1..Len(w) : w[k] = Due(v.sc, 2 * N - Len(w) + k)
      /\ StaysOpen(v.sc, N - 1)
  BY <1>1, LenProperties DEF Responding, Sending
<1>3. n \in Nat /\ 1 <= n /\ n <= Len(w)
  BY <1>1, <1>2
<1>4. u \in Seq(Parts) /\ Len(u) = Len(w) - n /\ \A k \in 1..(Len(w) - n) : u[k] = w[n + k]
  <2>1. /\ n + 1 \in Nat /\ n + 1 >= 1 /\ Len(w) \in Int /\ Len(w) <= Len(w)
        /\ Len(w) - (n + 1) + 1 = Len(w) - n
        /\ (n + 1 <= Len(w) \/ Len(w) - n = 0)
        /\ \A k \in 1..(Len(w) - n) : n + 1 + k - 1 = n + k
    BY <1>2, <1>3
  <2>2. PICK e, b : e = Len(w) /\ b = n + 1
    OBVIOUS
  <2>3. w \in Seq(Parts) /\ b \in Nat /\ b >= 1 /\ e \in Int /\ e <= Len(w)
    BY <1>2, <2>1, <2>2
  <2>4. /\ SubSeq(w, b, e) \in Seq(Parts)
        /\ Len(SubSeq(w, b, e)) = IF b <= e THEN e - b + 1 ELSE 0
        /\ \A k \in 1..(e - b + 1) : SubSeq(w, b, e)[k] = w[b + k - 1]
    BY <2>3, Slice
  <2>5. u = SubSeq(w, b, e)
    BY <1>1, <2>2
  <2> QED
    BY <2>1, <2>2, <2>4, <2>5
<1>9. Len(w) \in 1..2 /\ Len(u) = Len(w) - n
  BY <1>2, <1>4, Zenon
<1>5. Serving(c1, q, v, N)
  BY DEF Responding, Serving, SameWork
<1>6. Reach(v, 2 * N - Len(w) + n) /\ (c1.state = "Writing" => StaysOpen(v.sc, N))
  BY <1>1 DEF Responding
<1>7. ASSUME u # << >> PROVE Responding(c1, q, 0, v, N)
  <2>1. Len(u) \in 1..2 /\ Len(u) \in Nat
    <3>1. Len(u) # 0
      BY <1>4, <1>7, EmptySeq
    <3>2. \A i, j, k \in Nat : i \in 1..2 /\ k <= i /\ 1 <= k /\ j = i - k /\ j # 0 => j \in 1..2
      OBVIOUS
    <3>3. Len(w) \in Nat /\ Len(u) \in Nat
      BY <1>2, <1>4, LenProperties
    <3> QED
      BY <1>3, <1>9, <3>1, <3>2, <3>3, Zenon
  <2>2. ASSUME NEW k \in 1..Len(u) PROVE u[k] = Due(v.sc, 2 * N - Len(u) + k)
    <3>1. k \in 1..(Len(w) - n) /\ n + k \in 1..Len(w)
          /\ 2 * N - Len(w) + (n + k) = 2 * N - Len(u) + k
      BY <1>2, <1>3, <1>4
    <3> QED
      BY <1>2, <1>4, <3>1
  <2>3. Sending(u, v.sc, N)
    BY <1>2, <1>4, <2>1, <2>2, Zenon DEF Sending
  <2>4. 2 * N - Len(w) + n = 2 * N - Len(u) + 0
    BY <1>2, <1>3, <1>4
  <2>5. Reach(v, 2 * N - Len(u) + 0)
    BY <1>6, <2>4
  <2> QED
    BY <1>1, <1>5, <1>6, <2>3, <2>5 DEF Responding
<1>8. ASSUME u = << >>, c1.state = "Writing" PROVE Ready(c1, q, v, N)
  <2>1. 2 * N - Len(w) + n = 2 * N
    <3>1. Len(u) = 0
      BY <1>8
    <3> QED
      BY <1>3, <1>9, <3>1, SMTT(30)
  <2>2. Reach(v, 2 * N)
    BY <1>6, <2>1
  <2> QED
    BY <1>1, <1>5, <1>6, <1>8, <2>2 DEF Ready
<1> QED
  BY <1>1, <1>7, <1>8

Has(data, x) == \E i \in DOMAIN data : data[i] = x

\* What a read of the handshake holds, and what becomes of the connection.
LEMMA AfterTlsRead ==
    ASSUME NEW conn, NEW q \in Nat, NEW r, NEW v, IsScript(v.sc), NEW val, ReadTo(conn, val, q, r, v),
           conn.state = "HandshakeReading",
           NEW c1, SameWork(c1, conn), c1.handshaking = ~Has(val, "finished"),
           c1.plaintext = conn.plaintext \o (IF Head(val) \in {"hello", "finished"} THEN Tail(val) ELSE val)
    PROVE  /\ conn.handshaking = TRUE /\ conn.write = << >>
           /\ \/ ~Has(val, "finished") /\ Has(val, "bad")
              \/ Has(val, "hello") /\ Handshake(c1, r, v) /\ 1 <= r
              \/ Has(val, "finished") /\ Handshake(c1, r, v) /\ 1 <= r /\ ~(r < 2)
<1>1. /\ q < r /\ (q = 0 => r = 1) /\ Cut(val, v.sc, q, r)
      /\ Handshake(conn, q, v) /\ q < 2 /\ conn.write = << >>
  BY DEF ReadTo, ReadPoint
<1>2. /\ conn.count = 0 /\ conn.pending = << >> /\ conn.decoder = << >> /\ conn.handshaking = TRUE
      /\ conn.plaintext = << >> /\ Reach(v, 0)
  BY <1>1 DEF Handshake
<1>3. PICK sc : sc = v.sc
  OBVIOUS
<1>4. /\ r \in Nat /\ r <= Len(sc) /\ val \in Seq(Symbols) /\ Len(val) = r - q
      /\ \A i \in 1..(r - q) : val[i] = sc[q + i]
  BY <1>1, <1>3 DEF Cut
<1>5. DOMAIN val = 1..(r - q) /\ Len(sc) \in Nat /\ IsScript(sc)
  BY <1>3, <1>4, LenProperties, ScriptFacts
<1>6. /\ Head(val) = sc[q + 1] /\ 1 \in DOMAIN val /\ val[1] = sc[q + 1]
      /\ Cut(Tail(val), sc, q + 1, r)
  BY <1>1, <1>3, CutTail, ZenonT(60)
<1>7. q + 1 \in 1..Len(sc)
  BY <1>1, <1>4, <1>5
<1>8. PICK t : t = Tail(val)
  OBVIOUS
<1>9. t \in Seq(Symbols) /\ Len(t) = r - (q + 1)
  BY <1>6, <1>8 DEF Cut
<1>10. CASE sc[q + 1] = "bad"
  <2>1. Has(val, "bad")
    BY <1>6, <1>10 DEF Has
  <2>2. ASSUME NEW i \in DOMAIN val PROVE val[i] # "finished"
    <3>1. i \in 1..(r - q) /\ val[i] = sc[q + i] /\ q + i \in 1..Len(sc)
      BY <1>1, <1>4, <1>5
    <3>2. CASE i = 1
      BY <1>6, <1>10, <3>2
    <3>3. CASE i # 1
      <4>1. q # 0
        BY <1>1, <3>1, <3>3
      <4>2. q + i > 2
        BY <3>1, <3>3, <4>1
      <4> QED
        BY <1>5, <3>1, <4>2, ScriptFacts
    <3> QED
      BY <3>2, <3>3
  <2> QED
    BY <1>1, <1>2, <2>1, <2>2 DEF Has
<1>11. CASE sc[q + 1] # "bad" /\ q = 0
  <2>1. sc[q + 1] = "hello" /\ r = 1
    <3>1. q + 1 = 1
      BY <1>11
    <3> QED
      BY <1>1, <1>5, <1>7, <1>11, <3>1, ScriptFacts
  <2>2. Has(val, "hello")
    BY <1>6, <2>1 DEF Has
  <2>3. ~Has(val, "finished")
    <3>1. \A i \in DOMAIN val : i = 1
      BY <1>5, <1>11, <2>1
    <3> QED
      BY <1>6, <2>1, <3>1 DEF Has
  <2>4. t = << >>
    <3>1. Len(t) = 0
      BY <1>9, <1>11, <2>1
    <3> QED
      BY <1>9, <3>1, EmptySeq
  <2>5. c1.plaintext = << >>
    <3>1. c1.plaintext = conn.plaintext \o t
      BY <1>6, <1>8, <2>1
    <3>2. << >> \o << >> = << >>
      OBVIOUS
    <3> QED
      BY <1>2, <2>4, <3>1, <3>2
  <2>6. r < 2 /\ 1 <= r
    BY <2>1
  <2>8. c1.handshaking = (r < 2)
    BY <2>3, <2>6, Zenon
  <2>7. Handshake(c1, r, v)
    BY <1>2, <2>5, <2>6, <2>8 DEF Handshake, SameWork
  <2> QED
    BY <1>1, <1>2, <2>2, <2>6, <2>7
<1>12. CASE sc[q + 1] # "bad" /\ q # 0
  <2>1. q = 1 /\ q + 1 = 2 /\ ~(r < 2) /\ 1 <= r
    BY <1>1, <1>4, <1>12
  <2>2. sc[q + 1] = "finished"
    BY <1>5, <1>7, <1>12, <2>1, ScriptFacts
  <2>3. Has(val, "finished")
    BY <1>6, <2>2 DEF Has
  <2>4. c1.plaintext = t
    <3>1. c1.plaintext = conn.plaintext \o t
      BY <1>6, <1>8, <2>2
    <3> QED
      BY <1>2, <1>9, <3>1, ConcatEmptySeq
  <2>5. Cut(c1.plaintext, v.sc, 2, r)
    BY <1>3, <1>6, <1>8, <2>1, <2>4
  <2>6. c1.handshaking = (r < 2)
    <3>1. ~(r < 2)
      BY <2>1
    <3> QED
      BY <2>3, <3>1
  <2>7. Handshake(c1, r, v)
    BY <1>2, <2>1, <2>5, <2>6 DEF Handshake, SameWork
  <2> QED
    BY <1>1, <1>2, <2>1, <2>3, <2>7
<1> QED
  BY <1>10, <1>11, <1>12

-----------------------------------------------------------------------------
(* What a step leaves alone.                                               *)

\* r is q without its k-th member.
Removes(r, S, q, k) ==
    /\ r \in Seq(S) /\ Len(r) = Len(q) - 1
    /\ \A i \in 1..(Len(q) - 1) : r[i] = IF i < k THEN q[i] ELSE q[i + 1]

LEMMA RemovesOne ==
    ASSUME NEW S, NEW q \in Seq(S), NEW k \in 1..Len(q)
    PROVE  Removes(RemoveAt(q, k), S, q, k)
<1> DEFINE f == SubSeq(q, 1, k - 1)
           b == SubSeq(q, k + 1, Len(q))
           n == Len(q)
<1>1. n \in Nat /\ k \in Nat /\ k >= 1 /\ k <= n /\ k - 1 \in Nat /\ k - 1 <= n /\ k + 1 \in Nat /\ n \in Int /\ k - 1 \in Int
  BY LenProperties
<1>2. f \in Seq(S) /\ Len(f) = k - 1 /\ \A i \in 1..(k - 1) : f[i] = q[i]
  <2>1. /\ f \in Seq(S) /\ Len(f) = (IF 1 <= k - 1 THEN (k - 1) - 1 + 1 ELSE 0)
        /\ \A i \in 1..((k - 1) - 1 + 1) : f[i] = q[1 + i - 1]
    BY <1>1, Slice
  <2> HIDE DEF f
  <2> QED
    BY <1>1, <2>1
<1>3. b \in Seq(S) /\ Len(b) = n - k /\ \A i \in 1..(n - k) : b[i] = q[k + i]
  <2>1. /\ b \in Seq(S) /\ Len(b) = (IF k + 1 <= n THEN n - (k + 1) + 1 ELSE 0)
        /\ \A i \in 1..(n - (k + 1) + 1) : b[i] = q[(k + 1) + i - 1]
    BY <1>1, Slice
  <2> HIDE DEF b, n
  <2>2. \A i \in 1..(n - k) : i \in 1..(n - (k + 1) + 1) /\ (k + 1) + i - 1 = k + i
    BY <1>1
  <2> QED
    BY <1>1, <2>1, <2>2
<1>5. /\ f \o b \in Seq(S) /\ Len(f \o b) = Len(f) + Len(b)
      /\ \A i \in 1..(Len(f) + Len(b)) : (f \o b)[i] = IF i <= Len(f) THEN f[i] ELSE b[i - Len(f)]
  BY <1>2, <1>3, ConcatProperties
<1>10. RemoveAt(q, k) = f \o b
  BY DEF RemoveAt, f, b
<1> HIDE DEF f, b, n
<1>16. \A i \in 1..(n - 1) : (f \o b)[i] = IF i < k THEN q[i] ELSE q[i + 1]
  <2>1. SUFFICES ASSUME NEW i \in 1..(n - 1) PROVE (f \o b)[i] = IF i < k THEN q[i] ELSE q[i + 1]
    OBVIOUS
  <2>2. i \in 1..(Len(f) + Len(b)) /\ (i < k <=> i <= Len(f))
    BY <1>1, <1>2, <1>3
  <2>3. CASE i < k
    <3>1. i \in 1..(k - 1)
      BY <1>1, <2>3
    <3> QED
      BY <1>2, <1>5, <2>2, <2>3, <3>1
  <2>4. CASE ~(i < k)
    <3>1. i - (k - 1) \in 1..(n - k) /\ k + (i - (k - 1)) = i + 1
      BY <1>1, <2>4
    <3> QED
      BY <1>2, <1>3, <1>5, <2>2, <2>4, <3>1
  <2> QED
    BY <2>3, <2>4
<1>17. Len(f \o b) = n - 1
  BY <1>1, <1>2, <1>3, <1>5
<1> QED
  BY <1>5, <1>10, <1>16, <1>17 DEF n, Removes

LEMMA OthersStay ==
    ASSUME IsSequence(inflight), NEW k \in DOMAIN inflight, inflight' = RemoveAt(inflight, k)
    PROVE  \A i \in DOMAIN inflight' : \E j \in DOMAIN inflight : j # k /\ inflight'[i] = inflight[j]
<1>1. inflight \in Seq(Range(inflight)) /\ Len(inflight) \in Nat /\ DOMAIN inflight = 1..Len(inflight)
  BY SequenceFacts
<1>2. /\ inflight' \in Seq(Range(inflight)) /\ Len(inflight') = Len(inflight) - 1
      /\ \A i \in 1..(Len(inflight) - 1) :
            inflight'[i] = IF i < k THEN inflight[i] ELSE inflight[i + 1]
  <2>1. k \in 1..Len(inflight)
    BY <1>1
  <2>2. Removes(RemoveAt(inflight, k), Range(inflight), inflight, k)
    BY <1>1, <2>1, RemovesOne, Zenon
  <2> QED
    BY <2>2 DEF Removes
<1>3. DOMAIN inflight' = 1..(Len(inflight) - 1)
  BY <1>2, LenProperties
<1>4. ASSUME NEW i \in 1..(Len(inflight) - 1)
      PROVE  \E j \in DOMAIN inflight : j # k /\ inflight'[i] = inflight[j]
  <2>1. CASE i < k
    <3>1. i \in DOMAIN inflight /\ i # k
      BY <1>1, <2>1
    <3> QED
      BY <1>2, <2>1, <3>1
  <2>2. CASE ~(i < k)
    <3>1. i + 1 \in DOMAIN inflight /\ i + 1 # k
      BY <1>1, <2>2
    <3> QED
      BY <1>2, <2>2, <3>1
  <2> QED
    BY <2>1, <2>2
<1> QED
  BY <1>3, <1>4

\* A connection that reads or writes waits for nothing else.
LEMMA OnlyOne ==
    ASSUME RingInv, NEW k \in DOMAIN inflight, inflight[k].type \in {"Read", "Write"}
    PROVE  /\ \A j \in DOMAIN inflight : ForSlot(inflight[j], inflight[k].slot) => j = k
           /\ \A i \in DOMAIN cq : ~ForSlot(cq[i].op, inflight[k].slot)
<1>1. PICK s : s = inflight[k].slot
  OBVIOUS
<1>2. s \in DOMAIN slab /\ slab[s] # Vacant /\ Fits(inflight[k].type, slab[s].state)
  BY <1>1 DEF RingInv, Ownership, Owned
<1>3. slab[s].state # "EnablingKtls" /\ IsConnection(slab[s])
  BY <1>2 DEF Fits, KtlsOps, RingInv, Shapes
<1>4. Awaited(slab[s]) = 1
  BY <1>3, ConnectionFacts
<1>5. Cardinality(Submitted(s)) + Cardinality(Unhandled(s)) = 1
  BY <1>2, <1>4 DEF RingInv, Counts
<1>6. /\ IsFiniteSet(Submitted(s)) /\ Cardinality(Submitted(s)) \in Nat
      /\ IsFiniteSet(Unhandled(s)) /\ Cardinality(Unhandled(s)) \in Nat
  BY QueueSets DEF RingInv, Shapes
<1>7. k \in Submitted(s)
  BY <1>1 DEF Submitted, ForSlot
<1>8. Cardinality(Submitted(s)) # 0
  BY <1>6, <1>7, FS_EmptySet
<1>9. \A a, b \in Nat : a + b = 1 /\ a # 0 => a = 1 /\ b = 0
  OBVIOUS
<1>10. Cardinality(Submitted(s)) = 1 /\ Cardinality(Unhandled(s)) = 0
  BY <1>5, <1>6, <1>8, <1>9, Zenon
<1>11. PICK x : Submitted(s) = {x}
  BY <1>6, <1>10, FS_Singleton
<1>12. Unhandled(s) = {}
  BY <1>6, <1>10, FS_EmptySet
<1> QED
  BY <1>1, <1>7, <1>11, <1>12 DEF Submitted, Unhandled

LEMMA ViewsStay ==
    ASSUME script' = script, got' = got, gone' = gone
    PROVE  Views' = Views
  BY DEF Views

\* A handler: the world stays as it is, and only the slots of T change.
LEMMA FlowStep ==
    ASSUME RingInv, Flow, cq # << >>, cq' = Tail(cq), UNCHANGED world,
           NEW ops, IsSequence(ops), inflight' = inflight \o ops,
           \A i \in DOMAIN ops : OpFlow(ops[i], slab', read, Views),
           NEW T, \A t \in DOMAIN slab : t \notin T => slab'[t] = slab[t],
           \A i \in DOMAIN inflight :
              inflight[i].type # "Accept" /\ inflight[i].slot \in T =>
                 OpFlow(inflight[i], slab', read, Views),
           \A i \in DOMAIN cq' :
              cq'[i].op.type # "Accept" /\ cq'[i].op.slot \in T => DoneFlow(cq'[i], slab', read, Views)
    PROVE  Flow'
<1>1. IsSequence(inflight) /\ IsSequence(cq)
  BY DEF RingInv, Shapes
<1>2. \A i \in DOMAIN cq' : i + 1 \in DOMAIN cq /\ cq'[i] = cq[i + 1]
  BY <1>1, Handles
<1>3. From(inflight', inflight, ops)
  BY <1>1, ConcatFacts
<1>4. read' = read /\ waiting' = waiting /\ got' = got
  BY DEF world
<1>5. Views' = Views
  BY ViewsStay DEF world
<1>6. ASSUME NEW i \in DOMAIN inflight PROVE OpFlow(inflight[i], slab', read, Views)
  <2>0. PICK op : op = inflight[i]
    OBVIOUS
  <2>1. CASE op.type = "Accept"
    BY <2>0, <2>1 DEF OpFlow
  <2>2. CASE op.type # "Accept" /\ op.slot \in T
    BY <2>0, <2>2
  <2>3. CASE op.type # "Accept" /\ op.slot \notin T
    <3>1. op.slot \in DOMAIN slab /\ OpFlow(op, slab, read, Views)
      BY <2>0, <2>3 DEF RingInv, Ownership, Owned, Flow
    <3>2. slab'[op.slot] = slab[op.slot]
      BY <2>3, <3>1
    <3> QED
      BY <2>0, <2>3, <3>1, <3>2 DEF OpFlow
  <2> QED
    BY <2>1, <2>2, <2>3
<1>7. ASSUME NEW i \in DOMAIN cq' PROVE DoneFlow(cq'[i], slab', read, Views)
  <2>4. PICK e : e = cq'[i]
    OBVIOUS
  <2>0. PICK j \in DOMAIN cq : e = cq'[i] /\ e = cq[j]
    BY <1>2, <2>4
  <2>1. CASE e.op.type = "Accept"
    BY <2>0, <2>1 DEF DoneFlow
  <2>2. CASE e.op.type # "Accept" /\ e.op.slot \in T
    BY <2>0, <2>2
  <2>3. CASE e.op.type # "Accept" /\ e.op.slot \notin T
    <3>1. e.op.slot \in DOMAIN slab /\ DoneFlow(e, slab, read, Views)
      BY <2>0, <2>3 DEF RingInv, Ownership, Owned, Flow
    <3>2. slab'[e.op.slot] = slab[e.op.slot]
      BY <2>3, <3>1
    <3> QED
      BY <2>0, <2>3, <3>1, <3>2 DEF DoneFlow
  <2> QED
    BY <2>1, <2>2, <2>3
<1>8. \A i \in DOMAIN inflight' : OpFlow(inflight'[i], slab', read, Views)
  BY <1>3, <1>6 DEF From
<1>9. \A c \in waiting' : Fresh(c, read', got')
  BY <1>4 DEF Flow
<1>10. \A i \in DOMAIN cq' : Arrived(cq'[i]) => Fresh(cq'[i].res.val.client, read', got')
  BY <1>2, <1>4 DEF Flow
<1> QED
  BY <1>4, <1>5, <1>7, <1>8, <1>9, <1>10 DEF Flow, Arrived, Failure

\* A handler whose connection waits for nothing else.
LEMMA FlowAlone ==
    ASSUME NEW s, Handling(s), Flow, Awaited(slab[s]) = 1, UNCHANGED world,
           NEW c1, slab' = [slab EXCEPT ![s] = c1],
           NEW ops, IsSequence(ops), inflight' = inflight \o ops,
           \A i \in DOMAIN ops : OpFlow(ops[i], slab', read, Views)
    PROVE  Flow'
<1>1. RingInv /\ cq # << >> /\ cq' = Tail(cq) /\ IsSequence(cq) /\ IsSequence(inflight)
  BY DEF Handling, RingInv, Shapes
<1>2. s \in DOMAIN slab /\ ForSlot(cq[1].op, s)
  BY CompletionOwner DEF Handling
<1>3. Cardinality(Submitted(s)) + Cardinality(Unhandled(s)) = 1
  BY <1>1, <1>2 DEF RingInv, Counts
<1>4. /\ \A i \in DOMAIN inflight : ~ForSlot(inflight[i], s)
      /\ \A i \in DOMAIN cq' : ~ForSlot(cq'[i].op, s)
  BY <1>1, <1>2, <1>3, LastOne
<1>5. \A t \in DOMAIN slab : t \notin {s} => slab'[t] = slab[t]
  BY <1>2
<1>6. \A i \in DOMAIN inflight :
         inflight[i].type # "Accept" /\ inflight[i].slot \in {s} => OpFlow(inflight[i], slab', read, Views)
  BY <1>4 DEF ForSlot
<1>7. \A i \in DOMAIN cq' :
         cq'[i].op.type # "Accept" /\ cq'[i].op.slot \in {s} => DoneFlow(cq'[i], slab', read, Views)
  BY <1>4 DEF ForSlot
<1> QED
  BY <1>1, <1>5, <1>6, <1>7, FlowStep

\* The connection goes on with one operation.
LEMMA OneFlow ==
    ASSUME NEW s, Handling(s), Flow, Awaited(slab[s]) = 1, UNCHANGED world,
           NEW c, c = slab[s].client, NEW c1, NEW c2, c2.client = c, NEW type,
           Continue(s, c1, <<ConnOp(type, s, c2)>>), running',
           type = "Read" => ReadPoint(c1, read[c], Views[c]),
           type = "Write" => WritePoint(c1, read[c], 0, Views[c]),
           type \notin KtlsOps
    PROVE  Flow'
<1>1. PICK op : op = ConnOp(type, s, c2)
  OBVIOUS
<1>2. op.type = type /\ op.slot = s /\ op.client = c
  BY <1>1 DEF ConnOp, Op
<1>3. slab' = [slab EXCEPT ![s] = c1] /\ inflight' = inflight \o <<op>>
  BY <1>1 DEF Continue, Submit, Stops
<1>4. s \in DOMAIN slab
  BY HandlingFacts
<1>5. slab'[s] = c1
  BY <1>3, <1>4
<1>6. OpFlow(op, slab', read, Views)
  BY <1>2, <1>5 DEF OpFlow, OpPoint
<1>7. IsSequence(<<op>>) /\ \A i \in DOMAIN <<op>> : OpFlow(<<op>>[i], slab', read, Views)
  BY <1>6, Singles
<1> QED
  BY <1>3, <1>7, FlowAlone

LEMMA CloseFlow ==
    ASSUME NEW s, Handling(s), Flow, Awaited(slab[s]) = 1, UNCHANGED world,
           NEW conn, conn.client = slab[s].client, CloseConnection(s, conn), running'
    PROVE  Flow'
<1>1. Continue(s, conn, <<ConnOp("Close", s, conn)>>)
  BY DEF CloseConnection
<1>2. "Close" \notin KtlsOps
  BY DEF KtlsOps
<1> QED
  BY <1>1, <1>2, OneFlow

LEMMA NextWriteFlow ==
    ASSUME NEW s, Handling(s), Flow, Awaited(slab[s]) = 1, UNCHANGED world,
           NEW c, c = slab[s].client, NEW conn, IsConnection(conn), conn.client = c,
           NEW N, Ready(conn, read[c], Views[c], N), NextWrite(s, conn), running'
    PROVE  Flow'
<1>0. "Read" \notin KtlsOps /\ "Write" \notin KtlsOps
  BY DEF KtlsOps
<1>1. CASE conn.pending # << >>
  <2> DEFINE next == Head(conn.pending)
             c1 == [conn EXCEPT !.pending = Tail(@), !.write = next.parts,
                                !.state = IF next.keep THEN "Writing" ELSE "Closing"]
  <2>1. Continue(s, c1, <<ConnOp("Write", s, c1)>>)
    BY <1>1 DEF NextWrite
  <2>2. /\ c1.count = conn.count /\ c1.decoder = conn.decoder /\ c1.client = c
        /\ c1.pending = Tail(conn.pending) /\ c1.write = Head(conn.pending).parts
        /\ c1.state = IF Head(conn.pending).keep THEN "Writing" ELSE "Closing"
    BY DEF IsConnection, ConnFields
  <2> HIDE DEF c1
  <2>3. WritePoint(c1, read[c], 0, Views[c])
    BY <1>1, <2>2, SendNext
  <2> QED
    BY <1>0, <2>1, <2>2, <2>3, OneFlow
<1>2. CASE conn.pending = << >>
  <2> DEFINE c1 == [conn EXCEPT !.state = "Reading"]
  <2>1. Continue(s, c1, <<ConnOp("Read", s, conn)>>)
    BY <1>2 DEF NextWrite
  <2>2. SameWork(c1, conn) /\ c1.write = conn.write /\ c1.state = "Reading"
    BY DEF IsConnection, ConnFields, SameWork
  <2> HIDE DEF c1
  <2>3. ReadPoint(c1, read[c], Views[c])
    BY <1>2, <2>2, ReadNext
  <2> QED
    BY <1>0, <2>1, <2>3, OneFlow
<1> QED
  BY <1>1, <1>2

LEMMA HandOffFlow ==
    ASSUME NEW s, Handling(s), Flow, Awaited(slab[s]) = 1, UNCHANGED world,
           NEW c, c = slab[s].client, NEW conn, IsConnection(conn), conn.client = c,
           IsScript(Views[c].sc), Handshake(conn, read[c], Views[c]), ~(read[c] < 2),
           conn.write = << >>, HandOff(s, conn), running'
    PROVE  Flow'
<1> DEFINE d == DecodeLoop(conn.decoder \o conn.plaintext, conn.count)
           c1 == [Decoded(conn, d) EXCEPT !.plaintext = << >>]
           c2 == [c1 EXCEPT !.state = "EnablingKtls", !.ktls = 3]
           x == ConnOp("TCP_ULP", s, conn)
           y == ConnOp("TLS_TX", s, conn)
           z == ConnOp("TLS_RX", s, conn)
           ops == <<x, y, z>>
<1>1. IF d.failed THEN CloseConnection(s, c1) ELSE Continue(s, c2, ops)
  BY DEF HandOff
<1>2. PICK e : e = d
  OBVIOUS
<1> HIDE DEF d
<1>3. /\ c1.client = c /\ c2.pending = conn.pending \o e.out /\ c2.decoder = e.rest
      /\ c2.count = e.count /\ c2.write = conn.write
  BY <1>2 DEF Decoded, IsConnection, ConnFields
<1> HIDE DEF c1, c2
<1>4. CASE d.failed
  BY <1>1, <1>3, <1>4, CloseFlow
<1>5. CASE ~d.failed
  <2>1. Ready(c2, read[c], Views[c], 0)
    <3>1. e = DecodeLoop(conn.decoder \o conn.plaintext, conn.count) /\ ~e.failed
      BY <1>2, <1>5 DEF d
    <3> QED
      BY <1>3, <3>1, HandOffReady
  <2>2. slab' = [slab EXCEPT ![s] = c2] /\ inflight' = inflight \o ops
    BY <1>1, <1>5 DEF Continue, Submit, Stops
  <2>3. slab'[s] = c2
    BY <2>2, HandlingFacts
  <2>4. /\ x.slot = s /\ y.slot = s /\ z.slot = s
        /\ x.client = c /\ y.client = c /\ z.client = c
        /\ x.type \in KtlsOps /\ y.type \in KtlsOps /\ z.type \in KtlsOps
    BY DEF ConnOp, Op, KtlsOps
  <2> HIDE DEF x, y, z
  <2>5. \A op : op.slot = s /\ op.client = c /\ op.type \in KtlsOps => OpFlow(op, slab', read, Views)
    BY <2>1, <2>3 DEF OpFlow, OpPoint, KtlsPoint, KtlsOps
  <2>6. OpFlow(x, slab', read, Views) /\ OpFlow(y, slab', read, Views) /\ OpFlow(z, slab', read, Views)
    BY <2>4, <2>5
  <2>7. ops \in Seq({x, y, z}) /\ DOMAIN ops = {1, 2, 3} /\ ops[1] = x /\ ops[2] = y /\ ops[3] = z
    OBVIOUS
  <2>8. IsSequence(ops)
    BY <2>7, IsSequenceIntro
  <2> HIDE DEF ops
  <2>9. \A i \in DOMAIN ops : OpFlow(ops[i], slab', read, Views)
    BY <2>6, <2>7
  <2> QED
    BY <2>2, <2>8, <2>9, FlowAlone
<1> QED
  BY <1>4, <1>5

-----------------------------------------------------------------------------
(* The handlers.                                                           *)

\* What is known when the completion of the connection in slot s is handled.
LEMMA HandledPoint ==
    ASSUME NEW s, Handling(s), Flow, Traffic, NEW c, c = slab[s].client
    PROVE  /\ DonePoint(Head(cq), slab[s], read[c], Views[c])
           /\ c \in Clients /\ read[c] \in Nat /\ IsScript(Views[c].sc)
<1>1. /\ Head(cq) = cq[1] /\ 1 \in DOMAIN cq /\ cq[1].op.type # "Accept" /\ cq[1].op.slot = s
      /\ s \in DOMAIN slab /\ IsConnection(slab[s])
  BY CompletionOwner DEF Handling
<1>2. cq[1].op.client = c
  BY <1>1 DEF Handling, RingInv, Ownership, Owned
<1>3. DoneFlow(cq[1], slab, read, Views)
  BY <1>1 DEF Flow
<1>4. c \in Clients
  BY <1>1 DEF IsConnection
<1>5. Views[c].sc = script[c] /\ read[c] \in Nat /\ IsScript(script[c])
  BY <1>4 DEF Views, Traffic, InOrder
<1> QED
  BY <1>1, <1>2, <1>3, <1>4, <1>5 DEF DoneFlow

LEMMA TlsReadFlow ==
    ASSUME RingInv, Flow, Traffic, TlsRead, running'
    PROVE  Flow'
<1>0. ForConnection({"Read"}) /\ Head(cq).res.kind = "ok" /\ UNCHANGED world
  BY Zenon DEF TlsRead, ForConnection
<1> DEFINE s == Head(cq).op.slot
           data == Head(cq).res.val
           has(x) == \E i \in DOMAIN data : data[i] = x
           finished == ~slab[s].handshaking \/ has("finished")
           app == IF Head(data) \in {"hello", "finished"} THEN Tail(data) ELSE data
           c1 == [slab[s] EXCEPT !.handshaking = ~finished, !.plaintext = @ \o app]
           c2 == [c1 EXCEPT !.write = <<Flight>>, !.state = "HandshakeWriting"]
           c3 == [c1 EXCEPT !.state = "HandshakeReading"]
<1>1. Handling(s) /\ Head(cq).op.type = "Read"
  BY <1>0, ForConnectionFacts
<1>2. slab[s].state \in {"HandshakeReading", "HandshakeWriting"}
  BY DEF TlsRead
<1>3. IsConnection(slab[s]) /\ Awaited(slab[s]) = 1 /\ slab[s].state = "HandshakeReading"
  BY <1>1, <1>2, HandlingFacts DEF Fits, KtlsOps
<1>4. IF ~finished /\ has("bad") THEN CloseConnection(s, slab[s])
      ELSE IF has("hello") \/ (has("finished") /\ c1.client \in Tickets)
      THEN Continue(s, c2, <<ConnOp("Write", s, c1)>>)
      ELSE IF finished THEN HandOff(s, c1)
      ELSE Continue(s, c3, <<ConnOp("Read", s, c1)>>)
  BY DEF TlsRead
<1>5. PICK c : c = slab[s].client
  OBVIOUS
<1>6. PICK r, v : r = read[c] /\ v = Views[c]
  OBVIOUS
<1>7. DonePoint(Head(cq), slab[s], r, v) /\ IsScript(v.sc) /\ r \in Nat
  BY <1>1, <1>5, <1>6, HandledPoint
<1>8. PICK q \in Nat : ReadTo(slab[s], data, q, r, v)
  BY <1>0, <1>1, <1>7 DEF DonePoint
<1>9. slab[s].handshaking = TRUE
  <2>1. Handshake(slab[s], q, v) /\ q < 2
    BY <1>3, <1>8 DEF ReadTo, ReadPoint
  <2> QED
    BY <2>1 DEF Handshake
<1>10. finished = Has(data, "finished") /\ \A x : has(x) <=> Has(data, x)
  BY <1>9 DEF Has
<1>11. /\ IsConnection(c1) /\ c1.client = c /\ SameWork(c1, slab[s]) /\ c1.handshaking = ~finished
       /\ c1.plaintext = slab[s].plaintext \o app /\ c1.write = slab[s].write
  <2> HIDE DEF finished, app
  <2> QED
    BY <1>3, <1>5 DEF IsConnection, ConnFields, ConnStates, SameWork
<1>13. /\ slab[s].write = << >>
       /\ \/ ~Has(data, "finished") /\ Has(data, "bad")
          \/ Has(data, "hello") /\ Handshake(c1, r, v) /\ 1 <= r
          \/ Has(data, "finished") /\ Handshake(c1, r, v) /\ 1 <= r /\ ~(r < 2)
  <2> HIDE DEF c1, data, s, has
  <2>1. PICK k1 : k1 = c1
    OBVIOUS
  <2>2. SameWork(k1, slab[s]) /\ k1.handshaking = ~Has(data, "finished") /\ k1.plaintext = slab[s].plaintext \o app
    BY <1>10, <1>11, <2>1
  <2> QED
    BY <1>3, <1>7, <1>8, <2>1, <2>2, AfterTlsRead
<1> HIDE DEF s, data
<1>14. /\ ~Has(data, "finished") /\ Has(data, "bad") => CloseConnection(s, slab[s])
       /\ ~(~Has(data, "finished") /\ Has(data, "bad")) =>
             \/ Continue(s, c2, <<ConnOp("Write", s, c1)>>)
             \/ Has(data, "finished") /\ ~Has(data, "hello") /\ HandOff(s, c1)
             \/ ~Has(data, "hello") /\ ~Has(data, "finished")
  <2> HIDE DEF c1, c2, c3, finished, has
  <2> QED
    BY <1>4, <1>10, Zenon
<1> HIDE DEF c1
<1>15. c2.state = "HandshakeWriting" /\ c2.write = <<Flight>> /\ SameWork(c2, c1) /\ c2.handshaking = c1.handshaking
       /\ c2.plaintext = c1.plaintext
  BY <1>11 DEF IsConnection, ConnFields, SameWork
<1> HIDE DEF c2
<1>16. CASE ~Has(data, "finished") /\ Has(data, "bad")
  BY <1>0, <1>1, <1>3, <1>14, <1>16, CloseFlow
<1>17. CASE Continue(s, c2, <<ConnOp("Write", s, c1)>>) /\ ~(~Has(data, "finished") /\ Has(data, "bad"))
  <2>1. Handshake(c1, r, v) /\ 1 <= r
    BY <1>13, <1>17
  <2>2. Handshake(c2, r, v)
    BY <1>15, <2>1 DEF Handshake, SameWork
  <2>3. WritePoint(c2, r, 0, v)
    BY <1>15, <2>1, <2>2 DEF WritePoint
  <2>4. "Write" \notin KtlsOps
    BY DEF KtlsOps
  <2> QED
    BY <1>0, <1>1, <1>3, <1>5, <1>6, <1>11, <1>17, <2>3, <2>4, OneFlow
<1>18. CASE Has(data, "finished") /\ ~Has(data, "hello") /\ HandOff(s, c1)
  <2>1. Handshake(c1, r, v) /\ ~(r < 2)
    BY <1>13, <1>18
  <2> QED
    BY <1>0, <1>1, <1>3, <1>5, <1>6, <1>7, <1>11, <1>13, <1>18, <2>1, HandOffFlow
<1> QED
  BY <1>13, <1>14, <1>16, <1>17, <1>18, Zenon

LEMMA HttpReadFlow ==
    ASSUME RingInv, Flow, Traffic, HttpRead, running'
    PROVE  Flow'
<1>0. ForConnection({"Read"}) /\ Head(cq).res.kind = "ok" /\ UNCHANGED world
  BY Zenon DEF HttpRead, ForConnection
<1> DEFINE s == Head(cq).op.slot
           data == Head(cq).res.val
           d == DecodeLoop(slab[s].decoder \o data, slab[s].count)
<1>1. Handling(s) /\ Head(cq).op.type = "Read"
  BY <1>0, ForConnectionFacts
<1>2. slab[s].state = "Reading"
  BY DEF HttpRead
<1>3. IsConnection(slab[s]) /\ Awaited(slab[s]) = 1
  BY <1>1, <1>2, HandlingFacts
<1>4. NextWrite(s, Decoded(slab[s], d)) /\ ~d.failed
  BY DEF HttpRead, Stops
<1>5. PICK c : c = slab[s].client
  OBVIOUS
<1>6. PICK r, v : r = read[c] /\ v = Views[c]
  OBVIOUS
<1>7. DonePoint(Head(cq), slab[s], r, v) /\ IsScript(v.sc)
  BY <1>1, <1>5, <1>6, HandledPoint
<1>8. PICK q \in Nat : ReadTo(slab[s], data, q, r, v)
  BY <1>0, <1>1, <1>7 DEF DonePoint
<1>9. PICK e, c1 : e = DecodeLoop(slab[s].decoder \o data, slab[s].count) /\ c1 = Decoded(slab[s], e)
  OBVIOUS
<1>10. NextWrite(s, c1) /\ ~e.failed
  BY <1>4, <1>9
<1>11. IsConnection(c1) /\ c1.client = c
  BY <1>3, <1>5, <1>9, DecodedFacts
<1> HIDE DEF s, data, d
<1>12. /\ c1.pending = slab[s].pending \o e.out /\ c1.decoder = e.rest
       /\ c1.count = e.count /\ c1.write = slab[s].write
  BY <1>3, <1>9 DEF Decoded, IsConnection, ConnFields
<1>13. PICK N : N = slab[s].count
  OBVIOUS
<1>14. Ready(c1, r, v, N)
  BY <1>2, <1>7, <1>8, <1>9, <1>10, <1>12, <1>13, HttpReady
<1> QED
  BY <1>0, <1>1, <1>3, <1>5, <1>6, <1>10, <1>11, <1>14, NextWriteFlow

LEMMA WrittenFlow ==
    ASSUME RingInv, Flow, Traffic, Written, running'
    PROVE  Flow'
<1>0. ForConnection({"Write"}) /\ Head(cq).res.kind = "ok" /\ UNCHANGED world
  BY Zenon DEF Written, ForConnection
<1> DEFINE s == Head(cq).op.slot
           n == Head(cq).res.val
           c1 == [slab[s] EXCEPT !.write = SubSeq(@, n + 1, Len(@))]
           c2 == [c1 EXCEPT !.state = "HandshakeReading"]
           c3 == [c1 EXCEPT !.pending = << >>]
<1>1. Handling(s) /\ Head(cq).op.type = "Write"
  BY <1>0, ForConnectionFacts
<1>2. slab[s].state \in {"HandshakeWriting", "Writing", "Closing"}
  BY <1>1, HandlingFacts DEF Fits, KtlsOps
<1>3. IsConnection(slab[s]) /\ Awaited(slab[s]) = 1
  BY <1>1, <1>2, HandlingFacts
<1>4. IF c1.write # << >> THEN Continue(s, c1, <<ConnOp("Write", s, c1)>>)
      ELSE CASE c1.state = "HandshakeWriting" ->
                  IF c1.handshaking THEN Continue(s, c2, <<ConnOp("Read", s, c1)>>) ELSE HandOff(s, c1)
             [] c1.state = "Writing" -> NextWrite(s, c1)
             [] c1.state = "Closing" -> CloseConnection(s, c3)
             [] OTHER -> Continue(s, c1, << >>)
  BY DEF Written
<1>5. PICK c : c = slab[s].client
  OBVIOUS
<1>6. PICK r, v : r = read[c] /\ v = Views[c]
  OBVIOUS
<1>7. DonePoint(Head(cq), slab[s], r, v) /\ IsScript(v.sc) /\ r \in Nat
  BY <1>1, <1>5, <1>6, HandledPoint
<1>8. n \in 1..Len(slab[s].write) /\ WritePoint(slab[s], r, n, v)
  BY <1>0, <1>1, <1>7 DEF DonePoint
<1> HIDE DEF s, n
<1>9. /\ IsConnection(c1) /\ c1.client = c /\ c1.state = slab[s].state /\ SameWork(c1, slab[s])
      /\ c1.handshaking = slab[s].handshaking /\ c1.plaintext = slab[s].plaintext
      /\ c1.write = SubSeq(slab[s].write, n + 1, Len(slab[s].write))
  BY <1>3, <1>5 DEF IsConnection, ConnFields, ConnStates, SameWork
<1>10. "Read" \notin KtlsOps /\ "Write" \notin KtlsOps
  BY DEF KtlsOps
<1> HIDE DEF c1
<1>11. CASE slab[s].state = "HandshakeWriting"
  <2>1. Handshake(slab[s], r, v) /\ 1 <= r /\ slab[s].write = <<Flight>>
    BY <1>8, <1>11 DEF WritePoint
  <2>2. c1.write = << >>
    <3>1. n = 1
      BY <1>8, <2>1, FlightType
    <3>2. c1.write = SubSeq(<<Flight>>, 2, 1)
      BY <1>9, <2>1, <3>1, FlightType
    <3>3. Len(SubSeq(<<Flight>>, 2, 1)) = 0 /\ SubSeq(<<Flight>>, 2, 1) \in Seq(Parts)
      BY FlightType, Slice
    <3> QED
      BY <3>2, <3>3, EmptySeq
  <2>3. Handshake(c1, r, v)
    BY <1>9, <2>1 DEF Handshake, SameWork
  <2>4. IF c1.handshaking THEN Continue(s, c2, <<ConnOp("Read", s, c1)>>) ELSE HandOff(s, c1)
    <3> HIDE DEF c2, c3
    <3> QED
      BY <1>4, <1>9, <1>11, <2>2
  <2>5. CASE c1.handshaking
    <3>1. /\ c2.state = "HandshakeReading" /\ SameWork(c2, c1) /\ c2.handshaking = c1.handshaking
          /\ c2.plaintext = c1.plaintext /\ c2.write = c1.write
      BY <1>9 DEF IsConnection, ConnFields, SameWork
    <3> HIDE DEF c2
    <3>2. Handshake(c2, r, v)
      BY <2>3, <3>1 DEF Handshake, SameWork
    <3>3. c1.handshaking = (r < 2)
      BY <2>3 DEF Handshake
    <3>4. r < 2
      BY <2>5, <3>3, Zenon
    <3>5. ReadPoint(c2, r, v)
      BY <2>1, <2>2, <3>1, <3>2, <3>4 DEF ReadPoint
    <3>6. Continue(s, c2, <<ConnOp("Read", s, c1)>>)
      BY <2>4, <2>5
    <3> QED
      BY <1>0, <1>1, <1>3, <1>5, <1>6, <1>9, <1>10, <3>5, <3>6, OneFlow
  <2>6. CASE ~c1.handshaking
    <3>1. c1.handshaking = (r < 2)
      BY <2>3 DEF Handshake
    <3>2. ~(r < 2)
      BY <2>6, <3>1, Zenon
    <3> QED
      BY <1>0, <1>1, <1>3, <1>5, <1>6, <1>7, <1>9, <2>2, <2>3, <2>4, <2>6, <3>2, HandOffFlow
  <2> QED
    BY <2>5, <2>6
<1>12. CASE slab[s].state \in {"Writing", "Closing"}
  <2>1. PICK N \in Nat : Responding(slab[s], r, n, v, N)
    BY <1>8, <1>12 DEF WritePoint
  <2>2. /\ c1.write # << >> => Responding(c1, r, 0, v, N)
        /\ c1.write = << >> /\ c1.state = "Writing" => Ready(c1, r, v, N)
    BY <1>8, <1>9, <2>1, AfterWrite
  <2>3. CASE c1.write # << >>
    <3>1. Continue(s, c1, <<ConnOp("Write", s, c1)>>)
      BY <1>4, <2>3
    <3>2. WritePoint(c1, r, 0, v)
      BY <1>9, <1>12, <2>2, <2>3 DEF WritePoint
    <3> QED
      BY <1>0, <1>1, <1>3, <1>5, <1>6, <1>9, <1>10, <3>1, <3>2, OneFlow
  <2>4. CASE c1.write = << >> /\ c1.state = "Writing"
    <3>1. NextWrite(s, c1)
      BY <1>4, <2>4
    <3> QED
      BY <1>0, <1>1, <1>3, <1>5, <1>6, <1>9, <2>2, <2>4, <3>1, NextWriteFlow
  <2>5. CASE c1.write = << >> /\ c1.state = "Closing"
    <3>1. c3.client = c1.client
      BY <1>9 DEF IsConnection, ConnFields
    <3> HIDE DEF c3
    <3>2. CloseConnection(s, c3)
      BY <1>4, <2>5
    <3> QED
      BY <1>0, <1>1, <1>3, <1>5, <1>9, <3>1, <3>2, CloseFlow
  <2> QED
    BY <1>9, <1>12, <2>3, <2>4, <2>5
<1> QED
  BY <1>2, <1>11, <1>12

LEMMA OptionSetFlow ==
    ASSUME RingInv, Flow, Traffic, OptionSet, running'
    PROVE  Flow'
<1>0. ForConnection(KtlsOps) /\ Head(cq).res.kind = "ok" /\ UNCHANGED world
  BY Zenon DEF OptionSet, ForConnection
<1> DEFINE s == Head(cq).op.slot
           c1 == [slab[s] EXCEPT !.ktls = @ - 1]
<1>1. Handling(s) /\ Head(cq).op.type \in KtlsOps
  BY <1>0, ForConnectionFacts DEF KtlsOps
<1>2. slab[s].state = "EnablingKtls"
  BY <1>1, HandlingFacts DEF Fits, KtlsOps
<1>3. s \in DOMAIN slab /\ IsConnection(slab[s]) /\ Awaited(slab[s]) = slab[s].ktls /\ slab[s].ktls \in Nat \ {0}
  BY <1>1, <1>2, HandlingFacts
<1>4. IF c1.ktls = 0 THEN NextWrite(s, c1) ELSE Continue(s, c1, << >>)
  BY DEF OptionSet
<1>5. PICK c : c = slab[s].client
  OBVIOUS
<1>6. PICK r, v : r = read[c] /\ v = Views[c]
  OBVIOUS
<1>7. DonePoint(Head(cq), slab[s], r, v)
  BY <1>1, <1>5, <1>6, HandledPoint
<1>8. Ready(slab[s], r, v, 0)
  BY <1>0, <1>1, <1>7 DEF DonePoint, KtlsPoint
<1> HIDE DEF s
<1>9. /\ IsConnection(c1) /\ c1.client = c /\ SameWork(c1, slab[s]) /\ c1.write = slab[s].write
      /\ c1.ktls = slab[s].ktls - 1
  BY <1>3, <1>5 DEF IsConnection, ConnFields, ConnStates, SameWork
<1> HIDE DEF c1
<1>10. Ready(c1, r, v, 0)
  BY <1>8, <1>9 DEF Ready, Serving, SameWork
<1>11. CASE c1.ktls = 0
  <2>1. Awaited(slab[s]) = 1
    BY <1>3, <1>9, <1>11
  <2> QED
    BY <1>0, <1>1, <1>4, <1>5, <1>6, <1>9, <1>10, <1>11, <2>1, NextWriteFlow
<1>12. CASE c1.ktls # 0
  <2>1. slab' = [slab EXCEPT ![s] = c1] /\ inflight' = inflight \o << >>
    BY <1>4, <1>12 DEF Continue, Submit, Stops
  <2>2. slab'[s] = c1 /\ \A t \in DOMAIN slab : t \notin {s} => slab'[t] = slab[t]
    BY <1>3, <2>1
  <2>3. RingInv /\ cq # << >> /\ cq' = Tail(cq) /\ IsSequence(cq)
    BY <1>1 DEF Handling, RingInv, Shapes
  <2>4. \A i \in DOMAIN cq' : i + 1 \in DOMAIN cq /\ cq'[i] = cq[i + 1]
    BY <2>3, Handles
  <2>5. ASSUME NEW op, Owned(op, slab), op.type # "Accept", op.slot \in {s}
        PROVE  op.client = c /\ op.type \in KtlsOps /\ op.slot = s /\ op.type \notin {"Read", "Write"}
    BY <1>2, <1>5, <2>5 DEF Owned, Fits, KtlsOps
  <2>6. \A i \in DOMAIN inflight :
           inflight[i].type # "Accept" /\ inflight[i].slot \in {s} => OpFlow(inflight[i], slab', read, Views)
    <3>1. SUFFICES ASSUME NEW i \in DOMAIN inflight, NEW op, op = inflight[i], op.type # "Accept", op.slot \in {s}
                   PROVE  OpFlow(op, slab', read, Views)
      OBVIOUS
    <3>2. Owned(op, slab)
      BY <3>1 DEF RingInv, Ownership
    <3>3. op.client = c /\ op.type \in KtlsOps /\ op.slot = s /\ op.type \notin {"Read", "Write"}
      BY <2>5, <3>1, <3>2
    <3> QED
      BY <1>6, <1>10, <2>2, <3>3 DEF OpFlow, OpPoint, KtlsPoint
  <2>7. \A i \in DOMAIN cq' :
           cq'[i].op.type # "Accept" /\ cq'[i].op.slot \in {s} => DoneFlow(cq'[i], slab', read, Views)
    <3>1. SUFFICES ASSUME NEW i \in DOMAIN cq', NEW e, e = cq'[i], e.op.type # "Accept", e.op.slot \in {s}
                   PROVE  DoneFlow(e, slab', read, Views)
      OBVIOUS
    <3>2. Owned(e.op, slab)
      BY <2>4, <3>1 DEF RingInv, Ownership
    <3>3. e.op.client = c /\ e.op.type \in KtlsOps /\ e.op.slot = s /\ e.op.type \notin {"Read", "Write"}
      BY <2>5, <3>1, <3>2
    <3> QED
      BY <1>6, <1>10, <2>2, <3>3 DEF DoneFlow, DonePoint, KtlsPoint
  <2>8. << >> \in Seq({}) /\ DOMAIN << >> = {}
    OBVIOUS
  <2>9. PICK ops : ops = << >>
    OBVIOUS
  <2>10. IsSequence(ops) /\ \A i \in DOMAIN ops : OpFlow(ops[i], slab', read, Views)
    BY <2>8, <2>9, IsSequenceIntro
  <2>11. inflight' = inflight \o ops
    BY <2>1, <2>9
  <2> QED
    BY <1>0, <2>2, <2>3, <2>6, <2>7, <2>10, <2>11, FlowStep
<1> QED
  BY <1>11, <1>12

LEMMA OperationFailedFlow ==
    ASSUME RingInv, Flow, OperationFailed, running'
    PROVE  Flow'
<1> DEFINE s == Head(cq).op.slot
<1>0. ForConnection({"Read", "Write"} \cup KtlsOps) /\ UNCHANGED world
  BY Zenon DEF OperationFailed, ForConnection
<1>1. Handling(s) /\ Head(cq).op.type \in {"Read", "Write"} \cup KtlsOps
  BY <1>0, ForConnectionFacts DEF KtlsOps
<1>2. Head(cq).res.kind # "ok" /\ CloseConnection(s, slab[s])
  BY DEF OperationFailed
<1>3. Head(cq).op.type \notin KtlsOps
  BY <1>1, <1>2, CompletionOwner DEF Handling
<1>4. Awaited(slab[s]) = 1
  <2>1. Fits(Head(cq).op.type, slab[s].state) /\ Head(cq).op.type # "Close"
    BY <1>1, <1>3, HandlingFacts
  <2>2. slab[s].state # "EnablingKtls"
    BY <1>3, <2>1 DEF Fits
  <2> QED
    BY <1>1, <2>2, HandlingFacts
<1> QED
  BY <1>0, <1>1, <1>2, <1>4, CloseFlow

LEMMA RemovedFlow ==
    ASSUME RingInv, Flow, Removed
    PROVE  Flow'
<1> DEFINE s == Head(cq).op.slot
<1>1. /\ Handling(s) /\ Head(cq).op.type = "Close" /\ inflight' = inflight /\ UNCHANGED world
      /\ slab' = [slab EXCEPT ![s] = Vacant]
  BY DEF Removed, Completion, Completed, Handling, world
<1>2. Awaited(slab[s]) = 1
  <2>1. Fits("Close", slab[s].state)
    BY <1>1, HandlingFacts
  <2>2. slab[s].state # "EnablingKtls"
    BY <2>1 DEF Fits, KtlsOps
  <2> QED
    BY <1>1, <2>2, HandlingFacts
<1>3. << >> \in Seq({}) /\ DOMAIN << >> = {} /\ inflight \in Seq(Range(inflight))
  BY DEF RingInv, Shapes, IsSequence
<1>4. PICK ops : ops = << >>
  OBVIOUS
<1>5. inflight' = inflight \o ops
  BY <1>1, <1>3, <1>4, ConcatEmptySeq
<1>6. IsSequence(ops) /\ \A i \in DOMAIN ops : OpFlow(ops[i], slab', read, Views)
  BY <1>3, <1>4, IsSequenceIntro
<1> QED
  BY <1>1, <1>2, <1>5, <1>6, FlowAlone

LEMMA AcceptFailedFlow ==
    ASSUME RingInv, Flow, AcceptFailed, running'
    PROVE  Flow'
<1>1. /\ cq # << >> /\ cq' = Tail(cq) /\ UNCHANGED world
      /\ slab' = slab /\ inflight' = inflight \o <<NextAccept>>
  BY DEF AcceptFailed, Completion, Completed, Submit, Stops, NextAccept
<1>2. PICK ops : ops = <<NextAccept>>
  OBVIOUS
<1>3. IsSequence(ops) /\ \A i \in DOMAIN ops : OpFlow(ops[i], slab', read, Views)
  BY <1>2, Singles, AcceptIsFree DEF OpFlow
<1>7. PICK T : T = {}
  OBVIOUS
<1>4. \A t \in DOMAIN slab : t \notin T => slab'[t] = slab[t]
  BY <1>1
<1>5. /\ \A i \in DOMAIN inflight : inflight[i].type # "Accept" /\ inflight[i].slot \in T =>
            OpFlow(inflight[i], slab', read, Views)
      /\ \A i \in DOMAIN cq' : cq'[i].op.type # "Accept" /\ cq'[i].op.slot \in T =>
            DoneFlow(cq'[i], slab', read, Views)
  BY <1>7
<1>6. inflight' = inflight \o ops
  BY <1>1, <1>2
<1> QED
  BY <1>1, <1>3, <1>4, <1>5, <1>6, FlowStep

LEMMA NewPoint ==
    ASSUME NEW c \in Clients, NEW fd, Fresh(c, read, got)
    PROVE  ReadPoint(Connection(c, fd), read[c], Views[c])
<1>1. PICK v : v = Views[c]
  OBVIOUS
<1>2. v.got = << >> /\ read[c] = 0
  BY <1>1 DEF Fresh, Views
<1>3. Reach(v, 0)
  <2>1. Delivered(v.sc, v.got, 0, 0) /\ 0 \in Nat
    BY <1>2, NothingDelivered
  <2> QED
    BY <2>1 DEF Reach
<1>4. PICK conn : conn = Connection(c, fd)
  OBVIOUS
<1>5. /\ conn.state = "HandshakeReading" /\ conn.handshaking = TRUE /\ conn.plaintext = << >>
      /\ conn.decoder = << >> /\ conn.write = << >> /\ conn.pending = << >> /\ conn.count = 0
  BY <1>4 DEF Connection
<1>6. 0 < 2
  OBVIOUS
<1>7. Handshake(conn, 0, v)
  BY <1>3, <1>5, <1>6 DEF Handshake
<1>8. ReadPoint(conn, 0, v)
  BY <1>2, <1>5, <1>6, <1>7 DEF ReadPoint
<1> QED
  BY <1>1, <1>2, <1>4, <1>8

LEMMA AcceptedFlow ==
    ASSUME RingInv, Flow, Accepted, running'
    PROVE  Flow'
<1> DEFINE e == Head(cq)
           s == Head(vacant)
           c == e.res.val.client
           conn == Connection(c, e.res.val.fd)
           rd == ConnOp("Read", s, conn)
<1>1. /\ cq # << >> /\ cq' = Tail(cq) /\ e.op.type = "Accept" /\ e.res # Failure
      /\ slab' = [slab EXCEPT ![s] = conn] /\ UNCHANGED world
      /\ inflight' = inflight \o <<NextAccept, rd>>
  BY DEF Accepted, Completion, Completed, Submit, Stops, NextAccept
<1>2. IsSequence(inflight) /\ IsSequence(cq) /\ DOMAIN slab = Range(Slots)
  BY DEF RingInv, Shapes
<1>3. /\ e = cq[1] /\ 1 \in DOMAIN cq
      /\ \A i \in DOMAIN cq' : i + 1 \in DOMAIN cq /\ cq'[i] = cq[i + 1]
  BY <1>1, <1>2, Handles
<1> HIDE DEF e
<1>4. Arrived(cq[1])
  BY <1>1, <1>3 DEF Arrived
<1>5. c \in Clients /\ Fresh(c, read, got)
  BY <1>3, <1>4 DEF RingInv, Apart, Flow
<1>6. vacant # << >> /\ vacant \in Seq(Range(Slots)) /\ Distinct(vacant)
  BY <1>3, <1>4, SlotLeft DEF RingInv, Vacancy, Distinct
<1>7. s \in Range(vacant)
  BY <1>6, DropFirst
<1>8. s \in DOMAIN slab /\ slab[s] = Vacant
  <2>1. Range(vacant) \subseteq Range(Slots)
    <3>1. \A i \in DOMAIN vacant : vacant[i] \in Range(Slots)
      BY <1>6, LenProperties, ElementOfSeq
    <3> QED
      BY <3>1 DEF Range
  <2> QED
    BY <1>2, <1>7, <2>1 DEF RingInv, Vacancy
<1> HIDE DEF s, c
<1>9. conn.client = c
  BY <1>5, NewConnection
<1>10. ReadPoint(conn, read[c], Views[c])
  BY <1>5, NewPoint
<1> HIDE DEF conn
<1>11. rd.type = "Read" /\ rd.slot = s /\ rd.client = c /\ rd.type \notin KtlsOps
  BY <1>9 DEF ConnOp, Op, KtlsOps
<1> HIDE DEF rd
<1>12. slab'[s] = conn /\ \A t \in DOMAIN slab : t \notin {s} => slab'[t] = slab[t]
  BY <1>1, <1>8
<1>13. OpFlow(rd, slab', read, Views) /\ OpFlow(NextAccept, slab', read, Views)
  <2>1. OpFlow(rd, slab', read, Views)
    BY <1>10, <1>11, <1>12 DEF OpFlow, OpPoint
  <2> QED
    BY <2>1, AcceptIsFree DEF OpFlow
<1>14. PICK ops : ops = <<NextAccept, rd>>
  OBVIOUS
<1>15. ops \in Seq({NextAccept, rd}) /\ DOMAIN ops = {1, 2} /\ ops[1] = NextAccept /\ ops[2] = rd
  BY <1>14
<1>16. IsSequence(ops) /\ \A i \in DOMAIN ops : OpFlow(ops[i], slab', read, Views)
  BY <1>13, <1>15, IsSequenceIntro
<1>17. \A i \in DOMAIN inflight :
          inflight[i].type # "Accept" /\ inflight[i].slot \in {s} => OpFlow(inflight[i], slab', read, Views)
  BY <1>8 DEF RingInv, Ownership, Owned
<1>18. \A i \in DOMAIN cq' :
          cq'[i].op.type # "Accept" /\ cq'[i].op.slot \in {s} => DoneFlow(cq'[i], slab', read, Views)
  BY <1>3, <1>8 DEF RingInv, Ownership, Owned
<1>19. inflight' = inflight \o ops
  BY <1>1, <1>14
<1> QED
  BY <1>1, <1>12, <1>16, <1>17, <1>18, <1>19, FlowStep

-----------------------------------------------------------------------------
(* The kernel and the clients.                                             *)

\* An operation completes; only what the clients of M have sent and received
\* moves.
LEMMA FlowKernel ==
    ASSUME RingInv, Flow, NEW k \in DOMAIN inflight, NEW res, Completes(k, res), waiting' \subseteq waiting,
           NEW M,
           \A d \in Clients : d \notin M => read'[d] = read[d] /\ got'[d] = got[d] /\ Views'[d] = Views[d],
           \A j \in DOMAIN inflight : j # k /\ inflight[j].type # "Accept" => inflight[j].client \notin M,
           \A i \in DOMAIN cq : cq[i].op.type # "Accept" => cq[i].op.client \notin M,
           \A i \in DOMAIN cq : Arrived(cq[i]) => cq[i].res.val.client \notin M,
           \A d \in waiting : d \notin M,
           NEW e, e = [op |-> inflight[k], res |-> res], DoneFlow(e, slab, read', Views'),
           Arrived(e) => Fresh(e.res.val.client, read', got')
    PROVE  Flow'
<1>1. IsSequence(inflight) /\ IsSequence(cq) /\ slab' = slab /\ inflight' = RemoveAt(inflight, k)
  BY DEF RingInv, Shapes, Completes
<1>2. \A i \in DOMAIN inflight' : \E j \in DOMAIN inflight : j # k /\ inflight'[i] = inflight[j]
  BY <1>1, OthersStay
<1>3. PICK n : n = Len(cq) + 1
  OBVIOUS
<1>4. /\ DOMAIN cq' = DOMAIN cq \cup {n} /\ \A i \in DOMAIN cq : cq'[i] = cq[i]
      /\ cq'[n] = e
  BY <1>1, <1>3, CompletesFacts
<1>5. ASSUME NEW op, Owned(op, slab), op.type # "Accept" PROVE op.client \in Clients
  <2>1. op.slot \in DOMAIN slab /\ slab[op.slot] # Vacant /\ op.client = slab[op.slot].client
    BY <1>5 DEF Owned
  <2> QED
    BY <2>1 DEF RingInv, Shapes, IsConnection
<1>6. ASSUME NEW i \in DOMAIN inflight' PROVE OpFlow(inflight'[i], slab', read', Views')
  <2>0. PICK op : op = inflight'[i]
    OBVIOUS
  <2>1. PICK j \in DOMAIN inflight : op = inflight'[i] /\ op = inflight[j] /\ j # k
    BY <1>2, <2>0
  <2>2. SUFFICES ASSUME op.type # "Accept" PROVE OpFlow(op, slab, read', Views')
    BY <1>1, <2>1 DEF OpFlow
  <2>3. Owned(op, slab) /\ OpFlow(op, slab, read, Views) /\ op.client \notin M
    BY <2>1, <2>2 DEF RingInv, Ownership, Flow
  <2>4. op.client \in Clients
    BY <1>5, <2>2, <2>3
  <2>5. read'[op.client] = read[op.client] /\ Views'[op.client] = Views[op.client]
    BY <2>3, <2>4
  <2> QED
    BY <2>2, <2>3, <2>5 DEF OpFlow
<1>7. ASSUME NEW i \in DOMAIN cq' PROVE DoneFlow(cq'[i], slab', read', Views')
  <2>1. CASE i = n
    BY <1>1, <1>4, <2>1
  <2>2. CASE i \in DOMAIN cq
    <3>1. PICK x : x = cq[i] /\ x = cq'[i]
      BY <1>4, <2>2
    <3>2. SUFFICES ASSUME x.op.type # "Accept" PROVE DoneFlow(x, slab, read', Views')
      BY <1>1, <3>1 DEF DoneFlow
    <3>3. Owned(x.op, slab) /\ DoneFlow(x, slab, read, Views) /\ x.op.client \notin M
      BY <2>2, <3>1, <3>2 DEF RingInv, Ownership, Flow
    <3>4. x.op.client \in Clients
      BY <1>5, <3>2, <3>3
    <3>5. read'[x.op.client] = read[x.op.client] /\ Views'[x.op.client] = Views[x.op.client]
      BY <3>3, <3>4
    <3> QED
      BY <3>2, <3>3, <3>5 DEF DoneFlow
  <2> QED
    BY <1>4, <2>1, <2>2
<1>8. \A d \in waiting' : Fresh(d, read', got')
  BY DEF Flow, Fresh, RingInv, Apart
<1>9. ASSUME NEW i \in DOMAIN cq', Arrived(cq'[i]) PROVE Fresh(cq'[i].res.val.client, read', got')
  <2>1. CASE i = n
    BY <1>4, <1>9, <2>1
  <2>2. CASE i \in DOMAIN cq
    <3>1. cq'[i] = cq[i] /\ Arrived(cq[i])
      BY <1>4, <1>9, <2>2
    <3>2. PICK d : d = cq[i].res.val.client
      OBVIOUS
    <3>3. d \in Clients /\ d \notin M /\ Fresh(d, read, got)
      BY <2>2, <3>1, <3>2 DEF RingInv, Apart, Flow
    <3>4. Fresh(d, read', got')
      BY <3>3 DEF Fresh
    <3> QED
      BY <3>1, <3>2, <3>4
  <2> QED
    BY <1>4, <2>1, <2>2
<1>10. \A i \in DOMAIN cq' : Arrived(cq'[i]) => Fresh(cq'[i].res.val.client, read', got')
  BY <1>9
<1> QED
  BY <1>6, <1>7, <1>8, <1>10 DEF Flow, Arrived, Failure

\* Nothing moves.
LEMMA FlowStill ==
    ASSUME RingInv, Flow, NEW k \in DOMAIN inflight, NEW res, Completes(k, res), waiting' \subseteq waiting,
           UNCHANGED <<read, got, gone>>,
           NEW e, e = [op |-> inflight[k], res |-> res], DoneFlow(e, slab, read, Views),
           Arrived(e) => Fresh(e.res.val.client, read, got)
    PROVE  Flow'
<1>1. PICK M : M = {}
  OBVIOUS
<1>2. Views' = Views
  BY ViewsStay DEF Completes
<1>3. \A d \in Clients : d \notin M => read'[d] = read[d] /\ got'[d] = got[d] /\ Views'[d] = Views[d]
  BY <1>2
<1>4. DoneFlow(e, slab, read', Views') /\ (Arrived(e) => Fresh(e.res.val.client, read', got'))
  BY <1>2
<1>5. /\ \A j \in DOMAIN inflight : j # k /\ inflight[j].type # "Accept" => inflight[j].client \notin M
      /\ \A i \in DOMAIN cq : cq[i].op.type # "Accept" => cq[i].op.client \notin M
      /\ \A i \in DOMAIN cq : Arrived(cq[i]) => cq[i].res.val.client \notin M
      /\ \A d \in waiting : d \notin M
  BY <1>1
<1> QED
  BY <1>3, <1>4, <1>5, FlowKernel

\* A read or a write moves its own client only.
LEMMA FlowMoves ==
    ASSUME RingInv, Flow, NEW k \in DOMAIN inflight, NEW res, Completes(k, res), waiting' = waiting,
           inflight[k].type \in {"Read", "Write"}, NEW c, c = inflight[k].client,
           \A d \in Clients : d # c => read'[d] = read[d] /\ got'[d] = got[d] /\ Views'[d] = Views[d],
           NEW e, e = [op |-> inflight[k], res |-> res], DoneFlow(e, slab, read', Views')
    PROVE  Flow'
<1>1. PICK M : M = {c}
  OBVIOUS
<1>2. PICK s : s = inflight[k].slot
  OBVIOUS
<1>3. s \in DOMAIN slab /\ slab[s] # Vacant /\ slab[s].client = c /\ inflight[k].type # "Accept"
  BY <1>2 DEF RingInv, Ownership, Owned
<1>4. /\ \A j \in DOMAIN inflight : ForSlot(inflight[j], s) => j = k
      /\ \A i \in DOMAIN cq : ~ForSlot(cq[i].op, s)
  BY <1>2, OnlyOne
<1>5. ASSUME NEW op, Owned(op, slab), op.type # "Accept", ~ForSlot(op, s) PROVE op.client # c
  <2>1. op.slot \in DOMAIN slab /\ slab[op.slot] # Vacant /\ op.client = slab[op.slot].client /\ op.slot # s
    BY <1>5 DEF Owned, ForSlot
  <2> QED
    BY <1>3, <2>1 DEF RingInv, Apart
<1>6. ASSUME NEW j \in DOMAIN inflight, j # k, inflight[j].type # "Accept" PROVE inflight[j].client \notin M
  <2>1. Owned(inflight[j], slab) /\ ~ForSlot(inflight[j], s)
    BY <1>4, <1>6 DEF RingInv, Ownership
  <2> QED
    BY <1>1, <1>5, <1>6, <2>1
<1>7. ASSUME NEW i \in DOMAIN cq, cq[i].op.type # "Accept" PROVE cq[i].op.client \notin M
  <2>1. Owned(cq[i].op, slab) /\ ~ForSlot(cq[i].op, s)
    BY <1>4, <1>7 DEF RingInv, Ownership
  <2> QED
    BY <1>1, <1>5, <1>7, <2>1
<1>8. /\ \A i \in DOMAIN cq : Arrived(cq[i]) => cq[i].res.val.client \notin M
      /\ \A d \in waiting : d \notin M
  BY <1>1, <1>3 DEF RingInv, Apart
<1>9. ~Arrived(e)
  BY <1>3 DEF Arrived
<1>10. \A d \in Clients : d \notin M => read'[d] = read[d] /\ got'[d] = got[d] /\ Views'[d] = Views[d]
  BY <1>1
<1> QED
  BY <1>6, <1>7, <1>8, <1>9, <1>10, FlowKernel

\* What is cut off the front of what is left of a prefix.
LEMMA CutPrefix ==
    ASSUME NEW sc \in Seq(Symbols), NEW L \in Nat, L <= Len(sc), NEW q \in Nat,
           NEW sent, sent = SubSeq(sc, 1, L), NEW left, left = SubSeq(sent, q + 1, Len(sent)),
           NEW n \in 1..Len(left)
    PROVE  Cut(SubSeq(left, 1, n), sc, q, q + n) /\ q + n <= L
<1>1. sent \in Seq(Symbols) /\ Len(sent) = L /\ \A i \in 1..L : sent[i] = sc[i]
  <2>1. /\ sent \in Seq(Symbols) /\ Len(sent) = IF 1 <= L THEN L - 1 + 1 ELSE 0
        /\ \A i \in 1..(L - 1 + 1) : sent[i] = sc[1 + i - 1]
    BY Slice
  <2> QED
    BY <2>1
<1>2. /\ left \in Seq(Symbols) /\ Len(left) = (IF q + 1 <= L THEN L - (q + 1) + 1 ELSE 0)
      /\ \A i \in 1..(L - (q + 1) + 1) : left[i] = sent[q + 1 + i - 1]
  <2>1. PICK b : b = q + 1
    OBVIOUS
  <2>2. b \in Nat /\ b >= 1 /\ L \in Int
    BY <2>1
  <2>3. /\ SubSeq(sent, b, L) \in Seq(Symbols) /\ Len(SubSeq(sent, b, L)) = (IF b <= L THEN L - b + 1 ELSE 0)
        /\ \A i \in 1..(L - b + 1) : SubSeq(sent, b, L)[i] = sent[b + i - 1]
    BY <1>1, <2>2, Slice
  <2>4. left = SubSeq(sent, b, L)
    BY <1>1, <2>1
  <2> QED
    BY <2>1, <2>3, <2>4
<1>3. n \in Nat /\ n >= 1 /\ n <= Len(left) /\ Len(left) \in Nat
  BY <1>2, LenProperties
<1>4. q + 1 <= L /\ Len(left) = L - q /\ q + n <= L
  BY <1>2, <1>3
<1>5. PICK x : x = SubSeq(left, 1, n)
  OBVIOUS
<1>6. x \in Seq(Symbols) /\ Len(x) = n /\ \A i \in 1..n : x[i] = left[i]
  <2>1. /\ x \in Seq(Symbols) /\ Len(x) = IF 1 <= n THEN n - 1 + 1 ELSE 0
        /\ \A i \in 1..(n - 1 + 1) : x[i] = left[1 + i - 1]
    BY <1>2, <1>3, <1>5, Slice
  <2> QED
    BY <1>3, <2>1
<1>7. ASSUME NEW i \in 1..n PROVE x[i] = sc[q + i]
  <2>1. i \in 1..(L - (q + 1) + 1) /\ q + 1 + i - 1 = q + i /\ q + i \in 1..L
    BY <1>3, <1>4
  <2> QED
    BY <1>1, <1>2, <1>6, <2>1
<1>8. Cut(x, sc, q, q + n)
  <2>1. PICK m : m = q + n
    OBVIOUS
  <2>2. m \in Nat /\ q <= m /\ m - q = n /\ m <= Len(sc)
    BY <1>3, <1>4, <2>1, LenProperties
  <2>3. Cut(x, sc, q, m)
    BY <1>6, <1>7, <2>2 DEF Cut
  <2> QED
    BY <2>1, <2>3
<1> QED
  BY <1>4, <1>5, <1>8

LEMMA ReadableCut ==
    ASSUME Traffic, NEW c \in Clients, NEW n \in 1..Len(Readable(c))
    PROVE  /\ Cut(SubSeq(Readable(c), 1, n), script[c], read[c], read[c] + n)
           /\ got[c] = << >> => read[c] + n <= 1
<1>1. PICK sc, q : sc = script[c] /\ q = read[c]
  OBVIOUS
<1>2. IsScript(sc) /\ q \in Nat
  BY <1>1 DEF Traffic, InOrder
<1>3. sc \in Seq(Symbols) /\ Len(sc) \in Nat /\ Len(sc) >= 1
  BY <1>2, ScriptFacts
<1>4. PICK left : left = Readable(c)
  OBVIOUS
<1>5. CASE got[c] = << >>
  <2>1. left = SubSeq(SubSeq(sc, 1, 1), q + 1, Len(SubSeq(sc, 1, 1)))
    BY <1>1, <1>4, <1>5 DEF Readable
  <2>2. PICK sent : sent = SubSeq(sc, 1, 1)
    OBVIOUS
  <2>3. left = SubSeq(sent, q + 1, Len(sent)) /\ 1 <= Len(sc) /\ 1 \in Nat /\ n \in 1..Len(left)
    BY <1>3, <1>4, <2>1, <2>2
  <2>4. Cut(SubSeq(left, 1, n), sc, q, q + n) /\ q + n <= 1
    BY <1>2, <1>3, <2>2, <2>3, CutPrefix
  <2> QED
    BY <1>1, <1>4, <2>4
<1>6. CASE got[c] # << >>
  <2>1. PICK L : L = Len(sc)
    OBVIOUS
  <2>2. sc = SubSeq(sc, 1, L)
    <3>1. /\ SubSeq(sc, 1, L) \in Seq(Symbols) /\ Len(SubSeq(sc, 1, L)) = IF 1 <= L THEN L - 1 + 1 ELSE 0
          /\ \A i \in 1..(L - 1 + 1) : SubSeq(sc, 1, L)[i] = sc[1 + i - 1]
      BY <1>3, <2>1, Slice
    <3>2. Len(SubSeq(sc, 1, L)) = Len(sc) /\ \A i \in 1..Len(sc) : SubSeq(sc, 1, L)[i] = sc[i]
      BY <1>3, <2>1, <3>1
    <3> QED
      BY <1>3, <3>1, <3>2, SeqEqual
  <2>3. left = SubSeq(sc, q + 1, Len(sc)) /\ n \in 1..Len(left) /\ L \in Nat /\ L <= Len(sc)
    <3>1. left = SubSeq(sc, q + 1, Len(sc))
      BY <1>1, <1>4, <1>6 DEF Readable
    <3>2. n \in 1..Len(left)
      BY <1>4
    <3>3. L \in Nat /\ L <= Len(sc)
      BY <1>3, <2>1
    <3> QED
      BY <3>1, <3>2, <3>3, Zenon
  <2>4. Cut(SubSeq(left, 1, n), sc, q, q + n)
    BY <1>2, <1>3, <2>2, <2>3, CutPrefix
  <2> QED
    BY <1>1, <1>4, <1>6, <2>4
<1> QED
  BY <1>5, <1>6

\* What is known of the connection and the client of a read or a write that waits.
LEMMA WaitingRead ==
    ASSUME RingInv, Flow, Traffic, NEW k \in DOMAIN inflight, inflight[k].type \in {"Read", "Write"},
           NEW c, c = inflight[k].client, NEW s, s = inflight[k].slot
    PROVE  /\ c \in Clients /\ s \in DOMAIN slab /\ slab[s].client = c
           /\ Fits(inflight[k].type, slab[s].state)
           /\ OpPoint(inflight[k], slab[s], read[c], Views[c])
           /\ Views[c].sc = script[c] /\ Views[c].got = got[c] /\ Views[c].lost = (c \in gone)
           /\ read[c] \in Nat /\ IsScript(script[c])
<1>1. /\ s \in DOMAIN slab /\ slab[s] # Vacant /\ slab[s].client = c /\ inflight[k].type # "Accept"
      /\ Fits(inflight[k].type, slab[s].state)
  BY DEF RingInv, Ownership, Owned
<1>2. c \in Clients
  BY <1>1 DEF RingInv, Shapes, IsConnection
<1>3. OpFlow(inflight[k], slab, read, Views)
  BY DEF Flow
<1> QED
  BY <1>1, <1>2, <1>3 DEF OpFlow, Views, Traffic, InOrder

LEMMA KernelReadFlow ==
    ASSUME RingInv, Flow, Traffic, NEW k \in DOMAIN inflight, KernelRead(k)
    PROVE  Flow' /\ Traffic'
<1>1. PICK c, s, conn : c = inflight[k].client /\ s = inflight[k].slot /\ conn = slab[s]
  OBVIOUS
<1>2. PICK n \in 1..Len(Readable(c)) :
         /\ Completes(k, Success(SubSeq(Readable(c), 1, n)))
         /\ read' = [read EXCEPT ![c] = @ + n]
  BY <1>1 DEF KernelRead
<1>3. inflight[k].type = "Read" /\ UNCHANGED <<got, gone, waiting>>
  BY DEF KernelRead
<1>4. /\ c \in Clients /\ Fits("Read", conn.state)
      /\ OpPoint(inflight[k], conn, read[c], Views[c])
      /\ Views[c].sc = script[c] /\ Views[c].got = got[c]
      /\ read[c] \in Nat /\ IsScript(script[c])
  BY <1>1, <1>3, WaitingRead
<1>5. PICK q, r, v, val : q = read[c] /\ r = q + n /\ v = Views[c] /\ val = SubSeq(Readable(c), 1, n)
  OBVIOUS
<1>6. ReadPoint(conn, q, v)
  BY <1>3, <1>4, <1>5 DEF OpPoint
<1>7. Cut(val, v.sc, q, r) /\ (v.got = << >> => r <= 1)
  BY <1>2, <1>4, <1>5, ReadableCut
<1>8. n \in Nat /\ n >= 1 /\ q \in Nat /\ r \in Nat /\ q < r
  <2>1. val \in Seq(Symbols) /\ Len(val) = r - q /\ q \in Nat /\ r \in Nat
    BY <1>7 DEF Cut
  <2>3. n \in Int /\ n >= 1
    BY <1>2
  <2> QED
    BY <1>5, <2>1, <2>3
<1>9. q = 0 => r = 1
  <2>1. CASE conn.state = "HandshakeReading"
    <3>1. q = 0 => v.got = << >>
      BY <1>6, <2>1 DEF ReadPoint
    <3> QED
      BY <1>7, <1>8, <3>1
  <2>2. CASE conn.state = "Reading"
    <3>1. Ready(conn, q, v, conn.count)
      BY <1>6, <2>2 DEF ReadPoint
    <3>2. Cut(conn.decoder, v.sc, 2 * conn.count + 2, q) /\ conn.count \in Nat
      BY <3>1 DEF Ready, Serving, Holds
    <3>3. 2 * conn.count + 2 <= q
      BY <3>2 DEF Cut
    <3> QED
      BY <1>8, <3>2, <3>3
  <2> QED
    BY <1>4, <2>1, <2>2 DEF Fits, KtlsOps
<1>10. ReadTo(conn, val, q, r, v)
  BY <1>6, <1>7, <1>8, <1>9 DEF ReadTo
<1>11. Views' = Views /\ script' = script
  BY <1>2, <1>3, ViewsStay DEF Completes
<1>12. DOMAIN read = Clients /\ read' = [read EXCEPT ![c] = r]
  BY <1>2, <1>5 DEF Traffic
<1>13. read'[c] = r /\ \A d \in Clients : d # c => read'[d] = read[d]
  BY <1>4, <1>12
<1>14. PICK res, e : res = Success(val) /\ e = [op |-> inflight[k], res |-> res]
  OBVIOUS
<1>15. Completes(k, res)
  BY <1>2, <1>5, <1>14
<1>16. e.op.type = "Read" /\ e.op.slot = s /\ e.op.client = c /\ e.res.val = val /\ "Read" \notin KtlsOps
  BY <1>1, <1>3, <1>14 DEF Success, KtlsOps
<1>17. \E x \in Nat : ReadTo(conn, val, x, r, v)
  BY <1>8, <1>10
<1>18. DonePoint(e, conn, r, v)
  BY <1>16, <1>17 DEF DonePoint
<1>19. DoneFlow(e, slab, read', Views')
  BY <1>1, <1>5, <1>11, <1>13, <1>16, <1>18 DEF DoneFlow
<1>20. Flow'
  BY <1>1, <1>3, <1>11, <1>13, <1>14, <1>15, <1>19, FlowMoves
<1>21. Traffic'
  <2>1. read' \in [Clients -> Nat]
    BY <1>4, <1>8, <1>12 DEF Traffic
  <2>2. r <= Len(script[c])
    BY <1>4, <1>5, <1>7 DEF Cut
  <2>3. \A d \in Clients : read'[d] <= Len(script'[d])
    BY <1>11, <1>13, <2>2 DEF Traffic
  <2>4. \A d \in Clients : InOrder(d)'
    BY <1>3, <1>11 DEF Traffic, InOrder
  <2> QED
    BY <1>3, <2>1, <2>3, <2>4 DEF Traffic
<1> QED
  BY <1>20, <1>21

\* A point at which more has been delivered.
LEMMA WriteReach ==
    ASSUME NEW conn, NEW q, NEW v, WritePoint(conn, q, 0, v), NEW v1, v1.sc = v.sc, NEW n,
           conn.state = "HandshakeWriting" => Reach(v1, 0),
           \A N \in Nat : conn.state \in {"Writing", "Closing"} /\ Responding(conn, q, 0, v, N) =>
               Reach(v1, 2 * N - Len(conn.write) + n)
    PROVE  WritePoint(conn, q, n, v1)
<1>1. ASSUME conn.state = "HandshakeWriting"
      PROVE  Handshake(conn, q, v1) /\ 1 <= q /\ conn.write = <<Flight>>
  <2>1. Handshake(conn, q, v) /\ 1 <= q /\ conn.write = <<Flight>> /\ Reach(v1, 0)
    BY <1>1 DEF WritePoint
  <2>2. Handshake(conn, q, v1)
    BY <2>1 DEF Handshake
  <2> QED
    BY <2>1, <2>2
<1>2. ASSUME conn.state \in {"Writing", "Closing"} PROVE \E N \in Nat : Responding(conn, q, n, v1, N)
  <2>1. PICK N \in Nat : Responding(conn, q, 0, v, N)
    BY <1>2 DEF WritePoint
  <2>2. Reach(v1, 2 * N - Len(conn.write) + n)
    BY <1>2, <2>1
  <2>3. Serving(conn, q, v1, N)
    BY <2>1 DEF Responding, Serving
  <2>4. Responding(conn, q, n, v1, N)
    BY <2>1, <2>2, <2>3 DEF Responding
  <2> QED
    BY <2>4
<1> QED
  BY <1>1, <1>2 DEF WritePoint

LEMMA FlightWritten ==
    ASSUME NEW n \in 1..Len(<<Flight>>)
    PROVE  SubSeq(<<Flight>>, 1, n) = <<Flight>>
<1>1. n = 1
  BY FlightType
<1>2. /\ SubSeq(<<Flight>>, 1, 1) \in Seq(Parts) /\ Len(SubSeq(<<Flight>>, 1, 1)) = 1
      /\ SubSeq(<<Flight>>, 1, 1)[1] = <<Flight>>[1]
  <2>1. PICK w : w = <<Flight>>
    OBVIOUS
  <2>2. w \in Seq(Parts) /\ Len(w) = 1
    BY <2>1, FlightType
  <2>3. PICK b, L : b = 1 /\ L = 1
    OBVIOUS
  <2>4. b \in Nat /\ b >= 1 /\ L \in Int /\ L <= Len(w)
    BY <2>2, <2>3
  <2>5. /\ SubSeq(w, b, L) \in Seq(Parts) /\ Len(SubSeq(w, b, L)) = IF b <= L THEN L - b + 1 ELSE 0
        /\ \A i \in 1..(L - b + 1) : SubSeq(w, b, L)[i] = w[b + i - 1]
    BY <2>2, <2>4, Slice
  <2>6. SubSeq(w, 1, 1) \in Seq(Parts) /\ Len(SubSeq(w, 1, 1)) = 1 /\ SubSeq(w, 1, 1)[1] = w[1]
    BY <2>3, <2>5
  <2> QED
    BY <2>1, <2>6
<1>3. PICK x, w : x = SubSeq(<<Flight>>, 1, 1) /\ w = <<Flight>>
  OBVIOUS
<1>4. x \in Seq(Parts) /\ w \in Seq(Parts) /\ Len(x) = 1 /\ Len(w) = 1 /\ x[1] = w[1]
  BY <1>2, <1>3, FlightType
<1>5. x = w
  <2>1. \A i \in 1..Len(x) : x[i] = w[i]
    BY <1>4
  <2> QED
    BY <1>4, <2>1, SeqEqual
<1> QED
  BY <1>1, <1>3, <1>5

\* What a write adds to what the client has received is what is due.
LEMMA WriteMoves ==
    ASSUME NEW conn, NEW q, NEW v, WritePoint(conn, q, 0, v), ~v.lost, v.got \in Seq(Parts),
           conn.state \in {"HandshakeWriting", "Writing", "Closing"},
           NEW n \in 1..Len(conn.write),
           NEW v1, v1.sc = v.sc, v1.got = v.got \o SubSeq(conn.write, 1, n)
    PROVE  /\ WritePoint(conn, q, n, v1) /\ v1.got \in Seq(Parts)
           /\ \E f \in Nat : \E m \in Nat : Delivered(v1.sc, v1.got, f, m)
<1>1. ASSUME conn.state = "HandshakeWriting"
      PROVE  v1.got \in Seq(Parts) /\ \E f \in Nat : Delivered(v1.sc, v1.got, f, 0)
  <2>1. Handshake(conn, q, v) /\ conn.write = <<Flight>>
    BY <1>1 DEF WritePoint
  <2>2. PICK f \in Nat : Delivered(v.sc, v.got, f, 0)
    BY <2>1 DEF Handshake, Reach
  <2>3. Delivered(v.sc, v.got \o <<Flight>>, f + 1, 0) /\ v.got \o <<Flight>> \in Seq(Parts)
    BY <2>2, FlightDelivered
  <2>4. SubSeq(conn.write, 1, n) = <<Flight>>
    BY <2>1, FlightWritten
  <2>5. f + 1 \in Nat
    BY <2>2
  <2> QED
    BY <2>3, <2>4, <2>5
<1>2. ASSUME NEW N \in Nat, Responding(conn, q, 0, v, N)
      PROVE  /\ v1.got \in Seq(Parts) /\ 2 * N - Len(conn.write) + n \in Nat
             /\ \E f \in Nat : Delivered(v1.sc, v1.got, f, 2 * N - Len(conn.write) + n)
  <2>1. PICK buf, g : buf = conn.write /\ g = v.got
    OBVIOUS
  <2>2. Sending(buf, v.sc, N) /\ Reach(v, 2 * N - Len(buf) + 0)
    BY <1>2, <2>1 DEF Responding
  <2>3. Len(buf) \in 1..2 /\ N >= 1
    BY <2>2 DEF Sending
  <2>4. PICK m : m = 2 * N - Len(buf)
    OBVIOUS
  <2>5. m \in Nat /\ m + 0 = m
    <3>1. \A a \in Nat : \A b \in 1..2 : a >= 1 => 2 * a - b \in Nat /\ (2 * a - b) + 0 = 2 * a - b
      OBVIOUS
    <3> QED
      BY <2>3, <2>4, <3>1, Zenon
  <2>6. Reach(v, m)
    BY <2>2, <2>4, <2>5
  <2>7. PICK f \in Nat : Delivered(v.sc, g, f, m)
    BY <2>1, <2>6 DEF Reach
  <2>8. g \in Seq(Parts) /\ n \in 1..Len(buf)
    BY <2>1
  <2>9. Delivered(v.sc, g \o SubSeq(buf, 1, n), f, m + n) /\ g \o SubSeq(buf, 1, n) \in Seq(Parts)
    BY <2>2, <2>4, <2>5, <2>7, <2>8, MoreDelivered
  <2>10. m + n \in Nat
    BY <2>3, <2>5, <2>8
  <2> QED
    BY <2>1, <2>4, <2>9, <2>10
<1>3. WritePoint(conn, q, n, v1)
  <2>1. conn.state = "HandshakeWriting" => Reach(v1, 0)
    BY <1>1 DEF Reach
  <2>2. ASSUME NEW N \in Nat, Responding(conn, q, 0, v, N) PROVE Reach(v1, 2 * N - Len(conn.write) + n)
    BY <1>2, <2>2 DEF Reach
  <2> QED
    BY <2>1, <2>2, WriteReach
<1>4. v1.got \in Seq(Parts) /\ \E f \in Nat : \E m \in Nat : Delivered(v1.sc, v1.got, f, m)
  <2>1. CASE conn.state = "HandshakeWriting"
    <3>1. 0 \in Nat
      OBVIOUS
    <3> QED
      BY <1>1, <2>1, <3>1
  <2>2. CASE conn.state \in {"Writing", "Closing"}
    <3>1. PICK N \in Nat : Responding(conn, q, 0, v, N)
      BY <2>2 DEF WritePoint
    <3>2. PICK m : m = 2 * N - Len(conn.write) + n
      OBVIOUS
    <3>3. v1.got \in Seq(Parts) /\ m \in Nat /\ \E f \in Nat : Delivered(v1.sc, v1.got, f, m)
      BY <1>2, <3>1, <3>2
    <3> QED
      BY <3>3
  <2> QED
    BY <2>1, <2>2
<1> QED
  BY <1>3, <1>4

LEMMA KernelWriteFlow ==
    ASSUME RingInv, Flow, Traffic, NEW k \in DOMAIN inflight, KernelWrite(k)
    PROVE  Flow' /\ Traffic'
<1>1. PICK c, s, conn : c = inflight[k].client /\ s = inflight[k].slot /\ conn = slab[s]
  OBVIOUS
<1>2. inflight[k].type = "Write"
  BY DEF KernelWrite
<1>3. /\ c \in Clients /\ Fits("Write", conn.state) /\ conn.client = c
      /\ OpPoint(inflight[k], conn, read[c], Views[c])
      /\ Views[c].sc = script[c] /\ Views[c].got = got[c] /\ Views[c].lost = (c \in gone)
      /\ IsScript(script[c])
  BY <1>1, <1>2, WaitingRead
<1>4. PICK n \in 1..Len(conn.write) :
         /\ Completes(k, Success(n))
         /\ got' = IF c \in gone THEN got ELSE [got EXCEPT ![c] = @ \o SubSeq(conn.write, 1, n)]
         /\ UNCHANGED <<read, gone, waiting, files, faults>>
  BY <1>1, <1>3 DEF KernelWrite
<1>5. PICK q, v, v1 : q = read[c] /\ v = Views[c] /\ v1 = Views'[c]
  OBVIOUS
<1>6. WritePoint(conn, q, 0, v) /\ conn.state \in {"HandshakeWriting", "Writing", "Closing"}
  BY <1>2, <1>3, <1>5 DEF OpPoint, Fits, KtlsOps
<1>7. script' = script
  BY <1>4 DEF Completes
<1>8. v1.sc = v.sc /\ v1.got = got'[c] /\ v1.lost = v.lost
  BY <1>3, <1>4, <1>5, <1>7 DEF Views
<1>9. DOMAIN got = Clients /\ got[c] \in Seq(Parts)
  BY <1>3 DEF Traffic, InOrder
<1>10. \A d \in Clients : d # c => read'[d] = read[d] /\ got'[d] = got[d] /\ Views'[d] = Views[d]
  <2>1. \A d \in Clients : d # c => got'[d] = got[d]
    BY <1>4, <1>9
  <2>2. script' = script /\ gone' = gone
    BY <1>4, <1>7
  <2> QED
    BY <1>4, <2>1, <2>2 DEF Views
<1>11. WritePoint(conn, q, n, v1) /\ InOrder(c)'
  <2>1. CASE c \in gone
    <3>1. got' = got /\ v1.lost
      BY <1>3, <1>4, <1>5, <1>8, <2>1
    <3>2. \A m : Reach(v1, m)
      BY <3>1 DEF Reach
    <3>3. WritePoint(conn, q, n, v1)
      BY <1>6, <1>8, <3>2, WriteReach
    <3>4. InOrder(c)'
      BY <1>3, <1>7, <3>1 DEF Traffic, InOrder
    <3> QED
      BY <3>3, <3>4
  <2>2. CASE c \notin gone
    <3>1. got'[c] = got[c] \o SubSeq(conn.write, 1, n)
      BY <1>3, <1>4, <1>9, <2>2
    <3>2. ~v.lost /\ v.got \in Seq(Parts) /\ v1.got = v.got \o SubSeq(conn.write, 1, n)
      BY <1>3, <1>5, <1>8, <1>9, <2>2, <3>1
    <3>3. /\ WritePoint(conn, q, n, v1) /\ v1.got \in Seq(Parts)
          /\ \E f \in Nat : \E m \in Nat : Delivered(v1.sc, v1.got, f, m)
      BY <1>6, <1>8, <3>2, WriteMoves
    <3>4. v1.sc = script'[c] /\ IsScript(script'[c])
      BY <1>3, <1>5, <1>7, <1>8
    <3> QED
      BY <1>8, <3>3, <3>4 DEF InOrder
  <2> QED
    BY <2>1, <2>2
<1>12. PICK res, e : res = Success(n) /\ e = [op |-> inflight[k], res |-> res]
  OBVIOUS
<1>13. e.op.type = "Write" /\ e.op.slot = s /\ e.op.client = c /\ e.res.val = n /\ "Write" \notin KtlsOps
  BY <1>1, <1>2, <1>12 DEF Success, KtlsOps
<1>14. DonePoint(e, conn, q, v1)
  BY <1>11, <1>13 DEF DonePoint
<1>15. DoneFlow(e, slab, read', Views')
  BY <1>1, <1>4, <1>5, <1>13, <1>14 DEF DoneFlow
<1>16. Flow'
  <2>1. Completes(k, res) /\ waiting' = waiting
    BY <1>4, <1>12
  <2> QED
    BY <1>1, <1>2, <1>10, <1>12, <1>15, <2>1, FlowMoves
<1>17. Traffic'
  <2>1. DOMAIN got' = Clients /\ read' = read
    BY <1>4, <1>9
  <2>2. ASSUME NEW d \in Clients PROVE InOrder(d)'
    <3>1. CASE d = c
      BY <1>11, <3>1
    <3>2. CASE d # c
      <4>1. got'[d] = got[d] /\ script'[d] = script[d] /\ InOrder(d)
        BY <1>7, <1>10, <3>2 DEF Traffic
      <4> QED
        BY <4>1 DEF InOrder
    <3> QED
      BY <3>1, <3>2
  <2> QED
    BY <1>7, <2>1, <2>2 DEF Traffic
<1> QED
  BY <1>16, <1>17

LEMMA TrafficStays ==
    ASSUME Traffic, UNCHANGED <<script, read, got>>
    PROVE  Traffic'
<1>1. \A c \in Clients : InOrder(c)'
  BY DEF Traffic, InOrder
<1> QED
  BY <1>1 DEF Traffic

LEMMA KernelFlow ==
    ASSUME RingInv, Flow, Traffic, refused = {}, Kernel
    PROVE  Flow' /\ Traffic'
<1>1. PICK k \in DOMAIN inflight :
         \/ KernelAccept(k) \/ KernelRead(k) \/ KernelWrite(k) \/ KernelSetOption(k)
         \/ KernelRefusesKtls(k) \/ KernelClose(k) \/ KernelGone(k) \/ KernelAcceptFails(k)
  BY DEF Kernel
<1>2. ASSUME NEW res, Completes(k, res), UNCHANGED <<read, got, gone>>, waiting' \subseteq waiting,
             NEW e, e = [op |-> inflight[k], res |-> res], DoneFlow(e, slab, read, Views),
             Arrived(e) => Fresh(e.res.val.client, read, got)
      PROVE  Flow' /\ Traffic'
  <2>1. Flow'
    BY <1>2, FlowStill
  <2>2. script' = script
    BY <1>2 DEF Completes
  <2> QED
    BY <1>2, <2>1, <2>2, TrafficStays
<1>3. CASE KernelAccept(k)
  <2> DEFINE free == {f \in Fds : files[f] = Closed}
             fd == CHOOSE f \in free : \A g \in free : f <= g
  <2>1. PICK c \in waiting :
          /\ Completes(k, Success([client |-> c, fd |-> fd])) /\ waiting' = waiting \ {c}
    BY <1>3 DEF KernelAccept
  <2>2. inflight[k].type = "Accept" /\ UNCHANGED <<read, got, gone>>
    BY <1>3 DEF KernelAccept
  <2> HIDE DEF fd
  <2>3. PICK res, e : res = Success([client |-> c, fd |-> fd]) /\ e = [op |-> inflight[k], res |-> res]
    OBVIOUS
  <2>4. e.op.type = "Accept" /\ e.res.val.client = c
    BY <2>2, <2>3 DEF Success
  <2>5. DoneFlow(e, slab, read, Views)
    BY <2>4 DEF DoneFlow
  <2>6. Fresh(c, read, got)
    BY <2>1 DEF Flow
  <2>7. Completes(k, res) /\ waiting' \subseteq waiting
    BY <2>1, <2>3
  <2> QED
    BY <1>2, <2>2, <2>3, <2>4, <2>5, <2>6, <2>7
<1>4. CASE KernelRead(k)
  BY <1>4, KernelReadFlow
<1>5. CASE KernelWrite(k)
  BY <1>5, KernelWriteFlow
<1>6. CASE KernelSetOption(k)
  <2>1. /\ inflight[k].type \in KtlsOps /\ Completes(k, Success(0))
        /\ UNCHANGED <<read, got, gone>> /\ waiting' \subseteq waiting
    BY <1>6 DEF KernelSetOption
  <2>2. PICK res, e : res = Success(0) /\ e = [op |-> inflight[k], res |-> res]
    OBVIOUS
  <2>3. e.op = inflight[k] /\ e.op.type \in KtlsOps /\ e.op.type \notin {"Read", "Write", "Accept"}
    BY <2>1, <2>2 DEF KtlsOps
  <2>4. OpFlow(e.op, slab, read, Views)
    BY <2>3 DEF Flow
  <2>5. DoneFlow(e, slab, read, Views)
    BY <2>3, <2>4 DEF OpFlow, OpPoint, DoneFlow, DonePoint
  <2>6. ~Arrived(e)
    BY <2>3 DEF Arrived
  <2> QED
    BY <1>2, <2>1, <2>2, <2>5, <2>6
<1>7. CASE KernelRefusesKtls(k)
  BY <1>7 DEF KernelRefusesKtls
<1>8. CASE KernelClose(k)
  <2>1. /\ inflight[k].type = "Close" /\ Completes(k, Success(0))
        /\ UNCHANGED <<read, got, gone>> /\ waiting' \subseteq waiting
    BY <1>8 DEF KernelClose
  <2>2. PICK res, e : res = Success(0) /\ e = [op |-> inflight[k], res |-> res]
    OBVIOUS
  <2>3. e.op.type = "Close" /\ "Close" \notin KtlsOps
    BY <2>1, <2>2 DEF KtlsOps
  <2>4. DoneFlow(e, slab, read, Views) /\ ~Arrived(e)
    BY <2>3 DEF DoneFlow, DonePoint, Arrived
  <2> QED
    BY <1>2, <2>1, <2>2, <2>4
<1>9. CASE KernelGone(k)
  <2>1. PICK res : res.kind # "ok" /\ Completes(k, res)
    BY <1>9 DEF KernelGone, Eof, Failure
  <2>2. inflight[k].type # "Accept" /\ UNCHANGED <<read, got, gone>> /\ waiting' \subseteq waiting
    BY <1>9 DEF KernelGone
  <2>3. PICK e : e = [op |-> inflight[k], res |-> res]
    OBVIOUS
  <2>4. e.op.type # "Accept" /\ e.res.kind # "ok"
    BY <2>1, <2>2, <2>3
  <2>5. DoneFlow(e, slab, read, Views) /\ ~Arrived(e)
    BY <2>4 DEF DoneFlow, DonePoint, Arrived
  <2> QED
    BY <1>2, <2>1, <2>2, <2>3, <2>5
<1>10. CASE KernelAcceptFails(k)
  <2>1. /\ inflight[k].type = "Accept" /\ Completes(k, Failure)
        /\ UNCHANGED <<read, got, gone>> /\ waiting' \subseteq waiting
    BY <1>10 DEF KernelAcceptFails
  <2>2. PICK res, e : res = Failure /\ e = [op |-> inflight[k], res |-> res]
    OBVIOUS
  <2>3. e.op.type = "Accept" /\ e.res = Failure
    BY <2>1, <2>2
  <2>4. DoneFlow(e, slab, read, Views) /\ ~Arrived(e)
    BY <2>3 DEF DoneFlow, Arrived
  <2> QED
    BY <1>2, <2>1, <2>2, <2>4
<1> QED
  BY <1>1, <1>3, <1>4, <1>5, <1>6, <1>7, <1>8, <1>9, <1>10, Zenon

\* v1 is v, but the client may be gone.
Later(v, v1) == v1.sc = v.sc /\ v1.got = v.got /\ (v.lost => v1.lost)

LEMMA LaterPoints ==
    ASSUME NEW v, NEW v1, Later(v, v1), NEW conn, NEW q
    PROVE  /\ ReadPoint(conn, q, v) => ReadPoint(conn, q, v1)
           /\ \A n : WritePoint(conn, q, n, v) => WritePoint(conn, q, n, v1)
           /\ KtlsPoint(conn, q, v) => KtlsPoint(conn, q, v1)
<1>1. v1.sc = v.sc /\ v1.got = v.got /\ \A m : Reach(v, m) => Reach(v1, m)
  BY DEF Later, Reach
<1>2. Handshake(conn, q, v) => Handshake(conn, q, v1)
  BY <1>1 DEF Handshake
<1>3. \A N : Serving(conn, q, v, N) => Serving(conn, q, v1, N)
  BY <1>1 DEF Serving
<1>4. \A N : Ready(conn, q, v, N) => Ready(conn, q, v1, N)
  BY <1>1, <1>3 DEF Ready
<1>5. \A N : \A n : Responding(conn, q, n, v, N) => Responding(conn, q, n, v1, N)
  BY <1>1, <1>3 DEF Responding
<1>6. ReadPoint(conn, q, v) => ReadPoint(conn, q, v1)
  BY <1>1, <1>2, <1>4 DEF ReadPoint
<1>7. \A n : WritePoint(conn, q, n, v) => WritePoint(conn, q, n, v1)
  BY <1>2, <1>5 DEF WritePoint
<1> QED
  BY <1>4, <1>6, <1>7 DEF KtlsPoint

LEMMA LaterDone ==
    ASSUME NEW v, NEW v1, Later(v, v1), NEW e, NEW conn, NEW r, DonePoint(e, conn, r, v)
    PROVE  DonePoint(e, conn, r, v1)
<1>1. ASSUME NEW q, ReadTo(conn, e.res.val, q, r, v) PROVE ReadTo(conn, e.res.val, q, r, v1)
  BY <1>1, LaterPoints DEF ReadTo, Later
<1>2. /\ \A n : WritePoint(conn, r, n, v) => WritePoint(conn, r, n, v1)
      /\ KtlsPoint(conn, r, v) => KtlsPoint(conn, r, v1)
  BY LaterPoints
<1> QED
  BY <1>1, <1>2 DEF DonePoint

LEMMA FlowLater ==
    ASSUME RingInv, Flow, UNCHANGED <<slab, inflight, cq, read, got, waiting>>,
           \A c \in Clients : Later(Views[c], Views'[c])
    PROVE  Flow'
<1>1. ASSUME NEW op, Owned(op, slab), op.type # "Accept" PROVE op.client \in Clients
  <2>1. op.slot \in DOMAIN slab /\ slab[op.slot] # Vacant /\ op.client = slab[op.slot].client
    BY <1>1 DEF Owned
  <2> QED
    BY <2>1 DEF RingInv, Shapes, IsConnection
<1>2. ASSUME NEW i \in DOMAIN inflight PROVE OpFlow(inflight[i], slab, read, Views')
  <2>1. PICK op : op = inflight[i]
    OBVIOUS
  <2>2. SUFFICES ASSUME op.type # "Accept"
                 PROVE  OpPoint(op, slab[op.slot], read[op.client], Views'[op.client])
    BY <2>1 DEF OpFlow
  <2>3. Owned(op, slab) /\ OpPoint(op, slab[op.slot], read[op.client], Views[op.client])
    BY <2>1, <2>2 DEF RingInv, Ownership, Flow, OpFlow
  <2>4. PICK conn, q, v, v1 : conn = slab[op.slot] /\ q = read[op.client] /\ v = Views[op.client] /\ v1 = Views'[op.client]
    OBVIOUS
  <2>5. Later(v, v1)
    BY <1>1, <2>2, <2>3, <2>4
  <2>6. OpPoint(op, conn, q, v1)
    BY <2>3, <2>4, <2>5, LaterPoints DEF OpPoint
  <2> QED
    BY <2>4, <2>6
<1>3. ASSUME NEW i \in DOMAIN cq PROVE DoneFlow(cq[i], slab, read, Views')
  <2>1. PICK e : e = cq[i]
    OBVIOUS
  <2>2. SUFFICES ASSUME e.op.type # "Accept"
                 PROVE  DonePoint(e, slab[e.op.slot], read[e.op.client], Views'[e.op.client])
    BY <2>1 DEF DoneFlow
  <2>3. Owned(e.op, slab) /\ DonePoint(e, slab[e.op.slot], read[e.op.client], Views[e.op.client])
    BY <2>1, <2>2 DEF RingInv, Ownership, Flow, DoneFlow
  <2>4. PICK conn, r, v, v1 : /\ conn = slab[e.op.slot] /\ r = read[e.op.client]
                              /\ v = Views[e.op.client] /\ v1 = Views'[e.op.client]
    OBVIOUS
  <2>5. Later(v, v1)
    BY <1>1, <2>2, <2>3, <2>4
  <2>6. DonePoint(e, conn, r, v1)
    BY <2>3, <2>4, <2>5, LaterDone
  <2> QED
    BY <2>4, <2>6
<1> QED
  BY <1>2, <1>3 DEF Flow, Arrived, Failure

LEMMA HandleFlow ==
    ASSUME RingInv, Flow, Traffic, Handle
    PROVE  Traffic' /\ (running' => Flow')
<1>1. UNCHANGED world
  BY DEF Handle, AcceptFailed, Accepted, ForNobody, OperationFailed, TlsRead, HttpRead,
         Written, OptionSet, Removed, ForConnection
<1>2. Traffic'
  BY <1>1, TrafficStays DEF world
<1>3. ~ForNobody
  <2>1. SUFFICES ASSUME ForNobody PROVE FALSE
    OBVIOUS
  <2>2. /\ cq # << >> /\ cq' = Tail(cq) /\ Head(cq).op.type # "Accept"
        /\ slab[Head(cq).op.slot] = Vacant
    BY <2>1 DEF ForNobody, Completion, Completed, KtlsOps
  <2> QED
    BY <2>2, CompletionOwner
<1>4. \/ AcceptFailed \/ Accepted \/ OperationFailed
      \/ TlsRead \/ HttpRead \/ Written \/ OptionSet \/ Removed
  BY <1>3 DEF Handle
<1>5. ASSUME running' PROVE Flow'
  BY <1>4, <1>5, AcceptFailedFlow, AcceptedFlow, OperationFailedFlow, TlsReadFlow,
     HttpReadFlow, WrittenFlow, OptionSetFlow, RemovedFlow, Zenon
<1> QED
  BY <1>2, <1>5

LEMMA ResponsesInit == Init => ResponsesInv
<1> SUFFICES ASSUME Init, refused = {} PROVE Traffic /\ RingInv /\ Flow
  BY DEF ResponsesInv
<1>1. RingInv
  BY ServerInit DEF Init, ServerInv
<1>2. /\ read = [c \in Clients |-> 0] /\ got = [c \in Clients |-> << >>]
      /\ inflight = <<NextAccept>> /\ cq = << >> /\ waiting = Clients
  BY DEF Init, NextAccept
<1>3. \A c \in Clients : IsScript(script[c])
  BY ServerAssumption DEF Init
<1>4. ASSUME NEW c \in Clients PROVE read[c] <= Len(script[c]) /\ InOrder(c)
  <2>1. Delivered(script[c], << >>, 0, 0) /\ 0 \in Nat /\ << >> \in Seq(Parts)
    BY NothingDelivered
  <2>2. Len(script[c]) \in Nat
    BY <1>3, ScriptFacts
  <2> QED
    BY <1>2, <1>3, <2>1, <2>2 DEF InOrder
<1>5. Traffic
  BY <1>2, <1>4 DEF Traffic
<1>6. DOMAIN inflight = {1} /\ inflight[1] = NextAccept /\ DOMAIN cq = {}
  <2>1. DOMAIN << >> = {}
    OBVIOUS
  <2> QED
    BY <1>2, <2>1, Singles
<1>7. Flow
  BY <1>2, <1>6, AcceptIsFree DEF Flow, OpFlow, Fresh
<1> QED
  BY <1>1, <1>5, <1>7

LEMMA ResponsesNext == ResponsesInv /\ [Next]_vars => ResponsesInv'
<1> SUFFICES ASSUME ResponsesInv, [Next]_vars, refused' = {}
             PROVE  Traffic' /\ (running' => RingInv' /\ Flow')
  BY DEF ResponsesInv
<1>1. CASE UNCHANGED vars
  <2>1. /\ UNCHANGED <<script, read, got>> /\ UNCHANGED <<slab, inflight, cq, read, got, waiting>>
        /\ UNCHANGED <<slab, vacant, waiting, inflight, cq>> /\ Views' = Views
        /\ refused = {} /\ running' = running
    BY <1>1, ViewsStay DEF vars
  <2>2. Traffic /\ (running => RingInv /\ Flow)
    BY <2>1 DEF ResponsesInv
  <2>3. Traffic'
    BY <2>1, <2>2, TrafficStays
  <2>4. \A c \in Clients : Later(Views[c], Views'[c])
    BY <2>1 DEF Later
  <2> QED
    BY <2>1, <2>2, <2>3, <2>4, RingUnchanged, FlowLater
<1>2. ASSUME running, refused = {} PROVE Traffic /\ RingInv /\ Flow /\ ServerInv
  BY <1>2 DEF ResponsesInv, ServerInv
<1>3. ASSUME running, refused = {}, running' PROVE RingInv'
  <2>1. ServerInv'
    BY <1>2, <1>3, ServerNext
  <2> QED
    BY <1>3, <2>1 DEF ServerInv
<1>4. CASE Handle
  <2>1. refused = {} /\ running
    BY <1>4 DEF Handle, AcceptFailed, Accepted, ForNobody, OperationFailed, TlsRead, HttpRead,
               Written, OptionSet, Removed, ForConnection, Completion, world
  <2>2. Traffic' /\ (running' => Flow')
    BY <1>2, <1>4, <2>1, HandleFlow
  <2> QED
    BY <1>3, <2>1, <2>2
<1>5. CASE Kernel
  <2>1. running /\ refused' = refused
    BY <1>5 DEF Kernel, KernelAccept, KernelRead, KernelWrite, KernelSetOption, KernelRefusesKtls,
               KernelClose, KernelGone, KernelAcceptFails, Completes, world
  <2>2. refused = {}
    BY <2>1
  <2>3. Traffic' /\ Flow'
    BY <1>2, <1>5, <2>1, <2>2, KernelFlow
  <2> QED
    BY <1>3, <2>1, <2>2, <2>3
<1>6. CASE running /\ \E c \in Clients : ClientCloses(c)
  <2>1. PICK c \in Clients : ClientCloses(c)
    BY <1>6
  <2>2. /\ gone' = gone \cup {c} /\ refused = {}
        /\ UNCHANGED <<script, read, got>> /\ UNCHANGED <<slab, inflight, cq, read, got, waiting>>
    BY <2>1 DEF ClientCloses
  <2>3. Traffic'
    BY <1>2, <1>6, <2>2, TrafficStays
  <2>4. \A d \in Clients : Later(Views[d], Views'[d])
    BY <2>2 DEF Views, Later
  <2>5. Flow'
    BY <1>2, <1>6, <2>2, <2>4, FlowLater
  <2> QED
    BY <1>3, <1>6, <2>2, <2>3, <2>5
<1> QED
  BY <1>1, <1>4, <1>5, <1>6 DEF Next

\* Whatever the clients pipeline, however reads and writes are cut and in
\* whatever order the kernel completes the operations, as long as it accepts
\* kTLS: what a client has received are the responses to its requests, whole
\* and in their order, and nothing follows the one that closes the connection
\* (pending_writes, handle_read and handle_write of the server's main.rs).
THEOREM ResponsesArriveInOrder == Spec => []ResponsesInOrder
<1>1. ResponsesInv => ResponsesInOrder
  <2> SUFFICES ASSUME Traffic, NEW c \in Clients
               PROVE  \E f \in 0..Len(got[c]) : Delivered(script[c], got[c], f, Len(got[c]) - f)
    BY DEF ResponsesInv, ResponsesInOrder
  <2>1. PICK f \in Nat, m \in Nat : Delivered(script[c], got[c], f, m)
    BY DEF Traffic, InOrder
  <2>2. PICK n : n = Len(got[c])
    OBVIOUS
  <2>3. n = f + m
    BY <2>1, <2>2 DEF Delivered
  <2>4. f \in 0..n /\ n - f = m
    BY <2>1, <2>3
  <2> QED
    BY <2>1, <2>2, <2>4
<1> QED
  BY <1>1, ResponsesInit, ResponsesNext, PTL DEF Spec
=============================================================================
