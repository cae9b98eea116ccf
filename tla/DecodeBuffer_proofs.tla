------------------------- MODULE DecodeBuffer_proofs -------------------------
(***************************************************************************)
(* Proofs about the decoders' input buffer: for every byte alphabet, every *)
(* limit and every length of frames, the write-frame protocol loses, adds  *)
(* or reorders no byte, respects the limit, and implements a plain queue.  *)
(*                                                                         *)
(* TypeOK /\ ConfirmedIntact /\ WithinCapacity is inductive: TypeOK keeps  *)
(* the frame inside the buffer, which is what makes "the buffer before the *)
(* frame" meaningful.  Each operation has a lemma that says what it does   *)
(* to `confirmed`; invariance and refinement both follow from these.       *)
(***************************************************************************)
EXTENDS DecodeBuffer, SliceLemmas

BufferInv == TypeOK /\ ConfirmedIntact /\ WithinCapacity

-----------------------------------------------------------------------------
\* The confirmed bytes are a sequence, and the whole buffer without a frame.
LEMMA ConfirmedLen ==
    ASSUME TypeOK
    PROVE  /\ Len(buf) \in Nat
           /\ confirmed \in Seq(Bytes)
           /\ Len(confirmed) = Len(buf) - pending
           /\ pending = 0 => confirmed = buf
<1>1. Len(buf) \in Nat /\ pending \in 0..Len(buf)
  BY LenProperties DEF TypeOK
<1>2. buf \in Seq(Bytes)
  BY DEF TypeOK
<1>3. /\ SubSeq(buf, 1, Len(buf) - pending) \in Seq(Bytes)
      /\ Len(SubSeq(buf, 1, Len(buf) - pending)) = Len(buf) - pending
  BY <1>1, <1>2, Slice
<1>4. pending = 0 => SubSeq(buf, 1, Len(buf) - pending) = buf
  BY <1>1, <1>2, SubSeqFull
<1> QED
  BY <1>1, <1>3, <1>4 DEF confirmed, Prefix

\* The same in the next state.
LEMMA ConfirmedLenNext ==
    ASSUME TypeOK'
    PROVE  /\ Len(buf') \in Nat
           /\ pending' = 0 => confirmed' = buf'
<1>1. Len(buf') \in Nat /\ buf' \in Seq(Bytes)
  BY LenProperties DEF TypeOK
<1>2. pending' = 0 => SubSeq(buf', 1, Len(buf') - pending') = buf'
  BY <1>1, SubSeqFull
<1> QED
  BY <1>1, <1>2 DEF confirmed, Prefix

LEMMA DeliveryIsSeq ==
    ASSUME NEW data \in Deliveries
    PROVE  data \in Seq(Bytes) /\ Len(data) \in Nat
<1>1. PICK n \in 1..MaxFrame : data \in [1..n -> Bytes]
  BY DEF Deliveries
<1>2. n \in Nat
  BY BufferAssumption
<1>3. data \in Seq(Bytes)
  BY <1>1, <1>2, SeqDef
<1> QED
  BY <1>3, LenProperties

-----------------------------------------------------------------------------
\* feed and feed_unchecked append.
LEMMA FeedEffect ==
    ASSUME TypeOK, NEW data \in Deliveries, Feed(data) \/ FeedUnchecked(data)
    PROVE  /\ TypeOK'
           /\ confirmed' = confirmed \o data
           /\ Len(buf') = Len(buf) + Len(data)
           /\ pending = 0 /\ unbounded' = unbounded
           /\ unbounded \/ Len(buf) + Len(data) <= MaxBuffer
<1>1. /\ pending = 0 /\ pending' = 0 /\ unbounded' = unbounded
      /\ buf' = buf \o data /\ stream' = stream \o data /\ drained' = drained
      /\ unbounded \/ Len(buf) + Len(data) <= MaxBuffer
  BY DEF Feed, FeedUnchecked
<1>2. data \in Seq(Bytes) /\ Len(data) \in Nat
  BY DeliveryIsSeq
<1>3. /\ buf \in Seq(Bytes) /\ stream \in Seq(Bytes)
      /\ Len(buf) \in Nat /\ Len(stream) \in Nat
      /\ drained \in 0..Len(stream) /\ unbounded \in BOOLEAN
  BY LenProperties DEF TypeOK
<1>4. /\ buf' \in Seq(Bytes) /\ Len(buf') = Len(buf) + Len(data)
      /\ stream' \in Seq(Bytes) /\ Len(stream') = Len(stream) + Len(data)
  BY <1>1, <1>2, <1>3, ConcatProperties
<1>5. pending' \in 0..Len(buf') /\ drained' \in 0..Len(stream')
  BY <1>1, <1>2, <1>3, <1>4
<1>6. TypeOK'
  BY <1>1, <1>3, <1>4, <1>5 DEF TypeOK
<1>7. confirmed = buf /\ confirmed' = buf'
  BY <1>1, <1>6, ConfirmedLen, ConfirmedLenNext
<1> QED
  BY <1>1, <1>4, <1>6, <1>7

\* mut_buf, granted or refused, leaves the confirmed bytes alone.
LEMMA MutBufEffect ==
    ASSUME TypeOK, NEW len \in 0..MaxFrame, MutBuf(len)
    PROVE  /\ TypeOK'
           /\ confirmed' = confirmed
           /\ Len(buf') <= MaxBuffer \/ Len(buf') <= Len(buf)
<1>1. /\ confirmed \in Seq(Bytes) /\ Len(confirmed) = Len(buf) - pending
      /\ Len(buf) \in Nat /\ pending \in 0..Len(buf) /\ len \in Nat
  BY ConfirmedLen, BufferAssumption DEF TypeOK
<1>2. /\ stream' = stream /\ drained' = drained /\ unbounded' = unbounded
  BY DEF MutBuf
<1>3. CASE Len(confirmed) + len > MaxBuffer
  <2>1. buf' = confirmed /\ pending' = 0
    BY <1>3 DEF MutBuf
  <2>2. TypeOK'
    BY <1>1, <1>2, <2>1 DEF TypeOK
  <2> QED
    BY <1>1, <2>1, <2>2, ConfirmedLenNext
<1>4. CASE ~(Len(confirmed) + len > MaxBuffer)
  <2>1. buf' = confirmed \o Zeros(len) /\ pending' = len
    BY <1>4 DEF MutBuf
  <2>2. Zeros(len) \in [1..len -> Bytes]
    BY BufferAssumption DEF Zeros
  <2>3. Zeros(len) \in Seq(Bytes)
    BY <1>1, <2>2, SeqDef
  <2>4. Len(Zeros(len)) = len
    BY <1>1, <2>2, <2>3, LenProperties
  <2>5. buf' \in Seq(Bytes) /\ Len(buf') = Len(confirmed) + len
    BY <1>1, <2>1, <2>3, <2>4, ConcatProperties
  <2>6. TypeOK'
    BY <1>1, <1>2, <2>1, <2>5 DEF TypeOK
  <2>7. confirmed' = SubSeq(confirmed \o Zeros(len), 1, Len(confirmed))
    BY <1>1, <2>1, <2>5 DEF confirmed, Prefix
  <2>8. confirmed' = confirmed
    BY <1>1, <2>3, <2>7, PrefixOfConcat, SubSeqFull
  <2> QED
    BY <1>1, <1>4, <2>5, <2>6, <2>8, BufferAssumption
<1> QED
  BY <1>3, <1>4

\* Writing into the frame does not reach the confirmed bytes.
LEMMA FillEffect ==
    ASSUME TypeOK, NEW data \in Deliveries, Fill(data)
    PROVE  TypeOK' /\ confirmed' = confirmed /\ Len(buf') = Len(buf)
<1> DEFINE c == confirmed
           rest == SubSeq(buf, Len(c) + Len(data) + 1, Len(buf))
<1>1. /\ c \in Seq(Bytes) /\ Len(c) = Len(buf) - pending
      /\ Len(buf) \in Nat /\ pending \in 0..Len(buf) /\ buf \in Seq(Bytes)
  BY ConfirmedLen DEF TypeOK
<1>2. data \in Seq(Bytes) /\ Len(data) \in Nat
  BY DeliveryIsSeq
<1>3. /\ Len(data) <= pending /\ buf' = (c \o data) \o rest
      /\ pending' = pending /\ unbounded' = unbounded
      /\ stream' = stream /\ drained' = drained
  BY DEF Fill, Suffix
<1>4. rest \in Seq(Bytes) /\ Len(rest) = Len(buf) - Len(c) - Len(data)
  BY <1>1, <1>2, <1>3, Slice
<1> HIDE DEF rest
<1>5. c \o data \in Seq(Bytes) /\ Len(c \o data) = Len(c) + Len(data)
  BY <1>1, <1>2, ConcatProperties
<1>6. buf' \in Seq(Bytes) /\ Len(buf') = Len(c \o data) + Len(rest)
  BY <1>3, <1>4, <1>5, ConcatProperties
<1>7. Len(buf') = Len(buf)
  BY <1>1, <1>2, <1>4, <1>5, <1>6
<1>8. TypeOK'
  BY <1>1, <1>3, <1>6, <1>7 DEF TypeOK
<1>9. confirmed' = SubSeq((c \o data) \o rest, 1, Len(c))
  BY <1>1, <1>3, <1>7 DEF confirmed, Prefix
<1>10. SubSeq((c \o data) \o rest, 1, Len(c)) = SubSeq(c \o data, 1, Len(c))
  BY <1>1, <1>2, <1>4, <1>5, PrefixOfConcat
<1>11. SubSeq(c \o data, 1, Len(c)) = c
  BY <1>1, <1>2, PrefixOfConcat, SubSeqFull
<1> QED
  BY <1>7, <1>8, <1>9, <1>10, <1>11

\* What advance_buf confirms: `piece`, the front of the frame.
LEMMA AdvanceBufEffect ==
    ASSUME TypeOK, NEW len \in 0..MaxFrame, AdvanceBuf(len)
    PROVE  LET kept == IF len <= pending THEN len ELSE pending
               piece == SubSeq(buf, Len(confirmed) + 1, Len(confirmed) + kept)
           IN  /\ TypeOK'
               /\ piece \in Seq(Bytes) /\ Len(piece) = kept
               /\ kept \in Nat /\ kept <= len
               /\ confirmed' = confirmed \o piece
               /\ stream' = stream \o piece
               /\ drained' = drained /\ unbounded' = unbounded
               /\ Len(buf') = Len(confirmed) + kept
               /\ Len(confirmed) + kept <= Len(buf)
<1> DEFINE c == confirmed
           kept == IF len <= pending THEN len ELSE pending
           piece == SubSeq(buf, Len(c) + 1, Len(c) + kept)
<1>1. /\ c \in Seq(Bytes) /\ Len(c) = Len(buf) - pending
      /\ Len(buf) \in Nat /\ pending \in 0..Len(buf) /\ len \in Nat
      /\ buf \in Seq(Bytes) /\ stream \in Seq(Bytes) /\ Len(stream) \in Nat
      /\ drained \in 0..Len(stream)
  BY ConfirmedLen, BufferAssumption, LenProperties DEF TypeOK
<1>2. kept \in Nat /\ kept <= pending /\ kept <= len
  BY <1>1
<1>3. /\ buf' = SubSeq(buf, 1, Len(buf) - (pending - kept))
      /\ pending' = 0 /\ stream' = stream \o piece
      /\ drained' = drained /\ unbounded' = unbounded
  BY DEF AdvanceBuf, Prefix
<1> HIDE DEF kept
<1>4. piece \in Seq(Bytes) /\ Len(piece) = kept
  BY <1>1, <1>2, Slice
<1>5. buf' \in Seq(Bytes) /\ Len(buf') = Len(c) + kept
  BY <1>1, <1>2, <1>3, Slice
<1>6. stream' \in Seq(Bytes) /\ Len(stream') = Len(stream) + kept
  BY <1>1, <1>3, <1>4, ConcatProperties
<1>7. TypeOK'
  BY <1>1, <1>2, <1>3, <1>5, <1>6 DEF TypeOK
<1>8. buf' = SubSeq(buf, 1, Len(c) + kept)
  BY <1>1, <1>2, <1>3
<1>9. c = SubSeq(buf, 1, Len(c))
  BY <1>1 DEF confirmed, Prefix
<1>10. SubSeq(buf, 1, Len(c)) \o piece = SubSeq(buf, 1, Len(c) + kept)
  <2>1. Len(c) \in Nat /\ Len(c) + kept <= Len(buf)
    BY <1>1, <1>2
  <2> HIDE DEF c
  <2> QED
    BY <1>1, <1>2, <2>1, PrefixExtends
<1>11. confirmed' = c \o piece
  BY <1>3, <1>7, <1>8, <1>9, <1>10, ConfirmedLenNext
<1>12. Len(c) + kept <= Len(buf)
  BY <1>1, <1>2
<1> QED
  BY <1>2, <1>3, <1>4, <1>5, <1>7, <1>11, <1>12 DEF kept

\* The parser takes a prefix of what is confirmed.
LEMMA DrainEffect ==
    ASSUME TypeOK, ConfirmedIntact, NEW n \in 1..Len(buf), Drain(n)
    PROVE  /\ TypeOK' /\ ConfirmedIntact'
           /\ confirmed' = SubSeq(confirmed, n + 1, Len(confirmed))
           /\ n <= Len(confirmed) /\ Len(buf') <= Len(buf)
           /\ unbounded' = unbounded
<1>1. /\ buf \in Seq(Bytes) /\ stream \in Seq(Bytes)
      /\ Len(buf) \in Nat /\ Len(stream) \in Nat /\ drained \in 0..Len(stream)
  BY LenProperties DEF TypeOK
<1>2. /\ pending = 0 /\ pending' = 0 /\ unbounded' = unbounded
      /\ buf' = SubSeq(buf, n + 1, Len(buf))
      /\ stream' = stream /\ drained' = drained + n
  BY DEF Drain, Suffix
<1>3. confirmed = buf
  BY <1>2, ConfirmedLen
<1>4. buf = SubSeq(stream, drained + 1, Len(stream))
  BY <1>3 DEF ConfirmedIntact, Suffix
<1>5. Len(buf) = Len(stream) - drained
  BY <1>1, <1>4, Slice
<1>6. buf' \in Seq(Bytes) /\ Len(buf') = Len(buf) - n
  BY <1>1, <1>2, Slice
<1>7. drained + n \in 0..Len(stream)
  BY <1>1, <1>5
<1>8. TypeOK'
  BY <1>1, <1>2, <1>6, <1>7 DEF TypeOK
<1>9. confirmed' = buf'
  BY <1>2, <1>8, ConfirmedLenNext
<1>10. buf' = SubSeq(stream, drained + n + 1, Len(stream))
  BY <1>1, <1>2, <1>4, <1>5, SuffixOfSuffix
<1>11. ConfirmedIntact'
  BY <1>1, <1>2, <1>9, <1>10 DEF ConfirmedIntact, Suffix
<1> QED
  BY <1>1, <1>2, <1>3, <1>6, <1>8, <1>9, <1>11

\* Appending the same bytes to the buffer and to the history keeps the two in
\* step.
LEMMA AppendIntact ==
    ASSUME TypeOK, ConfirmedIntact, NEW x \in Seq(Bytes),
           confirmed' = confirmed \o x, stream' = stream \o x, drained' = drained
    PROVE  ConfirmedIntact'
<1>1. stream \in Seq(Bytes) /\ drained \in Nat /\ drained <= Len(stream)
  BY LenProperties DEF TypeOK
<1>2. SubSeq(stream \o x, drained + 1, Len(stream \o x))
        = SubSeq(stream, drained + 1, Len(stream)) \o x
  BY <1>1, SuffixOfConcat
<1> QED
  BY <1>2 DEF ConfirmedIntact, Suffix

-----------------------------------------------------------------------------
LEMMA BufferInvInit == Init => BufferInv
<1> SUFFICES ASSUME Init PROVE BufferInv
  OBVIOUS
<1>1. /\ buf = << >> /\ pending = 0 /\ unbounded \in BOOLEAN
      /\ stream = << >> /\ drained = 0
  BY DEF Init
<1>2. << >> \in Seq(Bytes) /\ Len(<< >>) = 0
  BY EmptySeq
<1>3. TypeOK
  BY <1>1, <1>2 DEF TypeOK
<1>4. SubSeq(<< >>, 1, 0) = << >>
  BY SubSeqEmpty
<1>5. ConfirmedIntact
  BY <1>1, <1>2, <1>4 DEF ConfirmedIntact, confirmed, Prefix, Suffix
<1>6. WithinCapacity
  BY <1>1, <1>2, BufferAssumption DEF WithinCapacity
<1> QED
  BY <1>3, <1>5, <1>6 DEF BufferInv

LEMMA BufferInvStep == BufferInv /\ [Next]_vars => BufferInv'
<1> SUFFICES ASSUME BufferInv, [Next]_vars PROVE BufferInv'
  OBVIOUS
<1>1. TypeOK /\ ConfirmedIntact /\ WithinCapacity /\ Len(buf) \in Nat
  BY ConfirmedLen DEF BufferInv
<1>2. ASSUME NEW data \in Deliveries, Feed(data) \/ FeedUnchecked(data)
      PROVE  BufferInv'
  <2>1. stream' = stream \o data /\ drained' = drained
    BY <1>2 DEF Feed, FeedUnchecked
  <2>2. ConfirmedIntact'
    BY <1>1, <1>2, <2>1, FeedEffect, DeliveryIsSeq, AppendIntact
  <2>3. /\ unbounded' = unbounded /\ Len(buf') = Len(buf) + Len(data)
        /\ unbounded \/ Len(buf) + Len(data) <= MaxBuffer
    BY <1>1, <1>2, FeedEffect
  <2>4. WithinCapacity'
    BY <2>3 DEF WithinCapacity
  <2> QED
    BY <1>1, <1>2, <2>2, <2>4, FeedEffect DEF BufferInv
<1>3. ASSUME NEW data \in Deliveries, Fill(data)
      PROVE  BufferInv'
  <2>1. TypeOK' /\ confirmed' = confirmed /\ Len(buf') = Len(buf)
    BY <1>1, <1>3, FillEffect
  <2>2. stream' = stream /\ drained' = drained /\ unbounded' = unbounded
    BY <1>3 DEF Fill
  <2> QED
    BY <1>1, <2>1, <2>2 DEF BufferInv, ConfirmedIntact, Suffix, WithinCapacity
<1>4. ASSUME NEW len \in 0..MaxFrame, MutBuf(len)
      PROVE  BufferInv'
  <2>1. /\ TypeOK' /\ confirmed' = confirmed
        /\ Len(buf') <= MaxBuffer \/ Len(buf') <= Len(buf)
    BY <1>1, <1>4, MutBufEffect
  <2>2. stream' = stream /\ drained' = drained /\ unbounded' = unbounded
    BY <1>4 DEF MutBuf
  <2>3. ConfirmedIntact'
    BY <1>1, <2>1, <2>2 DEF ConfirmedIntact, Suffix
  <2>4. Len(buf') \in Nat
    BY <2>1, ConfirmedLenNext
  <2>5. WithinCapacity'
    BY <1>1, <2>1, <2>2, <2>4, BufferAssumption DEF WithinCapacity
  <2> QED
    BY <2>1, <2>3, <2>5 DEF BufferInv
<1>5. ASSUME NEW len \in 0..MaxFrame, AdvanceBuf(len)
      PROVE  BufferInv'
  <2>1. ConfirmedIntact'
    BY <1>1, <1>5, AdvanceBufEffect, AppendIntact
  <2>2. TypeOK' /\ unbounded' = unbounded /\ Len(buf') <= Len(buf)
    BY <1>1, <1>5, AdvanceBufEffect
  <2>3. Len(buf') \in Nat
    BY <2>2, ConfirmedLenNext
  <2>4. WithinCapacity'
    BY <1>1, <2>2, <2>3, BufferAssumption DEF WithinCapacity
  <2> QED
    BY <2>1, <2>2, <2>4 DEF BufferInv
<1>6. ASSUME NEW n \in 1..Len(buf), Drain(n)
      PROVE  BufferInv'
  <2>1. /\ TypeOK' /\ ConfirmedIntact'
        /\ Len(buf') <= Len(buf) /\ unbounded' = unbounded
    BY <1>1, <1>6, DrainEffect
  <2>2. Len(buf') \in Nat
    BY <2>1, ConfirmedLenNext
  <2>3. WithinCapacity'
    BY <1>1, <2>1, <2>2, BufferAssumption DEF WithinCapacity
  <2> QED
    BY <2>1, <2>3 DEF BufferInv
<1>7. CASE UNCHANGED vars
  BY <1>1, <1>7 DEF BufferInv, vars, TypeOK, ConfirmedIntact, WithinCapacity,
                    confirmed, Prefix, Suffix
<1> QED
  BY <1>2, <1>3, <1>4, <1>5, <1>6, <1>7 DEF Next

LEMMA BufferInvariant == Spec => []BufferInv
  BY BufferInvInit, BufferInvStep, PTL DEF Spec

\* The fields of the buffer keep their types; in particular the frame always
\* lies within the buffer, so none of the subtractions of buffer.rs underflows.
THEOREM BufferTypeCorrect == Spec => []TypeOK
  BY BufferInvariant, PTL DEF BufferInv

\* Whatever frames are opened, filled, dropped, refused and confirmed, the
\* parser sees exactly the bytes that were confirmed, in order.
THEOREM BufferIntact == Spec => []ConfirmedIntact
  BY BufferInvariant, PTL DEF BufferInv

\* feed and mut_buf keep the buffer, its frame included, within
\* max_buffer_size for a caller that does not use feed_unchecked.
THEOREM BufferBounded == Spec => []WithinCapacity
  BY BufferInvariant, PTL DEF BufferInv

-----------------------------------------------------------------------------
\* The refinement: every step is a delivery, a drain, or invisible.
LEMMA QueueStep == BufferInv /\ [Next]_vars => [Queue!QueueNext]_(Queue!queueVars)
<1> SUFFICES ASSUME BufferInv, [Next]_vars
             PROVE  [Queue!QueueNext]_(Queue!queueVars)
  OBVIOUS
<1>1. TypeOK /\ ConfirmedIntact /\ WithinCapacity
  BY DEF BufferInv
<1>2. ASSUME NEW data \in Deliveries, Feed(data) \/ FeedUnchecked(data)
      PROVE  Queue!QueueNext
  <2>1. /\ confirmed' = confirmed \o data /\ unbounded' = unbounded
        /\ pending = 0 /\ (unbounded \/ Len(buf) + Len(data) <= MaxBuffer)
    BY <1>1, <1>2, FeedEffect
  <2>2. confirmed = buf
    BY <1>1, <2>1, ConfirmedLen
  <2>3. Queue!Put(data)
    BY <2>1, <2>2 DEF Queue!Put
  <2> QED
    BY <2>3 DEF Queue!QueueNext
<1>3. ASSUME NEW data \in Deliveries, Fill(data)
      PROVE  UNCHANGED Queue!queueVars
  BY <1>1, <1>3, FillEffect DEF Queue!queueVars, Fill
<1>4. ASSUME NEW len \in 0..MaxFrame, MutBuf(len)
      PROVE  UNCHANGED Queue!queueVars
  BY <1>1, <1>4, MutBufEffect DEF Queue!queueVars, MutBuf
<1>5. ASSUME NEW len \in 0..MaxFrame, AdvanceBuf(len)
      PROVE  [Queue!QueueNext]_(Queue!queueVars)
  <2> DEFINE kept == IF len <= pending THEN len ELSE pending
             piece == SubSeq(buf, Len(confirmed) + 1, Len(confirmed) + kept)
  <2>1. /\ piece \in Seq(Bytes) /\ Len(piece) = kept
        /\ kept \in Nat /\ kept <= len
        /\ confirmed' = confirmed \o piece /\ unbounded' = unbounded
        /\ Len(confirmed) + kept <= Len(buf)
    BY <1>1, <1>5, AdvanceBufEffect
  <2>2. /\ confirmed \in Seq(Bytes) /\ Len(buf) \in Nat /\ len \in Nat /\ len <= MaxFrame
        /\ Len(confirmed) \in Nat
    BY <1>1, ConfirmedLen, LenProperties, BufferAssumption
  <2> HIDE DEF kept, piece
  <2>3. CASE kept = 0
    <3>1. piece = << >>
      BY <2>1, <2>3, EmptySeq
    <3>2. confirmed' = confirmed
      BY <2>1, <2>2, <3>1, ConcatEmptySeq
    <3> QED
      BY <2>1, <3>2 DEF Queue!queueVars
  <2>4. CASE kept # 0
    <3>1. kept \in 1..MaxFrame
      BY <2>1, <2>2, <2>4, BufferAssumption
    <3>2. piece \in [1..kept -> Bytes]
      BY <2>1, LenProperties
    <3>3. piece \in Deliveries
      BY <3>1, <3>2 DEF Deliveries
    <3>4. unbounded \/ Len(confirmed) + Len(piece) <= MaxBuffer
      BY <1>1, <2>1, <2>2, BufferAssumption DEF WithinCapacity
    <3>5. Queue!Put(piece)
      BY <2>1, <3>4 DEF Queue!Put
    <3> QED
      BY <3>3, <3>5 DEF Queue!QueueNext
  <2> QED
    BY <2>3, <2>4
<1>6. ASSUME NEW n \in 1..Len(buf), Drain(n)
      PROVE  Queue!QueueNext
  <2>1. /\ confirmed' = SubSeq(confirmed, n + 1, Len(confirmed))
        /\ n <= Len(confirmed) /\ unbounded' = unbounded
    BY <1>1, <1>6, DrainEffect
  <2>2. Len(confirmed) \in Nat /\ Len(buf) \in Nat
    BY <1>1, ConfirmedLen, LenProperties
  <2>3. n \in 1..Len(confirmed)
    BY <2>1, <2>2
  <2>4. Queue!Take(n)
    BY <2>1 DEF Queue!Take
  <2> QED
    BY <2>3, <2>4 DEF Queue!QueueNext
<1>7. CASE UNCHANGED vars
  BY <1>7 DEF vars, Queue!queueVars, confirmed, Prefix
<1> QED
  BY <1>2, <1>3, <1>4, <1>5, <1>6, <1>7 DEF Next

LEMMA QueueInitially == Init => Queue!QueueInit
<1> SUFFICES ASSUME Init PROVE Queue!QueueInit
  OBVIOUS
<1>1. buf = << >> /\ pending = 0 /\ unbounded \in BOOLEAN
  BY DEF Init
<1>2. Len(<< >>) = 0 /\ SubSeq(<< >>, 1, 0) = << >>
  BY EmptySeq, SubSeqEmpty
<1> QED
  BY <1>1, <1>2 DEF Queue!QueueInit, confirmed, Prefix

\* Seen from the parser, buffer.rs is a queue of confirmed deliveries: the
\* write-frame protocol is unobservable, for every limit and frame length.
THEOREM BufferImplementsQueue == Spec => ImplementsQueue
  BY QueueInitially, QueueStep, BufferInvariant, PTL
     DEF Spec, ImplementsQueue, Queue!QueueSpec
=============================================================================
