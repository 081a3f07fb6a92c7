------------------------- MODULE SerialRings_proofs -------------------------
(***************************************************************************)
(* For every buffer size from 1 to 254: the rings are bounded queues.      *)
(*                                                                         *)
(* The transmit interrupt takes a byte without looking whether there is    *)
(* one, so the refinement needs an invariant, TransmitSafe: the interrupt  *)
(* is disabled when the ring is empty, and the store that makes it not     *)
(* empty cannot be undone before the enable that follows it.               *)
(***************************************************************************)
EXTENDS SerialRings, SequenceTheorems, TLAPS

-----------------------------------------------------------------------------
\* Index arithmetic.  A ring of R slots holds R - 1 bytes.

\* An index stays in the ring.
LEMMA NextRange ==
  ASSUME NEW R \in 2..255, NEW i \in 0..(R - 1)
  PROVE  NextSlot(i, R) \in 0..(R - 1)
  BY DEF NextSlot

\* The number of used slots fits the capacity; it is zero exactly when the indices meet.
LEMMA UsedRange ==
  ASSUME NEW R \in 2..255, NEW h \in 0..(R - 1), NEW t \in 0..(R - 1)
  PROVE  Used(h, t, R) \in 0..(R - 1)
  BY DEF Used
LEMMA UsedZero ==
  ASSUME NEW R \in 2..255, NEW h \in 0..(R - 1), NEW t \in 0..(R - 1)
  PROVE  Used(h, t, R) = 0 <=> h = t
  BY DEF Used

\* Advancing the head of a ring that is not full adds one used slot.
LEMMA UsedPut ==
  ASSUME NEW R \in 2..255, NEW h \in 0..(R - 1), NEW t \in 0..(R - 1), NextSlot(h, R) # t
  PROVE  Used(NextSlot(h, R), t, R) = Used(h, t, R) + 1
  BY DEF Used, NextSlot

\* Advancing the tail of a ring that is not empty frees one.
LEMMA UsedGet ==
  ASSUME NEW R \in 2..255, NEW h \in 0..(R - 1), NEW t \in 0..(R - 1), h # t
  PROVE  Used(h, NextSlot(t, R), R) = Used(h, t, R) - 1
  BY DEF Used, NextSlot

\* The k-th used slot is in the ring, is not the head, and is the slot before the head for the
\* last k of a ring one has put a byte into.
LEMMA SlotRange ==
  ASSUME NEW R \in 2..255, NEW h \in 0..(R - 1), NEW t \in 0..(R - 1), NEW k \in 1..Used(h, t, R)
  PROVE  Slot(t, k, R) \in 0..(R - 1) /\ Slot(t, k, R) # h
  BY DEF Used, Slot
LEMMA SlotHead ==
  ASSUME NEW R \in 2..255, NEW h \in 0..(R - 1), NEW t \in 0..(R - 1)
  PROVE  Slot(t, Used(h, t, R) + 1, R) = h
  BY DEF Used, Slot
LEMMA SlotTail ==
  ASSUME NEW R \in 2..255, NEW h \in 0..(R - 1), NEW t \in 0..(R - 1), h # t,
         NEW k \in 1..(Used(h, t, R) - 1)
  PROVE  Slot(NextSlot(t, R), k, R) = Slot(t, k + 1, R)
  BY DEF Used, Slot, NextSlot

-----------------------------------------------------------------------------
\* The sequence a ring stands for.

\* It is a sequence of bytes, as long as the ring has used slots.
LEMMA ContentType ==
  ASSUME NEW R \in 2..255, NEW S, NEW buffer \in [0..(R - 1) -> S],
         NEW h \in 0..(R - 1), NEW t \in 0..(R - 1)
  PROVE  Content(buffer, h, t, R) \in Seq(S)
  <1> DEFINE n == Used(h, t, R)
  <1>0. n \in 0..(R - 1)
    BY ZenonT(60), UsedRange
  <1>1. n \in Nat
    BY <1>0
  <1>2. \A k \in 1..n : buffer[Slot(t, k, R)] \in S
    BY ZenonT(60), SlotRange
  <1>3. Content(buffer, h, t, R) = [k \in 1..n |-> buffer[Slot(t, k, R)]]
    BY DEF Content
  <1> HIDE DEF n
  <1>4. QED
    BY <1>1, <1>2, <1>3
LEMMA ContentLen ==
  ASSUME NEW R \in 2..255, NEW S, NEW buffer \in [0..(R - 1) -> S],
         NEW h \in 0..(R - 1), NEW t \in 0..(R - 1)
  PROVE  Len(Content(buffer, h, t, R)) = Used(h, t, R)
  <1>0. Used(h, t, R) \in 0..(R - 1)
    BY ZenonT(60), UsedRange
  <1>1. Used(h, t, R) \in Nat
    BY <1>0
  <1>2. QED
    BY <1>1 DEF Content

\* A store into a ring that is not full appends.  Its types are one predicate, so that the lemma
\* can be matched.
IsRing(R, S, buffer, h, t) ==
  R \in 2..255 /\ buffer \in [0..(R - 1) -> S] /\ h \in 0..(R - 1) /\ t \in 0..(R - 1)
Stored(buffer, h, b) == [buffer EXCEPT ![h] = b]
LEMMA ContentPut ==
  ASSUME NEW R, NEW S, NEW buffer, NEW h, NEW t, IsRing(R, S, buffer, h, t),
         NextSlot(h, R) # t, NEW b \in S
  PROVE  Content(Stored(buffer, h, b), NextSlot(h, R), t, R)
           = Append(Content(buffer, h, t, R), b)
  <1> DEFINE n == Used(h, t, R)
             c == Content(buffer, h, t, R)
             h2 == NextSlot(h, R)
             b2 == Stored(buffer, h, b)
             c2 == Content(b2, h2, t, R)
  <1>0. R \in 2..255 /\ buffer \in [0..(R - 1) -> S] /\ h \in 0..(R - 1) /\ t \in 0..(R - 1)
    BY DEF IsRing
  <1> USE <1>0
  <1>a. n \in 0..(R - 1)
    BY ZenonT(60), UsedRange
  <1>b. h2 \in 0..(R - 1)
    BY ZenonT(60), NextRange
  <1>c. Used(h2, t, R) = n + 1
    BY ZenonT(60), UsedPut
  <1>1. n \in Nat /\ h2 \in 0..(R - 1) /\ Used(h2, t, R) = n + 1
    BY <1>a, <1>b, <1>c
  <1>2. /\ b2 \in [0..(R - 1) -> S] /\ b2[h] = b /\ b2[h] \in S
        /\ \A i \in 0..(R - 1) : i # h => b2[i] = buffer[i]
    BY DEF Stored
  <1> HIDE DEF b2
  <1>d. c \in Seq(S)
    BY ZenonT(60), ContentType
  <1>e. Len(c) = n
    BY ZenonT(60), ContentLen
  <1>f. c2 \in Seq(S) /\ Len(c2) = Used(h2, t, R)
    <2> HIDE DEF h2
    <2>1. c2 \in Seq(S)
      BY ZenonT(60), <1>1, <1>2, ContentType
    <2>2. Len(c2) = Used(h2, t, R)
      BY ZenonT(60), <1>1, <1>2, ContentLen
    <2>3. QED
      BY <2>1, <2>2
  <1>3. c \in Seq(S) /\ Len(c) = n /\ c2 \in Seq(S) /\ Len(c2) = n + 1
    BY <1>1, <1>d, <1>e, <1>f
  <1>4. Append(c, b2[h]) \in Seq(S) /\ Len(Append(c, b2[h])) = n + 1
    BY <1>2, <1>3, AppendProperties
  <1>5. ASSUME NEW k \in 1..(n + 1) PROVE c2[k] = Append(c, b2[h])[k]
    <2>1. c2[k] = b2[Slot(t, k, R)]
      BY <1>1 DEF Content
    <2>2. CASE k = n + 1
      <3>1. Slot(t, n + 1, R) = h
        BY ZenonT(60), SlotHead
      <3>3. Append(c, b2[h])[n + 1] = b2[h]
        BY <1>2, <1>3, AppendProperties
      <3> HIDE DEF n, c, c2
      <3>4. QED
        BY <2>1, <2>2, <3>1, <3>3
    <2>3. CASE k \in 1..n
      <3>1. Slot(t, k, R) \in 0..(R - 1) /\ Slot(t, k, R) # h
        BY ZenonT(60), <2>3, SlotRange
      <3>2. c[k] = buffer[Slot(t, k, R)]
        BY <2>3 DEF Content
      <3>3. Append(c, b2[h])[k] = c[k]
        BY <2>3, <1>1, <1>2, <1>3, AppendProperties
      <3>4. b2[Slot(t, k, R)] = buffer[Slot(t, k, R)]
        BY <1>2, <3>1
      <3> HIDE DEF c, c2
      <3>5. QED
        BY <2>1, <3>2, <3>3, <3>4
    <2>4. k = n + 1 \/ k \in 1..n
      BY <1>1
    <2>5. QED
      BY ZenonT(60), <2>2, <2>3, <2>4
  <1> HIDE DEF n, c, h2, c2
  <1>6. c2 = Append(c, b2[h])
    BY <1>1, <1>3, <1>4, <1>5, SeqEqual
  <1>7. QED
    BY <1>2, <1>6 DEF b2, c, h2, c2

\* Advancing the tail of a ring that is not empty takes the first byte.
LEMMA ContentGet ==
  ASSUME NEW R \in 2..255, NEW S, NEW buffer \in [0..(R - 1) -> S],
         NEW h \in 0..(R - 1), NEW t \in 0..(R - 1),
         h # t
  PROVE  Content(buffer, h, NextSlot(t, R), R) = Tail(Content(buffer, h, t, R))
  <1> DEFINE n == Used(h, t, R)
             c == Content(buffer, h, t, R)
             t2 == NextSlot(t, R)
             c2 == Content(buffer, h, t2, R)
  <1>a. n \in 0..(R - 1)
    BY ZenonT(60), UsedRange
  <1>b. n # 0
    BY ZenonT(60), UsedZero
  <1>c. t2 \in 0..(R - 1)
    BY ZenonT(60), NextRange
  <1>d. Used(h, t2, R) = n - 1
    BY ZenonT(60), UsedGet
  <1>1. n \in Nat \ {0} /\ t2 \in 0..(R - 1) /\ Used(h, t2, R) = n - 1
    BY <1>a, <1>b, <1>c, <1>d
  <1>e. c \in Seq(S)
    BY ZenonT(60), ContentType
  <1>f. Len(c) = n
    BY ZenonT(60), ContentLen
  <1>g. c2 \in Seq(S) /\ Len(c2) = Used(h, t2, R)
    <2> HIDE DEF t2
    <2>1. c2 \in Seq(S)
      BY ZenonT(60), <1>1, ContentType
    <2>2. Len(c2) = Used(h, t2, R)
      BY ZenonT(60), <1>1, ContentLen
    <2>3. QED
      BY <2>1, <2>2
  <1>2. c \in Seq(S) /\ Len(c) = n /\ c2 \in Seq(S) /\ Len(c2) = n - 1
    BY <1>1, <1>e, <1>f, <1>g
  <1>3. Tail(c) \in Seq(S) /\ Len(Tail(c)) = n - 1 /\ \A k \in 1..(n - 1) : Tail(c)[k] = c[k + 1]
    BY <1>1, <1>2, HeadTailProperties
  <1>4. ASSUME NEW k \in 1..(n - 1) PROVE c2[k] = Tail(c)[k]
    <2>1. c2[k] = buffer[Slot(t2, k, R)]
      BY <1>1 DEF Content
    <2>2. k + 1 \in 1..n
      BY <1>1
    <2>3. c[k + 1] = buffer[Slot(t, k + 1, R)]
      BY <2>2 DEF Content
    <2>4. QED
      BY ZenonT(60), <2>1, <2>3, <1>3, SlotTail
  <1> HIDE DEF n, c, t2, c2
  <1>5. c2 = Tail(c)
    BY <1>1, <1>2, <1>3, <1>4, SeqEqual
  <1>6. QED
    BY <1>5 DEF n, c, t2, c2

\* The first byte is the one at the tail.
LEMMA ContentFirst ==
  ASSUME NEW R \in 2..255, NEW S, NEW buffer \in [0..(R - 1) -> S],
         NEW h \in 0..(R - 1), NEW t \in 0..(R - 1), h # t
  PROVE  Head(Content(buffer, h, t, R)) = buffer[t]
  <1>1. 1 \in 1..Used(h, t, R)
    BY DEF Used
  <1>2. Content(buffer, h, t, R)[1] = buffer[Slot(t, 1, R)]
    BY <1>1 DEF Content
  <1>3. Slot(t, 1, R) = t
    BY DEF Slot
  <1>4. QED
    BY <1>2, <1>3

-----------------------------------------------------------------------------
\* The inductive invariant.

\* The rings have between 2 and 255 slots.
LEMMA RingSizes ==
  /\ RxRing \in 2..255 /\ 0..RX_BUFFER_SIZE = 0..(RxRing - 1)
  /\ TxRing \in 2..255 /\ 0..TX_BUFFER_SIZE = 0..(TxRing - 1)
  BY RingAssumption DEF RxRing, TxRing

IInv == TypeOK /\ TransmitSafe

\* It holds initially: the rings are empty and the interrupt is off.
LEMMA InitInv == Init => IInv
  BY RingAssumption DEF Init, IInv, TypeOK, TransmitSafe, Pending, Used

\* What the two sides do to the number of bytes to send.
LEMMA PendingStore ==
  ASSUME IInv, WriteStore
  PROVE  tx_head' \in 0..TX_BUFFER_SIZE /\ Pending' = Pending + 1
  <1>1. tx_head \in 0..(TxRing - 1) /\ tx_tail \in 0..(TxRing - 1) /\ TxRing \in 2..255
    BY RingSizes DEF IInv, TypeOK
  <1>2. NextSlot(tx_head, TxRing) # tx_tail /\ tx_head' = NextSlot(tx_head, TxRing)
        /\ tx_tail' = tx_tail
    BY DEF WriteStore, TxFull
  <1>3. Used(NextSlot(tx_head, TxRing), tx_tail, TxRing) = Used(tx_head, tx_tail, TxRing) + 1
    BY ZenonT(60), <1>1, <1>2, UsedPut
  <1>4. NextSlot(tx_head, TxRing) \in 0..(TxRing - 1)
    BY ZenonT(60), <1>1, NextRange
  <1>5. QED
    BY <1>2, <1>3, <1>4, RingSizes DEF Pending
LEMMA PendingSend ==
  ASSUME IInv, UdreIsr
  PROVE  /\ tx_tail' \in 0..TX_BUFFER_SIZE /\ Pending > 0 /\ Pending' = Pending - 1
         /\ (udrie' <=> Pending' > 0)
  <1>1. tx_head \in 0..(TxRing - 1) /\ tx_tail \in 0..(TxRing - 1) /\ TxRing \in 2..255
    BY RingSizes DEF IInv, TypeOK
  <1>2. Used(tx_head, tx_tail, TxRing) \in 0..(TxRing - 1)
    BY ZenonT(60), <1>1, UsedRange
  <1>3. Pending > 0
    BY DEF IInv, TransmitSafe, TypeOK, UdreIsr, TxInterrupt
  <1>4. tx_head # tx_tail
    <2>1. Used(tx_head, tx_tail, TxRing) = 0 <=> tx_head = tx_tail
      BY ZenonT(60), <1>1, UsedZero
    <2>2. QED
      BY <2>1, <1>3 DEF Pending
  <1>5. Used(tx_head, NextSlot(tx_tail, TxRing), TxRing) = Used(tx_head, tx_tail, TxRing) - 1
    BY ZenonT(60), <1>1, <1>4, UsedGet
  <1>6. NextSlot(tx_tail, TxRing) \in 0..(TxRing - 1)
    BY ZenonT(60), <1>1, NextRange
  <1>7. tx_head' = tx_head /\ tx_tail' = NextSlot(tx_tail, TxRing)
        /\ udrie' = (NextSlot(tx_tail, TxRing) # tx_head)
    BY DEF UdreIsr
  <1>8. Used(tx_head, NextSlot(tx_tail, TxRing), TxRing) = 0 <=> tx_head = NextSlot(tx_tail, TxRing)
    BY ZenonT(60), <1>1, <1>6, UsedZero
  <1>9. Pending' = Pending - 1 /\ Pending \in Nat
    BY <1>2, <1>3, <1>5, <1>7 DEF Pending
  <1>10. udrie' <=> Pending' # 0
    BY <1>7, <1>8 DEF Pending
  <1>11. tx_tail' \in 0..TX_BUFFER_SIZE
    BY <1>6, <1>7, RingSizes
  <1>12. Pending' # 0 <=> Pending' > 0
    BY <1>3, <1>9
  <1>13. QED
    BY <1>3, <1>9, <1>10, <1>11, <1>12

\* Every step keeps it.
LEMMA StepInv == IInv /\ [Next]_ringVars => IInv'
  <1> SUFFICES ASSUME IInv, [Next]_ringVars PROVE IInv'
    OBVIOUS
  <1> USE DEF ringVars, rxVars, txVars, writeVars
  <1>00. Len(uart) \in 0..2
    <2>1. uart \in Seq(TxByte)
      BY DEF IInv, TypeOK
    <2>2. Len(uart) \in Nat
      BY <2>1
    <2>3. Len(uart) <= 2
      BY DEF IInv, TypeOK
    <2>4. QED
      BY SMTT(60), <2>2, <2>3
  <1>0. Pending \in Nat
    <2>1. Used(tx_head, tx_tail, TxRing) \in 0..(TxRing - 1)
      BY ZenonT(60), RingSizes, UsedRange DEF IInv, TypeOK
    <2>2. QED
      BY <2>1, RingSizes DEF Pending
  <1>1. CASE Receive
    <2>1. TransmitSafe'
      BY <1>1 DEF Receive, IInv, TransmitSafe, Pending
    <2>2. TypeOK'
      BY <1>1, RingAssumption DEF Receive, RxStore, SerialRead, ResetReadBuffer, NextSlot, RxRing,
         RxEmpty, IInv, TypeOK
    <2>3. QED
      BY <2>1, <2>2 DEF IInv
  <1>2. CASE Write
    BY <1>2 DEF Write, WriteCall, IInv, TypeOK, TransmitSafe, Pending
  <1>3. CASE Reset
    BY <1>3 DEF Reset, IInv, TypeOK, TransmitSafe, Pending
  <1>4. CASE WriteAbandon
    BY <1>4 DEF WriteAbandon, IInv, TypeOK, TransmitSafe, Pending
  <1>5. CASE WriteStore
    <2>1. TypeOK'
      BY <1>5, PendingStore DEF WriteStore, IInv, TypeOK
    <2>2. /\ writing = "wait" /\ writing' = "enable" /\ gap' = FALSE /\ udrie' = udrie
          /\ uart' = uart /\ Pending' = Pending + 1
      BY <1>5, PendingStore DEF WriteStore
    <2>3. udrie => Pending > 0
      BY <2>2 DEF IInv, TransmitSafe
    <2>4. udrie => ~(Len(uart) < 2)
      BY <1>5 DEF WriteStore, TxInterrupt
    <2>5. udrie => Len(uart) = 2
      BY <2>4, <1>00
    <2>6. Pending' > 0 /\ (udrie => Pending' > 1)
      BY <1>0, <2>2, <2>3
    <2>7. TransmitSafe'
      BY <2>2, <2>5, <2>6 DEF TransmitSafe
    <2>8. QED
      BY <2>1, <2>7 DEF IInv
  <1>6. CASE WriteEnable
    BY <1>6 DEF WriteEnable, IInv, TypeOK, TransmitSafe, Pending
  <1>7. CASE UdreIsr
    <2>0. tx_buffer[tx_tail] \in TxByte
      BY DEF IInv, TypeOK
    <2>1. uart' \in Seq(TxByte) /\ Len(uart') = Len(uart) + 1
      BY <1>7, <2>0, AppendProperties DEF UdreIsr, IInv, TypeOK
    <2>2. TypeOK'
      BY <1>7, <2>1, PendingSend DEF UdreIsr, TxInterrupt, IInv, TypeOK
    <2>3. /\ writing' = writing /\ gap' = gap /\ udrie /\ Len(uart) < 2
          /\ Pending > 0 /\ Pending' = Pending - 1 /\ (udrie' <=> Pending' > 0)
      BY <1>7, PendingSend DEF UdreIsr, TxInterrupt
    <2>4. ASSUME writing # "enable" PROVE TransmitSafe'
      BY <2>3, <2>4 DEF IInv, TransmitSafe
    <2>5. ASSUME writing = "enable" PROVE TransmitSafe'
      <3>1. gap /\ Pending > 1
        <4>1. Len(uart) # 2
          BY <1>00, <2>3
        <4>2. /\ Pending > 1 \/ (gap /\ Len(uart) = 2)
              /\ ~gap => Len(uart) = 2
          BY <2>3, <2>5 DEF IInv, TransmitSafe
        <4>3. QED
          BY <4>1, <4>2
      <3>2. Len(uart) >= 1
        BY <2>3, <2>5 DEF IInv, TransmitSafe
      <3>3. Len(uart') = 2 /\ Pending' > 0
        BY <1>0, <1>00, <2>1, <2>3, <3>1, <3>2
      <3>4. QED
        BY <2>3, <2>5, <3>1, <3>2, <3>3 DEF TransmitSafe
    <2>6. QED
      BY <2>2, <2>4, <2>5 DEF IInv
  <1>8. CASE UartSends
    <2>1. uart' \in Seq(TxByte) /\ Len(uart') = Len(uart) - 1
      BY <1>8, HeadTailProperties DEF UartSends, IInv, TypeOK
    <2>2. TypeOK'
      <3>1. Len(uart') <= 2
        BY <2>1 DEF IInv, TypeOK
      <3>2. gap' \in BOOLEAN
        BY <1>8 DEF UartSends
      <3>3. QED
        BY ZenonT(60), <1>8, <2>1, <3>1, <3>2 DEF UartSends, IInv, TypeOK
    <2>3. Pending' = Pending
      BY <1>8 DEF UartSends, Pending
    <2>4. /\ writing' = writing /\ udrie' = udrie /\ ~(writing = "enable" /\ gap)
          /\ (gap' <=> writing = "enable")
      BY <1>8 DEF UartSends
    <2>5. ASSUME writing # "enable" PROVE TransmitSafe'
      BY <2>3, <2>4, <2>5 DEF IInv, TransmitSafe
    <2>6. ASSUME writing = "enable" PROVE TransmitSafe'
      <3>1. Pending > 0 /\ (udrie => Pending > 1 /\ Len(uart) = 2)
        BY <2>4, <2>6 DEF IInv, TransmitSafe
      <3>2. udrie => Len(uart') = 1
        <4>1. Len(uart') = Len(uart) - 1
          BY <2>1
        <4>2. QED
          BY <3>1, <4>1
      <3>3. QED
        BY <2>3, <2>4, <2>6, <3>1, <3>2 DEF TransmitSafe
    <2>7. QED
      BY <2>2, <2>5, <2>6 DEF IInv
  <1>9. CASE UNCHANGED ringVars
    BY <1>9 DEF IInv, TypeOK, TransmitSafe, Pending
  <1>10. QED
    BY <1>1, <1>2, <1>3, <1>4, <1>5, <1>6, <1>7, <1>8, <1>9 DEF Next, SerialWrite

\* The transmit interrupt is never enabled on an empty ring.
THEOREM TransmitTheorem == Spec => []TransmitSafe
  <1>1. Spec => []IInv
    BY InitInv, StepInv, PTL DEF Spec
  <1>2. QED
    BY <1>1, PTL DEF IInv

-----------------------------------------------------------------------------
\* The refinement: what each step does to the two queues.

LEMMA RxTypes ==
  ASSUME IInv
  PROVE  /\ rx_buffer \in [0..(RxRing - 1) -> RxByte] /\ rx_head \in 0..(RxRing - 1)
         /\ rx_tail \in 0..(RxRing - 1) /\ RxRing \in 2..255 /\ RX_BUFFER_SIZE = RxRing - 1
  BY RingSizes, RingAssumption DEF IInv, TypeOK, RxRing
LEMMA TxTypes ==
  ASSUME IInv
  PROVE  /\ tx_buffer \in [0..(TxRing - 1) -> TxByte] /\ tx_head \in 0..(TxRing - 1)
         /\ tx_tail \in 0..(TxRing - 1) /\ TxRing \in 2..255 /\ TX_BUFFER_SIZE = TxRing - 1
  BY RingSizes, RingAssumption DEF IInv, TypeOK, TxRing

\* The two queues are sequences of bytes that fit in their buffers.
LEMMA RxQueue ==
  ASSUME IInv
  PROVE  /\ RxContent \in Seq(RxByte) /\ Len(RxContent) = Used(rx_head, rx_tail, RxRing)
         /\ RxEmpty <=> RxContent = <<>>
  <1>1. RxContent \in Seq(RxByte) /\ Len(RxContent) = Used(rx_head, rx_tail, RxRing)
    BY ZenonT(60), RxTypes, ContentType, ContentLen DEF RxContent
  <1>2. Used(rx_head, rx_tail, RxRing) = 0 <=> rx_head = rx_tail
    BY ZenonT(60), RxTypes, UsedZero
  <1>3. QED
    BY <1>1, <1>2 DEF RxEmpty
LEMMA TxQueue ==
  ASSUME IInv
  PROVE  TxContent \in Seq(TxByte) /\ Len(TxContent) = Pending
  BY ZenonT(60), TxTypes, ContentType, ContentLen DEF TxContent, Pending

\* A byte that finds room is put into the receive queue ...
LEMMA RxPut ==
  ASSUME IInv, NEW b \in RxByte, RxStore(b), NextSlot(rx_head, RxRing) # rx_tail
  PROVE  RxContent' = Append(RxContent, b) /\ Len(RxContent) < RX_BUFFER_SIZE
  <1>1. /\ rx_buffer' = Stored(rx_buffer, rx_head, b)
        /\ rx_head' = NextSlot(rx_head, RxRing) /\ rx_tail' = rx_tail
    BY DEF RxStore, Stored
  <1>2. Content(rx_buffer', NextSlot(rx_head, RxRing), rx_tail, RxRing)
          = Append(Content(rx_buffer, rx_head, rx_tail, RxRing), b)
    <2>1. IsRing(RxRing, RxByte, rx_buffer, rx_head, rx_tail)
      BY RxTypes DEF IsRing
    <2>2. QED
      BY <1>1, <2>1, ContentPut
  <1>5. Used(NextSlot(rx_head, RxRing), rx_tail, RxRing) = Used(rx_head, rx_tail, RxRing) + 1
    BY ZenonT(60), RxTypes, UsedPut
  <1>6. NextSlot(rx_head, RxRing) \in 0..(RxRing - 1)
    BY ZenonT(60), RxTypes, NextRange
  <1>7. /\ Used(NextSlot(rx_head, RxRing), rx_tail, RxRing) \in 0..(RxRing - 1)
        /\ Used(rx_head, rx_tail, RxRing) \in 0..(RxRing - 1)
    BY ZenonT(60), RxTypes, <1>6, UsedRange
  <1>8. Len(RxContent) < RX_BUFFER_SIZE
    <2>1. RxRing \in 2..255 /\ RX_BUFFER_SIZE = RxRing - 1
      BY RxTypes
    <2>2. Len(RxContent) = Used(rx_head, rx_tail, RxRing)
      BY RxQueue
    <2>3. QED
      BY <1>5, <1>7, <2>1, <2>2
  <1>9. QED
    BY ZenonT(60), <1>1, <1>2, <1>8 DEF RxContent

\* ... and a read takes the first one.
LEMMA RxGet ==
  ASSUME IInv, SerialRead
  PROVE  /\ RxContent' = Tail(RxContent) /\ RxContent # <<>>
         /\ rx_buffer[rx_tail] = Head(RxContent)
  <1>1. RxContent' = Tail(RxContent)
    BY ZenonT(60), RxTypes, ContentGet DEF SerialRead, RxEmpty, RxContent
  <1>2. RxContent # <<>>
    BY RxQueue DEF SerialRead
  <1>3. rx_buffer[rx_tail] = Head(RxContent)
    BY ZenonT(60), RxTypes, ContentFirst DEF SerialRead, RxEmpty, RxContent
  <1>4. QED
    BY <1>1, <1>2, <1>3

LEMMA RxFlushed ==
  ASSUME IInv, ResetReadBuffer
  PROVE  RxContent' = <<>>
  <1>1. Used(rx_head', rx_tail', RxRing) = 0
    BY RxTypes DEF Used, ResetReadBuffer
  <1>2. QED
    BY <1>1 DEF RxContent, Content

\* A stored byte is put into the queue if there is room, a read takes the first one, and a
\* reset of the read buffer empties it.
LEMMA RxRefines ==
  ASSUME IInv, Next
  PROVE  [Rx!Put \/ Rx!Get \/ Rx!Flush]_RxContent
  <1> USE DEF ringVars, rxVars, txVars, writeVars
  <1>1. CASE Receive
    <2>1. CASE \E b \in RxByte : RxStore(b)
      <3>1. PICK b \in RxByte : RxStore(b)
        BY <2>1
      <3>2. CASE NextSlot(rx_head, RxRing) = rx_tail
        BY <3>1, <3>2 DEF RxStore, RxContent
      <3>3. CASE NextSlot(rx_head, RxRing) # rx_tail
        BY <3>1, <3>3, RxPut DEF Rx!Put
      <3>4. QED
        BY <3>2, <3>3
    <2>2. CASE SerialRead
      BY <2>2, RxGet DEF Rx!Get
    <2>3. CASE ResetReadBuffer
      BY <2>3, RxFlushed DEF Rx!Flush
    <2>4. QED
      BY <1>1, <2>1, <2>2, <2>3 DEF Receive
  <1>2. CASE ~Receive
    BY <1>2 DEF Next, Write, WriteCall, Reset, SerialWrite, WriteAbandon, WriteStore, WriteEnable,
       UdreIsr, UartSends, RxContent
  <1>3. QED
    BY <1>1, <1>2

\* The store of serial_write() puts a byte into the transmit queue ...
LEMMA TxPut ==
  ASSUME IInv, WriteStore
  PROVE  TxContent' = Append(TxContent, data) /\ Len(TxContent) < TX_BUFFER_SIZE
  <1>1. data \in TxByte /\ NextSlot(tx_head, TxRing) # tx_tail
    BY DEF WriteStore, TxFull, IInv, TypeOK
  <1>2. /\ tx_buffer' = Stored(tx_buffer, tx_head, data)
        /\ tx_head' = NextSlot(tx_head, TxRing) /\ tx_tail' = tx_tail
    BY DEF WriteStore, Stored
  <1>5. Content(tx_buffer', NextSlot(tx_head, TxRing), tx_tail, TxRing)
          = Append(Content(tx_buffer, tx_head, tx_tail, TxRing), data)
    <2>1. IsRing(TxRing, TxByte, tx_buffer, tx_head, tx_tail)
      BY TxTypes DEF IsRing
    <2>2. QED
      BY <1>1, <1>2, <2>1, ContentPut
  <1>6. Pending' = Pending + 1
    BY PendingStore
  <1>7. NextSlot(tx_head, TxRing) \in 0..(TxRing - 1)
    BY ZenonT(60), TxTypes, NextRange
  <1>8. /\ Used(NextSlot(tx_head, TxRing), tx_tail, TxRing) \in 0..(TxRing - 1)
        /\ Used(tx_head, tx_tail, TxRing) \in 0..(TxRing - 1)
    BY ZenonT(60), TxTypes, <1>7, UsedRange
  <1>9. Pending' = Used(NextSlot(tx_head, TxRing), tx_tail, TxRing)
    BY <1>2 DEF Pending
  <1>10. Len(TxContent) < TX_BUFFER_SIZE
    <2>1. TxRing \in 2..255 /\ TX_BUFFER_SIZE = TxRing - 1
      BY TxTypes
    <2>2. Len(TxContent) = Pending
      BY TxQueue
    <2>3. QED
      BY <1>6, <1>8, <1>9, <2>1, <2>2 DEF Pending
  <1>11. TxContent' = Append(TxContent, data)
    BY ZenonT(60), <1>2, <1>5 DEF TxContent
  <1>12. QED
    BY <1>10, <1>11

\* ... and the interrupt takes the first one.
LEMMA TxGet ==
  ASSUME IInv, UdreIsr
  PROVE  /\ TxContent' = Tail(TxContent) /\ TxContent # <<>>
         /\ tx_buffer[tx_tail] = Head(TxContent)
  <1>1. Pending > 0
    BY SMTT(60), PendingSend
  <1>2. tx_head # tx_tail
    <2>1. Used(tx_head, tx_tail, TxRing) = 0 <=> tx_head = tx_tail
      BY Zenon, TxTypes, UsedZero
    <2>2. QED
      BY <2>1, <1>1 DEF Pending
  <1>3. TxContent' = Tail(TxContent)
    BY ZenonT(60), TxTypes, <1>2, ContentGet DEF UdreIsr, TxContent
  <1>4. TxContent # <<>>
    BY TxQueue, <1>1
  <1>5. tx_buffer[tx_tail] = Head(TxContent)
    BY ZenonT(60), TxTypes, <1>2, ContentFirst DEF TxContent
  <1>6. QED
    BY <1>3, <1>4, <1>5

LEMMA TxRefines ==
  ASSUME IInv, Next
  PROVE  [Tx!Put \/ Tx!Get]_TxContent
  <1> USE DEF ringVars, rxVars, txVars, writeVars
  <1>1. CASE WriteStore
    <2>1. data \in TxByte
      BY DEF IInv, TypeOK
    <2>2. QED
      BY <1>1, <2>1, TxPut DEF Tx!Put
  <1>2. CASE UdreIsr
    BY <1>2, TxGet DEF Tx!Get
  <1>3. CASE ~(WriteStore \/ UdreIsr)
    BY <1>3 DEF Next, Receive, Write, WriteCall, Reset, SerialWrite, WriteAbandon, WriteEnable,
       UartSends, TxContent
  <1>4. QED
    BY <1>1, <1>2, <1>3

\* Both rings are bounded queues.
THEOREM QueueTheorem == Spec => RingsAreQueues
  <1>1. Init => Rx!Init /\ Tx!Init
    BY RingSizes DEF Init, Rx!Init, Tx!Init, RxContent, TxContent, Content, Used
  <1>2. IInv /\ [Next]_ringVars => /\ [Rx!Put \/ Rx!Get \/ Rx!Flush]_RxContent
                                  /\ [Tx!Put \/ Tx!Get]_TxContent
    <2>1. UNCHANGED ringVars => UNCHANGED RxContent /\ UNCHANGED TxContent
      BY DEF ringVars, rxVars, txVars, RxContent, TxContent
    <2>2. QED
      BY <2>1, RxRefines, TxRefines
  <1>3. QED
    BY <1>1, <1>2, InitInv, StepInv, PTL DEF Spec, RingsAreQueues, Rx!FlushedSpec, Tx!Spec
=============================================================================
