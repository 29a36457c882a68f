--------------------------- MODULE WifiFifoProofs ---------------------------
(***************************************************************************)
(* Proofs about the transmit ring of the WLAN reader, for every ring size, *)
(* every length of a DMA run and every set of envelopes.                   *)
(***************************************************************************)
EXTENDS WifiFifo, SequenceTheorems, TLAPS

(* The invariant is stated over a ring that need not be the one of the     *)
(* state, because wifi_add_packet_to_fifo() looks at the DMA channel with  *)
(* the ring it has just changed.                                           *)

(* Positions: head, tail and run lie in the ring and the run ends at tail. *)
Shape(h, t, d) ==
  /\ h \in Slot /\ t \in Slot
  /\ d \in [pos : 0 .. WIFI_FIFO_SIZE, left : 0 .. MAX_RUN, half : Packet \cup {NULL}]
  /\ d.pos + d.left <= WIFI_FIFO_SIZE
  /\ d.left = 0 => d = Idle
  /\ d.left > 0 => Wrap(d.pos + d.left) = t

(* Every accepted envelope is on the UART, in the run, or waiting. *)
Counted(h, t, d, u, a) == Len(a) = Len(u) + d.left + Backlog(h, t)

(* Run and ring hold the accepted envelopes that are not on the UART yet. *)
Carried(f, h, t, d, u, a) ==
  /\ \A k \in 1 .. Len(u) : u[k] = <<a[k], a[k]>>
  /\ \A k \in 1 .. d.left : f[d.pos + k - 1] = a[Len(u) + k]
  /\ \A k \in 1 .. Backlog(h, t) : f[Wrap(t + k - 1)] = a[Len(u) + d.left + k]
  /\ d.half \in {NULL, f[d.pos]}

(* Whatever the backlog, the slots of the run and of the backlog hold      *)
(* envelopes.                                                              *)
Written(f, h, t, d) ==
  /\ \A k \in 1 .. d.left : f[d.pos + k - 1] \in Packet
  /\ \A k \in 1 .. Backlog(h, t) : f[Wrap(t + k - 1)] \in Packet

IInv ==
  /\ FifoTypeOK
  /\ Shape(wifi_fifo_head, wifi_fifo_tail, dma)
  /\ Written(wifi_fifo, wifi_fifo_head, wifi_fifo_tail, dma)
  /\ Counted(wifi_fifo_head, wifi_fifo_tail, dma, uart, accepted)
  /\ peak + MAX_RUN < WIFI_FIFO_SIZE =>
       Carried(wifi_fifo, wifi_fifo_head, wifi_fifo_tail, dma, uart, accepted)

-----------------------------------------------------------------------------
(* Two steps of linear arithmetic on their own. *)
LEMMA Below ==
  ASSUME NEW a \in Nat, NEW b \in Nat, NEW c \in Nat, NEW m \in Nat, NEW s \in Nat,
         a <= c, b <= c, c + m < s
  PROVE  a + m < s /\ b + m < s
  OBVIOUS

LEMMA Moved ==
  ASSUME NEW l \in Nat, NEW d \in Nat, NEW l2, NEW d2, l2 = l + 1, d2 = d - 1
  PROVE  l2 + d2 = l + d
  OBVIOUS

LEMMA WrapInRing ==
  ASSUME NEW pos \in 0 .. 2 * WIFI_FIFO_SIZE - 1
  PROVE  Wrap(pos) \in Slot
  BY WifiFifoAssumption DEF Wrap, Slot

LEMMA BacklogBound ==
  ASSUME NEW h \in Slot, NEW t \in Slot
  PROVE  Backlog(h, t) \in 0 .. WIFI_FIFO_SIZE - 1
  BY WifiFifoAssumption DEF Backlog, Slot

(* A run is part of the backlog and does not go past the end of the ring. *)
LEMMA RunFits ==
  ASSUME NEW h \in Slot, NEW t \in Slot
  PROVE  /\ RunLength(h, t) \in 0 .. MAX_RUN
         /\ t + RunLength(h, t) <= WIFI_FIFO_SIZE
         /\ RunLength(h, t) <= Backlog(h, t)
         /\ Backlog(h, Wrap(t + RunLength(h, t))) = Backlog(h, t) - RunLength(h, t)
  BY WifiFifoAssumption DEF RunLength, Backlog, Slot, Wrap

(* Handing a run over keeps the four parts of the invariant. *)
LEMMA HandOver ==
  ASSUME NEW h, NEW f \in [Slot -> Packet \cup {NULL}], NEW u \in Seq((Packet \cup {NULL}) \X (Packet \cup {NULL})), NEW a \in Seq(Packet),
         Shape(h, wifi_fifo_tail, dma), CheckTxFifo(h)
  PROVE  /\ Shape(h, wifi_fifo_tail', dma')
         /\ Written(f, h, wifi_fifo_tail, dma) => Written(f, h, wifi_fifo_tail', dma')
         /\ Counted(h, wifi_fifo_tail, dma, u, a) => Counted(h, wifi_fifo_tail', dma', u, a)
         /\ Carried(f, h, wifi_fifo_tail, dma, u, a) => Carried(f, h, wifi_fifo_tail', dma', u, a)
  <1> DEFINE t == wifi_fifo_tail
             count == RunLength(h, t)
  <1>1. CASE dma.left # 0 \/ count = 0
    <2>1. UNCHANGED <<dma, wifi_fifo_tail>>
      BY <1>1 DEF CheckTxFifo
    <2>2. QED
      BY <2>1
  <1>2. CASE ~(dma.left # 0 \/ count = 0)
    <2> h \in Slot /\ t \in Slot
      BY DEF Shape
    <2>1. /\ count \in 1 .. MAX_RUN /\ t + count <= WIFI_FIFO_SIZE
          /\ count <= Backlog(h, t)
          /\ Backlog(h, Wrap(t + count)) = Backlog(h, t) - count
      BY <1>2, RunFits, WifiFifoAssumption
    <2>2. /\ dma' = [pos |-> t, left |-> count, half |-> NULL]
          /\ wifi_fifo_tail' = Wrap(t + count)
          /\ dma.left = 0
      BY <1>2 DEF CheckTxFifo
    <2> HIDE DEF count
    <2>3. Shape(h, wifi_fifo_tail', dma')
      <3>1. Wrap(t + count) \in Slot
        BY <2>1, WrapInRing, WifiFifoAssumption DEF Slot
      <3>2. QED
        BY <2>1, <2>2, <3>1, WifiFifoAssumption DEF Shape, Slot
    <2>4. /\ Backlog(h, t) \in 0 .. WIFI_FIFO_SIZE - 1
          /\ Backlog(h, wifi_fifo_tail') = Backlog(h, t) - count
      BY <2>1, <2>2, BacklogBound, WifiFifoAssumption
    <2>5. Counted(h, t, dma, u, a) => Counted(h, wifi_fifo_tail', dma', u, a)
      BY <2>1, <2>2, <2>4 DEF Counted
    <2>slots. /\ \A k \in 1 .. count : k \in 1 .. Backlog(h, t) /\ Wrap(t + k - 1) = t + k - 1
              /\ \A k \in 1 .. Backlog(h, wifi_fifo_tail') :
                   /\ count + k \in 1 .. Backlog(h, t)
                   /\ Wrap(Wrap(t + count) + k - 1) = Wrap(t + (count + k) - 1)
      <3>1. ASSUME NEW k \in 1 .. count
            PROVE  k \in 1 .. Backlog(h, t) /\ Wrap(t + k - 1) = t + k - 1
        <4>1. Wrap(t + k - 1) = t + k - 1
          BY <2>1, WifiFifoAssumption DEF Wrap, Slot
        <4>2. k \in 1 .. Backlog(h, t)
          BY <2>1, <2>4
        <4>3. QED
          BY <4>1, <4>2
      <3>2. ASSUME NEW k \in 1 .. Backlog(h, wifi_fifo_tail')
            PROVE  /\ count + k \in 1 .. Backlog(h, t)
                   /\ Wrap(Wrap(t + count) + k - 1) = Wrap(t + (count + k) - 1)
        <4>1. count + k \in 1 .. Backlog(h, t)
          BY <2>1, <2>4
        <4>2. Wrap(Wrap(t + count) + k - 1) = Wrap(t + (count + k) - 1)
          <5>1. /\ t \in 0 .. WIFI_FIFO_SIZE - 1 /\ k \in Nat \ {0} /\ count \in Nat
                /\ t + count <= WIFI_FIFO_SIZE /\ count + k <= WIFI_FIFO_SIZE - 1
                /\ WIFI_FIFO_SIZE \in Nat
            BY <2>1, <2>4, <4>1, WifiFifoAssumption DEF Slot
          <5>2. QED
            BY <5>1 DEF Wrap
        <4>3. QED
          BY <4>1, <4>2
      <3>3. QED
        BY <3>1, <3>2
    <2>written. ASSUME Written(f, h, t, dma)
                PROVE  Written(f, h, wifi_fifo_tail', dma')
      <3>1. \A k \in 1 .. count : f[t + k - 1] \in Packet
        BY <2>slots, <2>written DEF Written
      <3>2. \A k \in 1 .. Backlog(h, wifi_fifo_tail') : f[Wrap(Wrap(t + count) + k - 1)] \in Packet
        BY <2>slots, <2>written DEF Written
      <3>3. QED
        BY <2>2, <3>1, <3>2 DEF Written
    <2>6. ASSUME Carried(f, h, t, dma, u, a)
          PROVE  Carried(f, h, wifi_fifo_tail', dma', u, a)
      <3>1. ASSUME NEW k \in 1 .. Backlog(h, t)
            PROVE  f[Wrap(t + k - 1)] = a[Len(u) + k]
        BY <2>2, <2>6 DEF Carried
      <3>2. ASSUME NEW k \in 1 .. count
            PROVE  f[t + k - 1] = a[Len(u) + k]
        BY <2>slots, <3>1
      <3>3. ASSUME NEW k \in 1 .. Backlog(h, wifi_fifo_tail')
            PROVE  f[Wrap(Wrap(t + count) + k - 1)] = a[Len(u) + count + k]
        <4>1. count + k \in 1 .. Backlog(h, t)
          BY <2>slots
        <4>2. Wrap(Wrap(t + count) + k - 1) = Wrap(t + (count + k) - 1)
          BY <2>slots
        <4>3. Len(u) \in Nat
          OBVIOUS
        <4>4. QED
          BY <3>1, <4>1, <4>2, <4>3, <2>1
      <3>4. QED
        BY <2>2, <2>6, <3>2, <3>3 DEF Carried
    <2>7. QED
      BY <2>3, <2>5, <2>6, <2>written
  <1>3. QED
    BY <1>1, <1>2

-----------------------------------------------------------------------------
LEMMA InitHolds == FifoInit => IInv
  <1> SUFFICES ASSUME FifoInit PROVE IInv
    OBVIOUS
  <1>1. FifoTypeOK
    BY WifiFifoAssumption DEF FifoInit, FifoTypeOK, Idle, Slot
  <1>2. Shape(wifi_fifo_head, wifi_fifo_tail, dma)
    BY WifiFifoAssumption DEF FifoInit, Shape, Idle, Slot
  <1>3. Backlog(wifi_fifo_head, wifi_fifo_tail) = 0
    BY DEF FifoInit, Backlog
  <1>4. Counted(wifi_fifo_head, wifi_fifo_tail, dma, uart, accepted)
    BY <1>3 DEF FifoInit, Counted, Idle
  <1>5. Carried(wifi_fifo, wifi_fifo_head, wifi_fifo_tail, dma, uart, accepted)
    BY <1>3 DEF FifoInit, Carried, Idle
  <1>6. Written(wifi_fifo, wifi_fifo_head, wifi_fifo_tail, dma)
    BY <1>3 DEF FifoInit, Written, Idle
  <1>7. QED
    BY <1>1, <1>2, <1>4, <1>5, <1>6 DEF IInv

(* The ring after an envelope was entered, before the DMA channel is       *)
(* looked at: the slot written to is neither waiting nor being sent.       *)
LEMMA Enter ==
  ASSUME IInv, NEW p \in Packet,
         Wrap(wifi_fifo_head + 1) # wifi_fifo_tail
  PROVE  LET f == [wifi_fifo EXCEPT ![wifi_fifo_head] = p]
             h == Wrap(wifi_fifo_head + 1)
             a == Append(accepted, p)
         IN /\ f \in [Slot -> Packet \cup {NULL}] /\ a \in Seq(Packet)
            /\ Shape(h, wifi_fifo_tail, dma)
            /\ Written(f, h, wifi_fifo_tail, dma)
            /\ Counted(h, wifi_fifo_tail, dma, uart, a)
            /\ /\ Backlog(wifi_fifo_head, wifi_fifo_tail) + MAX_RUN < WIFI_FIFO_SIZE
               /\ Carried(wifi_fifo, wifi_fifo_head, wifi_fifo_tail, dma, uart, accepted)
               => Carried(f, h, wifi_fifo_tail, dma, uart, a)
  <1> DEFINE f == [wifi_fifo EXCEPT ![wifi_fifo_head] = p]
             h == Wrap(wifi_fifo_head + 1)
             a == Append(accepted, p)
             t == wifi_fifo_tail
             w == Backlog(wifi_fifo_head, t)
             n == Len(uart) + dma.left
  <1>1. /\ f \in [Slot -> Packet \cup {NULL}] /\ a \in Seq(Packet)
        /\ Len(a) = Len(accepted) + 1 /\ a[Len(accepted) + 1] = p
        /\ \A k \in 1 .. Len(accepted) : a[k] = accepted[k]
        /\ Len(uart) \in Nat /\ Len(accepted) \in Nat
        /\ f[wifi_fifo_head] = p
        /\ \A s \in Slot : s # wifi_fifo_head => f[s] = wifi_fifo[s]
    BY DEF IInv, FifoTypeOK
  <1>2. /\ WIFI_FIFO_SIZE \in Nat /\ MAX_RUN \in Nat
        /\ wifi_fifo_head \in 0 .. WIFI_FIFO_SIZE - 1 /\ t \in 0 .. WIFI_FIFO_SIZE - 1
        /\ dma.left \in 0 .. MAX_RUN /\ dma.pos \in 0 .. WIFI_FIFO_SIZE
        /\ dma.pos + dma.left <= WIFI_FIFO_SIZE
    BY WifiFifoAssumption DEF IInv, FifoTypeOK, Shape, Slot
  <1>3. dma.left > 0 => Wrap(dma.pos + dma.left) = t
    BY DEF IInv, Shape
  <1>4. /\ w \in Nat /\ w + 1 < WIFI_FIFO_SIZE /\ Backlog(h, t) = w + 1
        /\ h \in Slot /\ Wrap(t + w) = wifi_fifo_head
    BY <1>2 DEF Backlog, Slot, Wrap
  <1>5. Len(accepted) = n + w /\ n = Len(uart) + dma.left /\ n \in Nat
    <2>1. Len(accepted) = n + w
      BY DEF IInv, Counted
    <2>2. QED
      BY SMTT(30), <1>1, <1>2, <2>1
  <1>6. Shape(h, t, dma)
    BY <1>4 DEF IInv, Shape
  <1> HIDE DEF f, h, a, w, n
  <1>num. /\ Len(accepted) \in Nat /\ Len(uart) \in Nat /\ dma.left \in Nat /\ w \in Nat /\ n \in Nat
          /\ n = Len(uart) + dma.left /\ Len(accepted) = n + w
    BY <1>1, <1>2, <1>4, <1>5
  <1>sum. /\ n + w + 1 = n + (w + 1)
          /\ t + (w + 1) - 1 = t + w
    <2>1. n \in Nat /\ w \in Nat /\ t \in Nat
      BY <1>2, <1>4, <1>5
    <2>2. QED
      BY <2>1
  <1>7. Counted(h, t, dma, uart, a)
    <2>1. Len(a) = Len(accepted) + 1 /\ Backlog(h, t) = w + 1
      BY <1>1, <1>4
    <2>2. Len(accepted) + 1 = Len(uart) + dma.left + (w + 1)
      <3>1. Len(accepted) + 1 = n + w + 1
        BY <1>num
      <3>2. QED
        BY <1>num, <1>sum, <3>1
    <2>3. QED
      BY <2>1, <2>2 DEF Counted
  <1>8. ASSUME w + MAX_RUN < WIFI_FIFO_SIZE,
               Carried(wifi_fifo, wifi_fifo_head, t, dma, uart, accepted)
        PROVE  Carried(f, h, t, dma, uart, a)
    <2>1. ASSUME NEW k \in 1 .. Len(uart)
          PROVE  uart[k] = <<a[k], a[k]>>
      <3>1. k \in 1 .. Len(accepted)
        BY <1>num
      <3>2. QED
        BY <1>1, <1>8, <3>1 DEF Carried
    <2>2. ASSUME NEW s \in 0 .. dma.left - 1
          PROVE  dma.pos + s \in Slot /\ dma.pos + s # wifi_fifo_head
      <3>1. dma.pos + s \in 0 .. WIFI_FIFO_SIZE - 1 /\ dma.left > 0
        BY <1>2
      <3>2. dma.pos + s # wifi_fifo_head
        <4>1. w = Backlog(wifi_fifo_head, t)
          BY DEF w
        <4>2. dma.left + w < WIFI_FIFO_SIZE
          BY <1>2, <1>4, <1>8
        <4>3. QED
          BY <1>2, <1>3, <3>1, <4>1, <4>2 DEF Wrap, Backlog
      <3>3. QED
        BY <3>1, <3>2 DEF Slot
    <2>3. ASSUME NEW k \in 1 .. dma.left
          PROVE  f[dma.pos + k - 1] = a[Len(uart) + k]
      <3>1. k - 1 \in 0 .. dma.left - 1 /\ dma.pos + (k - 1) = dma.pos + k - 1
        BY <1>2
      <3>2. f[dma.pos + k - 1] = wifi_fifo[dma.pos + k - 1]
        BY <1>1, <2>2, <3>1
      <3>3. Len(uart) + k \in 1 .. Len(accepted)
        BY SMTT(30), <1>num
      <3>4. QED
        BY <1>1, <1>8, <3>2, <3>3 DEF Carried
    <2>4. ASSUME NEW k \in 1 .. w
          PROVE  f[Wrap(t + k - 1)] = a[n + k]
      <3>1. Wrap(t + k - 1) \in 0 .. WIFI_FIFO_SIZE - 1 /\ Wrap(t + k - 1) # wifi_fifo_head
        BY <1>2, <1>4 DEF Wrap
      <3>2. f[Wrap(t + k - 1)] = wifi_fifo[Wrap(t + k - 1)]
        BY <1>1, <3>1 DEF Slot
      <3>3. n + k \in 1 .. Len(accepted)
        BY SMTT(30), <1>num
      <3>4. wifi_fifo[Wrap(t + k - 1)] = accepted[Len(uart) + dma.left + k]
        BY <1>8 DEF Carried, w
      <3>5. QED
        BY <1>1, <1>5, <3>2, <3>3, <3>4
    <2>5. f[Wrap(t + w)] = a[n + w + 1]
      BY <1>1, <1>4, <1>5
    <2>6. ASSUME NEW k \in 1 .. Backlog(h, t)
          PROVE  f[Wrap(t + k - 1)] = a[n + k]
      <3>1. CASE k = w + 1
        BY <1>sum, <2>5, <3>1
      <3>2. CASE k # w + 1
        <4>1. k \in 1 .. w
          BY <1>4, <3>2
        <4>2. QED
          BY <2>4, <4>1
      <3>3. QED
        BY <3>1, <3>2
    <2>7. dma.half \in {NULL, f[dma.pos]}
      <3>1. CASE dma.left = 0
        <4>1. dma = Idle
          BY <3>1 DEF IInv, Shape
        <4>2. QED
          BY <4>1 DEF Idle
      <3>2. CASE dma.left # 0
        <4>1. 0 \in 0 .. dma.left - 1 /\ dma.pos + 0 = dma.pos
          BY <1>2, <3>2
        <4>2. f[dma.pos] = wifi_fifo[dma.pos]
          BY <1>1, <2>2, <4>1
        <4>3. QED
          BY <1>8, <4>2 DEF Carried
      <3>3. QED
        BY <3>1, <3>2
    <2>8. QED
      BY <1>5, <2>1, <2>3, <2>6, <2>7 DEF Carried
  <1>9. Written(f, h, t, dma)
    <2>1. \A s \in Slot : wifi_fifo[s] \in Packet => f[s] \in Packet
      BY <1>1
    <2>2. ASSUME NEW k \in 1 .. dma.left
          PROVE  f[dma.pos + k - 1] \in Packet
      <3>1. dma.pos + k - 1 \in Slot
        BY <1>2 DEF Slot
      <3>2. wifi_fifo[dma.pos + k - 1] \in Packet
        BY DEF IInv, Written
      <3>3. QED
        BY <2>1, <3>1, <3>2
    <2>3. ASSUME NEW k \in 1 .. Backlog(h, t)
          PROVE  f[Wrap(t + k - 1)] \in Packet
      <3>1. CASE k = w + 1
        BY <1>1, <1>4, <1>sum, <3>1
      <3>2. CASE k # w + 1
        <4>1. k \in 1 .. w
          BY <1>4, <3>2
        <4>2. Wrap(t + k - 1) \in Slot
          BY <1>2, <1>4, <4>1 DEF Wrap, Slot
        <4>3. wifi_fifo[Wrap(t + k - 1)] \in Packet
          BY <4>1 DEF IInv, Written, w
        <4>4. QED
          BY <2>1, <4>2, <4>3
      <3>3. QED
        BY <3>1, <3>2
    <2>4. QED
      BY <2>2, <2>3 DEF Written
  <1>10. QED
    BY <1>1, <1>6, <1>7, <1>8, <1>9 DEF f, h, a, w

(* wifi_add_packet_to_fifo() *)
LEMMA AddPacketPreserves ==
  ASSUME IInv, NEW p \in Packet, AddPacket(p)
  PROVE  IInv'
  <1> DEFINE w == Backlog(wifi_fifo_head, wifi_fifo_tail)
             room == Wrap(wifi_fifo_head + 1) # wifi_fifo_tail
  <1>1. /\ FifoTypeOK /\ Shape(wifi_fifo_head, wifi_fifo_tail, dma)
        /\ Counted(wifi_fifo_head, wifi_fifo_tail, dma, uart, accepted)
    BY DEF IInv
  <1>2. CheckTxFifo(wifi_fifo_head') /\ uart' = uart
    BY DEF AddPacket
  <1>3. w \in Nat /\ peak \in Nat /\ MAX_RUN \in Nat /\ WIFI_FIFO_SIZE \in Nat
    BY <1>1, BacklogBound, WifiFifoAssumption DEF FifoTypeOK
  <1>4. peak' = IF room /\ w > peak THEN w ELSE peak
    BY DEF AddPacket
  <1> HIDE DEF w
  <1>5. peak' \in Nat /\ peak <= peak' /\ (room => w <= peak')
    BY <1>3, <1>4
  <1>6. /\ wifi_fifo' \in [Slot -> Packet \cup {NULL}] /\ accepted' \in Seq(Packet)
        /\ Shape(wifi_fifo_head', wifi_fifo_tail, dma)
        /\ Written(wifi_fifo', wifi_fifo_head', wifi_fifo_tail, dma)
        /\ Counted(wifi_fifo_head', wifi_fifo_tail, dma, uart, accepted')
        /\ peak' + MAX_RUN < WIFI_FIFO_SIZE =>
             Carried(wifi_fifo', wifi_fifo_head', wifi_fifo_tail, dma, uart, accepted')
    <2>1. CASE room
      <3>1. /\ wifi_fifo' = [wifi_fifo EXCEPT ![wifi_fifo_head] = p]
            /\ wifi_fifo_head' = Wrap(wifi_fifo_head + 1)
            /\ accepted' = Append(accepted, p)
        BY <2>1 DEF AddPacket
      <3>2. peak' + MAX_RUN < WIFI_FIFO_SIZE =>
              /\ w + MAX_RUN < WIFI_FIFO_SIZE
              /\ peak + MAX_RUN < WIFI_FIFO_SIZE
        <4>1. w <= peak'
          BY <1>5, <2>1
        <4> HIDE DEF room
        <4>2. QED
          BY <1>3, <1>5, <4>1, Below
      <3>3. /\ wifi_fifo' \in [Slot -> Packet \cup {NULL}] /\ accepted' \in Seq(Packet)
            /\ Shape(wifi_fifo_head', wifi_fifo_tail, dma)
            /\ Written(wifi_fifo', wifi_fifo_head', wifi_fifo_tail, dma)
            /\ Counted(wifi_fifo_head', wifi_fifo_tail, dma, uart, accepted')
            /\ /\ w + MAX_RUN < WIFI_FIFO_SIZE
               /\ Carried(wifi_fifo, wifi_fifo_head, wifi_fifo_tail, dma, uart, accepted)
               => Carried(wifi_fifo', wifi_fifo_head', wifi_fifo_tail, dma, uart, accepted')
        BY <2>1, <3>1, Enter DEF w
      <3>4. QED
        BY <3>2, <3>3 DEF IInv
    <2>2. CASE ~room
      <3>1. /\ wifi_fifo' = wifi_fifo /\ wifi_fifo_head' = wifi_fifo_head
            /\ accepted' = accepted /\ peak' = peak
        BY <1>4, <2>2 DEF AddPacket
      <3>2. QED
        BY <1>1, <3>1 DEF IInv, FifoTypeOK
    <2>3. QED
      BY <2>1, <2>2
  <1>7. /\ Shape(wifi_fifo_head', wifi_fifo_tail', dma')
        /\ Written(wifi_fifo', wifi_fifo_head', wifi_fifo_tail', dma')
        /\ Counted(wifi_fifo_head', wifi_fifo_tail', dma', uart, accepted')
        /\ peak' + MAX_RUN < WIFI_FIFO_SIZE =>
             Carried(wifi_fifo', wifi_fifo_head', wifi_fifo_tail', dma', uart, accepted')
    BY <1>1, <1>2, <1>6, HandOver DEF FifoTypeOK
  <1>8. FifoTypeOK'
    BY <1>1, <1>2, <1>5, <1>6, <1>7 DEF FifoTypeOK, Shape
  <1>9. QED
    BY <1>2, <1>7, <1>8 DEF IInv

LEMMA PollPreserves ==
  ASSUME IInv, Poll
  PROVE  IInv'
  <1>1. /\ CheckTxFifo(wifi_fifo_head)
        /\ UNCHANGED <<wifi_fifo, wifi_fifo_head, uart, accepted, peak>>
    BY DEF Poll
  <1>2. /\ Shape(wifi_fifo_head, wifi_fifo_tail', dma')
        /\ Written(wifi_fifo, wifi_fifo_head, wifi_fifo_tail', dma')
        /\ Counted(wifi_fifo_head, wifi_fifo_tail', dma', uart, accepted)
        /\ peak + MAX_RUN < WIFI_FIFO_SIZE =>
             Carried(wifi_fifo, wifi_fifo_head, wifi_fifo_tail', dma', uart, accepted)
    BY <1>1, HandOver DEF IInv, FifoTypeOK
  <1>3. FifoTypeOK'
    BY <1>1, <1>2 DEF IInv, FifoTypeOK, Shape
  <1>4. QED
    BY <1>1, <1>2, <1>3 DEF IInv

LEMMA FirstHalfPreserves ==
  ASSUME IInv, SendFirstHalf
  PROVE  IInv'
  <1>1. /\ dma.left > 0 /\ dma' = [dma EXCEPT !.half = wifi_fifo[dma.pos]]
        /\ UNCHANGED <<wifi_fifo, wifi_fifo_head, wifi_fifo_tail, uart, accepted, peak>>
    BY DEF SendFirstHalf
  <1>2. /\ dma \in [pos : 0 .. WIFI_FIFO_SIZE, left : 0 .. MAX_RUN, half : Packet \cup {NULL}]
        /\ dma.pos \in Slot /\ wifi_fifo[dma.pos] \in Packet \cup {NULL}
    BY <1>1, WifiFifoAssumption DEF IInv, FifoTypeOK, Slot
  <1>3. /\ dma' \in [pos : 0 .. WIFI_FIFO_SIZE, left : 0 .. MAX_RUN, half : Packet \cup {NULL}]
        /\ dma'.pos = dma.pos /\ dma'.left = dma.left /\ dma'.half = wifi_fifo[dma.pos]
    BY <1>1, <1>2
  <1>4. Shape(wifi_fifo_head, wifi_fifo_tail, dma')
    BY <1>1, <1>2, <1>3 DEF IInv, Shape
  <1>5. Counted(wifi_fifo_head, wifi_fifo_tail, dma', uart, accepted)
    BY <1>3 DEF IInv, Counted
  <1>6. ASSUME peak + MAX_RUN < WIFI_FIFO_SIZE
        PROVE  Carried(wifi_fifo, wifi_fifo_head, wifi_fifo_tail, dma', uart, accepted)
    <2>1. Carried(wifi_fifo, wifi_fifo_head, wifi_fifo_tail, dma, uart, accepted)
      BY <1>6 DEF IInv
    <2>2. QED
      BY <1>3, <2>1 DEF Carried
  <1>7. FifoTypeOK'
    BY <1>1, <1>3, <1>4 DEF IInv, FifoTypeOK, Shape
  <1>8. Written(wifi_fifo, wifi_fifo_head, wifi_fifo_tail, dma')
    BY <1>3 DEF IInv, Written
  <1>9. QED
    BY <1>1, <1>4, <1>5, <1>6, <1>7, <1>8 DEF IInv

LEMMA SecondHalfPreserves ==
  ASSUME IInv, SendSecondHalf
  PROVE  IInv'
  <1>1. /\ dma.left > 0 /\ dma.half # NULL
        /\ uart' = Append(uart, <<dma.half, wifi_fifo[dma.pos]>>)
        /\ dma' = IF dma.left = 1 THEN Idle
                  ELSE [pos |-> dma.pos + 1, left |-> dma.left - 1, half |-> NULL]
        /\ UNCHANGED <<wifi_fifo, wifi_fifo_head, wifi_fifo_tail, accepted, peak>>
    BY DEF SendSecondHalf
  <1>2. /\ dma.left \in 1 .. MAX_RUN /\ dma.pos \in 0 .. WIFI_FIFO_SIZE - 1
        /\ dma.half \in Packet \cup {NULL} /\ wifi_fifo[dma.pos] \in Packet \cup {NULL}
        /\ dma.pos + dma.left <= WIFI_FIFO_SIZE
        /\ WIFI_FIFO_SIZE \in Nat /\ MAX_RUN \in Nat
    BY SMTT(30), <1>1, WifiFifoAssumption DEF IInv, FifoTypeOK, Slot
  <1>3. /\ uart' \in Seq((Packet \cup {NULL}) \X (Packet \cup {NULL}))
        /\ Len(uart) \in Nat /\ Len(uart') = Len(uart) + 1
        /\ uart'[Len(uart) + 1] = <<dma.half, wifi_fifo[dma.pos]>>
        /\ \A k \in 1 .. Len(uart) : uart'[k] = uart[k]
    BY SMTT(30), <1>1, <1>2 DEF IInv, FifoTypeOK
  <1>4. /\ dma'.left = dma.left - 1 /\ dma'.half = NULL
        /\ dma.left # 1 => dma'.pos = dma.pos + 1
        /\ dma.left = 1 => dma' = Idle
        /\ dma' \in [pos : 0 .. WIFI_FIFO_SIZE, left : 0 .. MAX_RUN, half : Packet \cup {NULL}]
    BY SMTT(30), <1>1, <1>2 DEF Idle
  <1>4a. Len(uart') + dma'.left = Len(uart) + dma.left
    <2>1. dma.left \in Nat /\ Len(uart) \in Nat
      BY <1>2, <1>3
    <2>2. Len(uart') = Len(uart) + 1 /\ dma'.left = dma.left - 1
      BY <1>3, <1>4
    <2>3. QED
      BY <2>1, <2>2, Moved
  <1>5. Shape(wifi_fifo_head, wifi_fifo_tail, dma')
    <2>1. Shape(wifi_fifo_head, wifi_fifo_tail, dma)
      BY DEF IInv
    <2>2. CASE dma.left = 1
      BY <1>2, <1>4, <2>1, <2>2 DEF Shape, Idle
    <2>3. CASE dma.left # 1
      <3>1. dma'.pos + dma'.left = dma.pos + dma.left /\ dma'.left > 0
        BY <1>2, <1>4, <2>3
      <3>2. QED
        BY <1>2, <1>4, <2>1, <2>3, <3>1 DEF Shape
    <2>4. QED
      BY <2>2, <2>3
  <1>6. Counted(wifi_fifo_head, wifi_fifo_tail, dma', uart', accepted)
    <2>1. Backlog(wifi_fifo_head, wifi_fifo_tail) \in Nat
      BY BacklogBound, WifiFifoAssumption DEF IInv, FifoTypeOK
    <2>2. Len(uart') + dma'.left = Len(uart) + dma.left
      BY <1>4a
    <2>3. QED
      BY <2>2 DEF IInv, Counted
  <1>7. ASSUME peak + MAX_RUN < WIFI_FIFO_SIZE
        PROVE  Carried(wifi_fifo, wifi_fifo_head, wifi_fifo_tail, dma', uart', accepted)
    <2>1. Carried(wifi_fifo, wifi_fifo_head, wifi_fifo_tail, dma, uart, accepted)
      BY <1>7 DEF IInv
    <2>2. wifi_fifo[dma.pos] = accepted[Len(uart) + 1] /\ dma.half = wifi_fifo[dma.pos]
      <3>1. 1 \in 1 .. dma.left /\ dma.pos + 1 - 1 = dma.pos
        BY <1>2
      <3>2. QED
        BY <1>1, <2>1, <3>1 DEF Carried
    <2>3. ASSUME NEW k \in 1 .. Len(uart')
          PROVE  uart'[k] = <<accepted[k], accepted[k]>>
      <3>1. CASE k = Len(uart) + 1
        BY <1>3, <2>2, <3>1
      <3>2. CASE k # Len(uart) + 1
        <4>1. k \in 1 .. Len(uart)
          BY <1>3, <3>2
        <4>2. QED
          BY <1>3, <2>1, <4>1 DEF Carried
      <3>3. QED
        BY <3>1, <3>2
    <2>4. ASSUME NEW k \in 1 .. dma'.left
          PROVE  wifi_fifo[dma'.pos + k - 1] = accepted[Len(uart') + k]
      <3>1. /\ k + 1 \in 1 .. dma.left /\ dma.left # 1
            /\ dma'.pos + k - 1 = dma.pos + (k + 1) - 1
            /\ Len(uart') + k = Len(uart) + (k + 1)
        <4>1. k \in Nat /\ k >= 1 /\ k <= dma.left - 1 /\ dma.left # 1
          BY <1>2, <1>4
        <4>2. dma'.pos = dma.pos + 1 /\ Len(uart') = Len(uart) + 1
          BY <1>3, <1>4, <4>1
        <4>3. dma.left \in Nat /\ dma.pos \in Nat /\ Len(uart) \in Nat
          BY <1>2, <1>3
        <4>4. QED
          BY SMTT(30), <4>1, <4>2, <4>3
      <3>2. wifi_fifo[dma.pos + (k + 1) - 1] = accepted[Len(uart) + (k + 1)]
        BY <2>1, <3>1 DEF Carried
      <3>3. QED
        BY <3>1, <3>2
    <2>5. Len(uart') + dma'.left = Len(uart) + dma.left
      BY <1>4a
    <2>6. ASSUME NEW k \in 1 .. Backlog(wifi_fifo_head, wifi_fifo_tail)
          PROVE  wifi_fifo[Wrap(wifi_fifo_tail + k - 1)] = accepted[Len(uart') + dma'.left + k]
      BY <2>1, <2>5 DEF Carried
    <2>7. QED
      BY <1>4, <2>3, <2>4, <2>6 DEF Carried
  <1>8. FifoTypeOK'
    BY <1>1, <1>3, <1>5 DEF IInv, FifoTypeOK, Shape
  <1>9. Written(wifi_fifo, wifi_fifo_head, wifi_fifo_tail, dma')
    <2>1. ASSUME NEW k \in 1 .. dma'.left
          PROVE  wifi_fifo[dma'.pos + k - 1] \in Packet
      <3>1. /\ k + 1 \in 1 .. dma.left
            /\ dma'.pos + k - 1 = dma.pos + (k + 1) - 1
        <4>1. dma.left # 1 /\ k \in Nat /\ k >= 1 /\ k <= dma.left - 1
          BY <1>2, <1>4
        <4>2. dma'.pos = dma.pos + 1
          BY <1>4, <4>1
        <4>3. QED
          BY <1>2, <4>1, <4>2
      <3>2. wifi_fifo[dma.pos + (k + 1) - 1] \in Packet
        BY <3>1 DEF IInv, Written
      <3>3. QED
        BY <3>1, <3>2
    <2>2. QED
      BY <2>1 DEF IInv, Written
  <1>10. QED
    BY <1>1, <1>5, <1>6, <1>7, <1>8, <1>9 DEF IInv

LEMMA StutterPreserves ==
  ASSUME IInv, UNCHANGED fifoVars
  PROVE  IInv'
  BY DEF fifoVars, IInv, FifoTypeOK, Shape, Written, Counted, Carried

-----------------------------------------------------------------------------
(* Positions, counts and contents of the ring agree in every state. *)
THEOREM InvariantHolds == Spec => []IInv
  <1>1. IInv /\ [Next]_fifoVars => IInv'
    <2>1. SUFFICES ASSUME IInv, [Next]_fifoVars PROVE IInv'
      OBVIOUS
    <2>2. CASE \E p \in Packet : AddPacket(p)
      BY <2>1, <2>2, AddPacketPreserves
    <2>3. CASE Poll
      BY <2>1, <2>3, PollPreserves
    <2>4. CASE Dma
      BY <2>1, <2>4, FirstHalfPreserves, SecondHalfPreserves DEF Dma
    <2>5. CASE UNCHANGED fifoVars
      BY <2>1, <2>5, StutterPreserves
    <2>6. QED
      BY <2>1, <2>2, <2>3, <2>4, <2>5 DEF Next
  <1>2. QED
    BY InitHolds, <1>1, PTL DEF Spec

(* The ring and DMA registers never leave their ranges: no run is programmed *)
(* past the end of wifi_fifo (wifi.c:62-97).                               *)
THEOREM TypeCorrect == Spec => []FifoTypeOK
  <1>1. IInv => FifoTypeOK
    BY DEF IInv
  <1>2. QED
    BY <1>1, InvariantHolds, PTL

(* However far the backlog grows, the UART carries as many envelopes as    *)
(* were accepted and are neither waiting nor in a run.                     *)
THEOREM StreamStaysAligned == Spec => []CountsAgree
  <1>1. IInv => CountsAgree
    BY DEF IInv, Counted, CountsAgree, Waiting
  <1>2. QED
    BY <1>1, InvariantHolds, PTL

(* For every ring that is longer than the longest backlog plus one run,    *)
(* the UART carries the accepted envelopes whole, once and in order.       *)
THEOREM NothingTorn == Spec => []WholeAndInOrder
  <1>1. IInv => WholeAndInOrder
    BY DEF IInv, Carried, WholeAndInOrder, Waiting
  <1>2. QED
    BY <1>1, InvariantHolds, PTL
-----------------------------------------------------------------------------
(* The ring and the DMA channel as one queue. *)

(* A fact that is never taken back. *)
LEMMA OneWay ==
  ASSUME NEW b \in BOOLEAN, NEW c \in BOOLEAN, b => c
  PROVE  c \in {b, TRUE}
  <1>1. CASE c = TRUE
    BY <1>1, Zenon
  <1>2. CASE c = FALSE
    <2>1. b = FALSE
      BY <1>2, Zenon
    <2>2. QED
      BY <1>2, <2>1, Zenon
  <1>3. QED
    BY <1>1, <1>2

(* The elements behind the first n, one by one. *)
LEMMA RestOf ==
  ASSUME NEW a \in Seq(Packet), NEW l \in Nat, l = Len(a), NEW n \in 0 .. l
  PROVE  /\ SubSeq(a, n + 1, l) \in Seq(Packet)
         /\ Len(SubSeq(a, n + 1, l)) = l - n
         /\ \A k \in 1 .. l - n : SubSeq(a, n + 1, l)[k] = a[n + k]
  <1> DEFINE rest == SubSeq(a, n + 1, l)
  <1>1. \A k \in n + 1 .. l : a[k] \in Packet
    <2>1. \A k \in n + 1 .. l : k \in 1 .. l
      OBVIOUS
    <2>2. QED
      BY <2>1, ElementOfSeq
  <1>2. /\ rest \in Seq(Packet)
        /\ Len(rest) = IF n + 1 <= l THEN l - (n + 1) + 1 ELSE 0
        /\ \A k \in 1 .. l - (n + 1) + 1 : rest[k] = a[n + 1 + k - 1]
    BY SMTT(30), <1>1, SubSeqProperties
  <1> HIDE DEF rest
  <1>3. Len(rest) = l - n
    BY <1>2
  <1>4. ASSUME NEW k \in 1 .. l - n
        PROVE  rest[k] = a[n + k]
    <2>1. k \in 1 .. l - (n + 1) + 1 /\ n + 1 + k - 1 = n + k
      OBVIOUS
    <2>2. QED
      BY <1>2, <2>1
  <1>5. QED
    BY <1>2, <1>3, <1>4 DEF rest

(* An element behind the sequence is one behind what is left of it. *)
LEMMA RestOfAppend ==
  ASSUME NEW a \in Seq(Packet), NEW p \in Packet, NEW l \in Nat, l = Len(a), NEW n \in 0 .. l
  PROVE  SubSeq(Append(a, p), n + 1, l + 1) = Append(SubSeq(a, n + 1, l), p)
  <1> DEFINE b == Append(a, p)
             rest == SubSeq(a, n + 1, l)
             more == SubSeq(b, n + 1, l + 1)
             longer == Append(rest, p)
  <1>1. /\ b \in Seq(Packet) /\ Len(b) = l + 1
        /\ b[l + 1] = p /\ \A k \in 1 .. l : b[k] = a[k]
    OBVIOUS
  <1> HIDE DEF b
  <1>2. /\ rest \in Seq(Packet) /\ Len(rest) = l - n
        /\ \A k \in 1 .. l - n : rest[k] = a[n + k]
    BY RestOf
  <1>3. /\ more \in Seq(Packet) /\ Len(more) = l + 1 - n
        /\ \A k \in 1 .. l + 1 - n : more[k] = b[n + k]
    <2>1. l + 1 \in Nat /\ n \in 0 .. l + 1
      OBVIOUS
    <2>2. QED
      BY <1>1, <2>1, RestOf
  <1> HIDE DEF rest, more
  <1>4. l - n \in Nat /\ l - n + 1 = l + 1 - n
    OBVIOUS
  <1>5. /\ longer \in Seq(Packet) /\ Len(longer) = Len(rest) + 1
        /\ longer[Len(rest) + 1] = p
        /\ \A k \in 1 .. Len(rest) : longer[k] = rest[k]
    BY <1>2
  <1> HIDE DEF longer
  <1>6. ASSUME NEW k \in 1 .. l + 1 - n
        PROVE  more[k] = longer[k]
    <2>1. CASE k = l + 1 - n
      <3>1. n + k = l + 1
        BY <2>1
      <3>2. QED
        BY <1>1, <1>2, <1>3, <1>4, <1>5, <2>1, <3>1
    <2>2. CASE k # l + 1 - n
      <3>1. k \in 1 .. l - n /\ n + k \in 1 .. l
        BY <2>2
      <3>2. QED
        BY <1>1, <1>2, <1>3, <1>5, <3>1
    <2>3. QED
      BY <2>1, <2>2
  <1>7. Len(more) = Len(longer)
    BY <1>2, <1>3, <1>4, <1>5
  <1>8. more = longer
    BY <1>3, <1>5, <1>6, <1>7, SeqEqual
  <1>9. QED
    BY <1>8 DEF rest, more, b, longer

(* What is queued is the run and the backlog. *)
LEMMA PendingCounted ==
  ASSUME IInv
  PROVE  /\ Pending \in Seq(Packet) /\ Len(uart) \in 0 .. Len(accepted)
         /\ Len(Pending) = dma.left + Backlog(wifi_fifo_head, wifi_fifo_tail)
  <1> DEFINE n == dma.left + Backlog(wifi_fifo_head, wifi_fifo_tail)
  <1>1. /\ accepted \in Seq(Packet) /\ Len(accepted) \in Nat /\ Len(uart) \in Nat
        /\ dma.left \in Nat
    BY WifiFifoAssumption DEF IInv, FifoTypeOK
  <1>2. Backlog(wifi_fifo_head, wifi_fifo_tail) \in Nat
    BY BacklogBound, WifiFifoAssumption DEF IInv, FifoTypeOK
  <1>3. n \in Nat /\ Len(accepted) = Len(uart) + n
    BY <1>1, <1>2 DEF IInv, Counted
  <1> HIDE DEF n
  <1>4. Len(uart) \in 0 .. Len(accepted) /\ Len(accepted) - Len(uart) = n
    BY <1>1, <1>3
  <1>5. Pending \in Seq(Packet) /\ Len(Pending) = Len(accepted) - Len(uart)
    BY <1>1, <1>4, RestOf DEF Pending
  <1>6. QED
    BY <1>4, <1>5, Zenon DEF n

(* A step that neither enters nor sends an envelope is none of the queue. *)
LEMMA QueueStays ==
  ASSUME UNCHANGED <<uart, accepted, peak>>
  PROVE  UNCHANGED Queue!vars
  BY DEF Queue!vars, Pending

(* wifi_add_packet_to_fifo() accepts the envelope or does nothing. *)
LEMMA AddPacketAccepts ==
  ASSUME IInv, NEW p \in Packet, AddPacket(p)
  PROVE  Queue!Accept(p) \/ UNCHANGED Queue!vars
  <1> DEFINE w == Backlog(wifi_fifo_head, wifi_fifo_tail)
             room == Wrap(wifi_fifo_head + 1) # wifi_fifo_tail
  <1>1. /\ uart' = uart
        /\ accepted' = IF room THEN Append(accepted, p) ELSE accepted
        /\ peak' = IF room /\ w > peak THEN w ELSE peak
    BY DEF AddPacket
  <1>2. CASE ~room
    BY <1>1, <1>2, QueueStays
  <1>3. CASE room
    <2>1. /\ accepted \in Seq(Packet) /\ peak \in Nat
          /\ dma.left \in Nat /\ dma.left <= MAX_RUN
          /\ WIFI_FIFO_SIZE \in Nat /\ MAX_RUN \in Nat
          /\ wifi_fifo_head \in Slot /\ wifi_fifo_tail \in Slot
      BY WifiFifoAssumption DEF IInv, FifoTypeOK
    <2>2. w \in Nat /\ w + 1 < WIFI_FIFO_SIZE
      BY <1>3, <2>1 DEF Backlog, Slot, Wrap
    <2>3. /\ Len(Pending) = dma.left + w /\ Len(uart) \in 0 .. Len(accepted)
      BY PendingCounted
    <2>4. Pending' = Append(Pending, p)
      <3>1. Len(accepted') = Len(accepted) + 1
        BY <1>1, <1>3, <2>1
      <3>2. Len(accepted) \in Nat
        BY <2>1
      <3>3. Pending' = SubSeq(Append(accepted, p), Len(uart) + 1, Len(accepted) + 1)
        BY <1>1, <1>3, <3>1 DEF Pending
      <3>4. SubSeq(Append(accepted, p), Len(uart) + 1, Len(accepted) + 1)
              = Append(SubSeq(accepted, Len(uart) + 1, Len(accepted)), p)
        BY <2>1, <2>3, <3>2, RestOfAppend
      <3>5. QED
        BY <3>3, <3>4 DEF Pending
    <2>5. peak' = IF w > peak THEN w ELSE peak
      BY <1>1, <1>3
    <2> HIDE DEF w, room
    <2>6. Len(Pending) < WIFI_FIFO_SIZE - 1 + MAX_RUN
      BY <2>1, <2>2, <2>3
    <2>7. CASE Len(Pending) < WIFI_FIFO_SIZE - MAX_RUN
      <3>1. w + MAX_RUN < WIFI_FIFO_SIZE
        BY <2>1, <2>2, <2>3, <2>7
      <3>2. (peak' + MAX_RUN >= WIFI_FIFO_SIZE) = (peak + MAX_RUN >= WIFI_FIFO_SIZE)
        BY <2>1, <2>2, <2>5, <3>1
      <3>3. QED
        BY <1>1, <2>4, <2>6, <2>7, <3>2 DEF Queue!Accept
    <2>8. CASE ~(Len(Pending) < WIFI_FIFO_SIZE - MAX_RUN)
      <3>1. (peak + MAX_RUN >= WIFI_FIFO_SIZE) => (peak' + MAX_RUN >= WIFI_FIFO_SIZE)
        BY <2>1, <2>2, <2>5
      <3>2. (peak' + MAX_RUN >= WIFI_FIFO_SIZE) \in {peak + MAX_RUN >= WIFI_FIFO_SIZE, TRUE}
        <4> DEFINE before == peak + MAX_RUN >= WIFI_FIFO_SIZE
                   after  == peak' + MAX_RUN >= WIFI_FIFO_SIZE
        <4>1. before \in BOOLEAN /\ after \in BOOLEAN /\ (before => after)
          BY <3>1
        <4> HIDE DEF before, after
        <4>2. after \in {before, TRUE}
          BY <4>1, OneWay
        <4>3. QED
          BY <4>2 DEF before, after
      <3>3. QED
        BY <1>1, <2>4, <2>6, <2>8, <3>2 DEF Queue!Accept
    <2>9. QED
      BY <2>7, <2>8
  <1>4. QED
    BY <1>2, <1>3

(* The second half of an envelope delivers the first one queued. *)
LEMMA SecondHalfDelivers ==
  ASSUME IInv, SendSecondHalf
  PROVE  Queue!Deliver
  <1> DEFINE x == <<dma.half, wifi_fifo[dma.pos]>>
  <1>1. /\ dma.left > 0 /\ dma.half # NULL /\ uart' = Append(uart, x)
        /\ accepted' = accepted /\ peak' = peak
    BY DEF SendSecondHalf
  <1>2. /\ accepted \in Seq(Packet) /\ peak \in Nat /\ Len(accepted) \in Nat
        /\ Len(uart) \in Nat /\ Len(uart') = Len(uart) + 1
        /\ dma.left \in Nat /\ dma.pos \in Nat /\ dma.half \in Packet
        /\ WIFI_FIFO_SIZE \in Nat /\ MAX_RUN \in Nat
    BY SMTT(30), <1>1, WifiFifoAssumption DEF IInv, FifoTypeOK
  <1>3. /\ Pending \in Seq(Packet) /\ Len(Pending) > 0 /\ Len(uart) + 1 \in 1 .. Len(accepted)
    <2>1. Backlog(wifi_fifo_head, wifi_fifo_tail) \in Nat
      BY BacklogBound, WifiFifoAssumption DEF IInv, FifoTypeOK
    <2>2. Pending \in Seq(Packet) /\ Len(Pending) > 0
      <3>1. dma.left + Backlog(wifi_fifo_head, wifi_fifo_tail) > 0
        BY <1>1, <1>2, <2>1
      <3>2. QED
        BY <3>1, PendingCounted
    <2>3. Len(accepted) > Len(uart)
      <3>1. Len(accepted) = Len(uart) + dma.left + Backlog(wifi_fifo_head, wifi_fifo_tail)
        BY DEF IInv, Counted
      <3>2. QED
        BY <1>1, <1>2, <2>1, <3>1
    <2>4. QED
      BY <1>2, <2>2, <2>3
  <1>4. /\ Head(Pending) = accepted[Len(uart) + 1]
        /\ Tail(Pending) = SubSeq(accepted, Len(uart) + 1 + 1, Len(accepted))
    BY <1>2, <1>3, HeadTailOfSubSeq DEF Pending
  <1>5. Pending' = Tail(Pending)
    BY <1>1, <1>2, <1>4 DEF Pending
  <1>6. 1 \in 1 .. dma.left /\ dma.pos + 1 - 1 = dma.pos
    BY <1>1, <1>2
  <1>7. CASE peak + MAX_RUN >= WIFI_FIFO_SIZE
    <2>1. wifi_fifo[dma.pos] \in Packet
      BY <1>6 DEF IInv, Written
    <2>2. x \in Packet \X Packet
      BY <1>2, <2>1
    <2>3. Pending # <<>>
      BY <1>3
    <2>4. QED
      BY <1>1, <1>5, <1>7, <2>2, <2>3 DEF Queue!Deliver
  <1>8. CASE ~(peak + MAX_RUN >= WIFI_FIFO_SIZE)
    <2>1. Carried(wifi_fifo, wifi_fifo_head, wifi_fifo_tail, dma, uart, accepted)
      <3>1. peak + MAX_RUN < WIFI_FIFO_SIZE
        BY <1>2, <1>8
      <3>2. QED
        BY <3>1 DEF IInv
    <2>2. wifi_fifo[dma.pos] = accepted[Len(uart) + 1] /\ dma.half = wifi_fifo[dma.pos]
      BY <1>1, <1>6, <2>1 DEF Carried
    <2>3. x = <<Head(Pending), Head(Pending)>>
      BY <1>4, <2>2
    <2>4. Pending # <<>>
      BY <1>3
    <2>5. QED
      BY <1>1, <1>5, <1>8, <2>3, <2>4 DEF Queue!Deliver
  <1>9. QED
    BY <1>7, <1>8

(* Ring and DMA channel together are a queue of WIFI_FIFO_SIZE - 1 + MAX_RUN *)
(* envelopes that hands on every one it accepted, in order, and whole until *)
(* more than WIFI_FIFO_SIZE - MAX_RUN are queued (wifi.c:62-97, 339-357).   *)
THEOREM RingImplementsQueue == Spec => ImplementsQueue
  <1>1. FifoInit => Queue!Init
    <2> SUFFICES ASSUME FifoInit PROVE Queue!Init
      OBVIOUS
    <2>1. uart = <<>> /\ accepted = <<>> /\ peak = 0
      BY DEF FifoInit
    <2>2. Pending = <<>>
      BY <2>1, SubSeqEmpty DEF Pending
    <2>3. (peak + MAX_RUN >= WIFI_FIFO_SIZE) = (WIFI_FIFO_SIZE - MAX_RUN <= 0)
      BY <2>1, WifiFifoAssumption
    <2>4. QED
      BY <2>1, <2>2, <2>3, Zenon DEF Queue!Init
  <1>2. IInv /\ [Next]_fifoVars => [Queue!Next]_(Queue!vars)
    <2> SUFFICES ASSUME IInv, [Next]_fifoVars PROVE [Queue!Next]_(Queue!vars)
      OBVIOUS
    <2>1. CASE \E p \in Packet : AddPacket(p)
      BY <2>1, AddPacketAccepts DEF Queue!Next
    <2>2. CASE Poll
      BY <2>2, QueueStays DEF Poll
    <2>3. CASE SendFirstHalf
      BY <2>3, QueueStays DEF SendFirstHalf
    <2>4. CASE SendSecondHalf
      BY <2>4, SecondHalfDelivers DEF Queue!Next
    <2>5. CASE UNCHANGED fifoVars
      BY <2>5, QueueStays DEF fifoVars
    <2>6. QED
      BY <2>1, <2>2, <2>3, <2>4, <2>5 DEF Next, Dma
  <1>3. QED
    BY <1>1, <1>2, InvariantHolds, PTL DEF Spec, ImplementsQueue, Queue!Spec
=============================================================================
