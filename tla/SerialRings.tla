---------------------------- MODULE SerialRings ----------------------------
(***************************************************************************)
(* serial.c: the receive and the transmit ring, each with a head that one  *)
(* side moves and a tail that the other side moves, and the UART's data    *)
(* register empty interrupt that drains the transmit ring.                 *)
(*                                                                         *)
(* A ring has one slot more than the buffer it implements.  serial_write() *)
(* is three steps of the main program (wait for room, store and advance    *)
(* the head, enable the interrupt); an interrupt handler is one step.  The *)
(* main program takes no step while the transmit interrupt is pending.     *)
(*                                                                         *)
(* Timing: a byte takes some 1400 CPU cycles on the line and the store and *)
(* the enable are a few instructions apart, so the UART finishes at most   *)
(* one byte between the two (gap).                                         *)
(***************************************************************************)
EXTENDS Naturals, Sequences

CONSTANTS RX_BUFFER_SIZE, TX_BUFFER_SIZE,
          RxByte,    \* the characters the host sends that are not real-time commands
          TxByte     \* what the main program writes

ASSUME RingAssumption ==
  /\ RX_BUFFER_SIZE \in 1..254 /\ TX_BUFFER_SIZE \in 1..254
  /\ RxByte # {} /\ TxByte # {}

VARIABLES
  rx_buffer, rx_head, rx_tail,
  tx_buffer, tx_head, tx_tail,
  udrie,          \* the data register empty interrupt is enabled
  uart,           \* the bytes in the UART: the one being shifted out, the data register
  gap,            \* a byte has left the UART since the head was advanced
  writing, data,  \* serial_write(): its next step, its argument
  exec_reset      \* EXEC_RESET of sys_rt_exec_state

rxVars == <<rx_buffer, rx_head, rx_tail>>
txVars == <<tx_buffer, tx_head, tx_tail, udrie, uart, gap>>
writeVars == <<writing, data>>
ringVars == <<rxVars, txVars, writeVars, exec_reset>>

\* RX_RING_BUFFER and TX_RING_BUFFER.
RxRing == RX_BUFFER_SIZE + 1
TxRing == TX_BUFFER_SIZE + 1

NextSlot(i, ring) == IF i + 1 = ring THEN 0 ELSE i + 1
Used(head, tail, ring) == IF head >= tail THEN head - tail ELSE ring - (tail - head)
Slot(tail, k, ring) == IF tail + k <= ring THEN tail + k - 1 ELSE tail + k - 1 - ring
Content(buffer, head, tail, ring) ==
  [k \in 1..Used(head, tail, ring) |-> buffer[Slot(tail, k, ring)]]
RxContent == Content(rx_buffer, rx_head, rx_tail, RxRing)
TxContent == Content(tx_buffer, tx_head, tx_tail, TxRing)

\* serial_get_rx_buffer_available().
RxAvailable == IF rx_head >= rx_tail THEN RX_BUFFER_SIZE - (rx_head - rx_tail)
                                     ELSE rx_tail - rx_head - 1

TypeOK ==
  /\ rx_head \in 0..RX_BUFFER_SIZE /\ rx_tail \in 0..RX_BUFFER_SIZE
  /\ tx_head \in 0..TX_BUFFER_SIZE /\ tx_tail \in 0..TX_BUFFER_SIZE
  /\ rx_buffer \in [0..RX_BUFFER_SIZE -> RxByte] /\ tx_buffer \in [0..TX_BUFFER_SIZE -> TxByte]
  /\ udrie \in BOOLEAN /\ uart \in Seq(TxByte) /\ Len(uart) <= 2 /\ gap \in BOOLEAN
  /\ writing \in {"no", "wait", "enable"} /\ data \in TxByte /\ exec_reset \in BOOLEAN

-----------------------------------------------------------------------------
\* Receiving.

\* ISR(SERIAL_RX), a character for the buffer: dropped when there is no room.
RxStore(b) ==
  /\ IF NextSlot(rx_head, RxRing) = rx_tail
     THEN UNCHANGED <<rx_buffer, rx_head>>
     ELSE rx_buffer' = [rx_buffer EXCEPT ![rx_head] = b] /\ rx_head' = NextSlot(rx_head, RxRing)
  /\ UNCHANGED rx_tail

\* serial_read() of a ring that is not empty.
RxEmpty == rx_head = rx_tail
SerialRead == /\ ~RxEmpty /\ rx_tail' = NextSlot(rx_tail, RxRing)
              /\ UNCHANGED <<rx_buffer, rx_head>>

\* serial_reset_read_buffer().
ResetReadBuffer == rx_tail' = rx_head /\ UNCHANGED <<rx_buffer, rx_head>>

-----------------------------------------------------------------------------
\* Transmitting.

TxInterrupt == udrie /\ Len(uart) < 2
TxFull == NextSlot(tx_head, TxRing) = tx_tail

WriteCall(b) == writing' = "wait" /\ data' = b

\* The wait for room, given up when a reset is pending; then the store.
WriteAbandon == /\ writing = "wait" /\ ~TxInterrupt /\ TxFull /\ exec_reset
                /\ writing' = "no"
                /\ UNCHANGED <<rxVars, txVars, data, exec_reset>>
WriteStore ==
  /\ writing = "wait" /\ ~TxInterrupt /\ ~TxFull
  /\ tx_buffer' = [tx_buffer EXCEPT ![tx_head] = data]
  /\ tx_head' = NextSlot(tx_head, TxRing)
  /\ gap' = FALSE /\ writing' = "enable"
  /\ UNCHANGED <<rxVars, tx_tail, udrie, uart, data, exec_reset>>

\* The data register empty interrupt is switched on.
WriteNotEnabled ==                                       \* mutant
  /\ writing = "enable" /\ ~TxInterrupt
  /\ writing' = "no" /\ gap' = FALSE
  /\ UNCHANGED <<rxVars, tx_buffer, tx_head, tx_tail, udrie, uart, data, exec_reset>>
WriteEnable ==
  /\ writing = "enable" /\ ~TxInterrupt
  /\ udrie' = TRUE /\ writing' = "no" /\ gap' = FALSE
  /\ UNCHANGED <<rxVars, tx_buffer, tx_head, tx_tail, uart, data, exec_reset>>
SerialWrite == WriteAbandon \/ WriteStore \/ WriteEnable

\* ISR(SERIAL_UDRE): it does not look whether there is a byte to send.
UdreIsrLate ==                                           \* mutant
  /\ TxInterrupt
  /\ uart' = Append(uart, tx_buffer[tx_tail])
  /\ tx_tail' = NextSlot(tx_tail, TxRing)
  /\ udrie' = (tx_tail # tx_head)
  /\ UNCHANGED <<rxVars, tx_buffer, tx_head, gap, writeVars, exec_reset>>
UdreIsr ==
  /\ TxInterrupt
  /\ uart' = Append(uart, tx_buffer[tx_tail])
  /\ tx_tail' = NextSlot(tx_tail, TxRing)
  /\ udrie' = (tx_tail' # tx_head)
  /\ UNCHANGED <<rxVars, tx_buffer, tx_head, gap, writeVars, exec_reset>>

\* A byte has left the UART.
UartSends ==
  /\ uart # <<>> /\ ~(writing = "enable" /\ gap)
  /\ uart' = Tail(uart) /\ gap' = (writing = "enable")
  /\ UNCHANGED <<rxVars, tx_buffer, tx_head, tx_tail, udrie, writeVars, exec_reset>>

-----------------------------------------------------------------------------
Init ==
  /\ rx_buffer \in [0..RX_BUFFER_SIZE -> RxByte] /\ rx_head = 0 /\ rx_tail = 0
  /\ tx_buffer \in [0..TX_BUFFER_SIZE -> TxByte] /\ tx_head = 0 /\ tx_tail = 0
  /\ udrie = FALSE /\ uart = <<>> /\ gap = FALSE
  /\ writing = "no" /\ data \in TxByte /\ exec_reset = FALSE

\* The main program and the interrupts, in any order.
Receive == /\ \/ \E b \in RxByte : RxStore(b)
              \/ SerialRead
              \/ ResetReadBuffer
           /\ UNCHANGED <<txVars, writeVars, exec_reset>>
Write == /\ writing = "no" /\ \E b \in TxByte : WriteCall(b)
         /\ UNCHANGED <<rxVars, txVars, exec_reset>>
Reset == exec_reset' \in BOOLEAN /\ UNCHANGED <<rxVars, txVars, writeVars>>
Next == Receive \/ Write \/ Reset \/ SerialWrite \/ UdreIsr \/ UartSends
Spec == Init /\ [][Next]_ringVars

-----------------------------------------------------------------------------
\* Properties.

\* Each ring is a bounded queue: no byte is sent twice, out of order or over an unread one,
\* although each side moves only its own index and the transmit interrupt does not check for
\* an empty ring (serial.c:83, :106, :126).
Rx == INSTANCE Fifo WITH Byte <- RxByte, Capacity <- RX_BUFFER_SIZE, q <- RxContent
Tx == INSTANCE Fifo WITH Byte <- TxByte, Capacity <- TX_BUFFER_SIZE, q <- TxContent
RingsAreQueues == Rx!FlushedSpec /\ Tx!Spec

\* The transmit interrupt is never enabled on an empty ring, where it would send the whole
\* stale buffer (serial.c:112); the rest says why: how much of the ring can have been sent
\* between the store and the enable.
Pending == Used(tx_head, tx_tail, TxRing)
TransmitSafe ==
  /\ writing # "enable" => (udrie <=> Pending > 0) /\ ~gap
  /\ writing = "enable" => Pending > 0
  /\ writing = "enable" /\ udrie =>
       Pending > 1 \/ (gap /\ Len(uart) = 2)
  /\ writing = "enable" /\ udrie => Len(uart) >= 1 /\ (~gap => Len(uart) = 2)
=============================================================================
