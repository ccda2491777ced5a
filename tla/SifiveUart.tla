------------------------------- MODULE SifiveUart -------------------------------
(***************************************************************************)
(* The UART of src/sifive/uart.cpp, and that of src/sifive/uart_terminal   *)
(* .cpp, which has the same registers and prints what it should send       *)
(* instead of driving a line.  The peer at rx_i is the environment.        *)
(***************************************************************************)
EXTENDS Naturals, Sequences, ScFifo

CONSTANTS
  Depth,     \* of both FIFOs; 8 in the code
  Marks,     \* values of txcnt and rxcnt
  CallBound  \* bound on the accesses to one register that are waiting

VARIABLES
  kind,                        \* the terminal, or a UART that sends bits or whole frames
  ticking,                     \* a bit takes time: the clock has a period
  suart_in_reset,
  txfifo, rxfifo,
  calls,                       \* accesses past the test of the reset that wait for their delay
  thread,                      \* starts, waits, is woken or runs, or is in a frame or the idle bit
  bit_time,                    \* the duration of the present frame's bits is not zero
  full, txwm, rxwm,            \* bits of txdata and ip
  txcnt, rxcnt, suart_irq

suartVars == <<kind, ticking, suart_in_reset, txfifo, rxfifo, calls, thread, bit_time, full, txwm, rxwm,
               txcnt, rxcnt, suart_irq>>

Kinds == {"terminal", "bits", "frames"}

(* The UART waits for a delta cycle before anything else.  The first idle bit *)
(* has no duration yet.                                                       *)
Init ==
  /\ kind \in Kinds /\ ticking = FALSE /\ suart_in_reset = FALSE
  /\ txfifo = EmptyFifo /\ rxfifo = EmptyFifo /\ calls = [txdata |-> 0, rxdata |-> 0]
  /\ thread = (IF kind = "terminal" THEN "waits" ELSE "starts") /\ bit_time = FALSE
  /\ full = FALSE /\ txwm = FALSE /\ rxwm = FALSE /\ txcnt = 0 /\ rxcnt = 0
  /\ suart_irq = FALSE

FullOf(f)  == num_free(f, Depth) = 0
TxwmOf(f)  == txcnt + 1 <= Depth - num_free(f, Depth)

(* ie and ip have callbacks that store nothing: no interrupt is enabled. *)
ie == {}
update_irq == suart_irq' = ((rxwm' /\ "rxwm" \in ie) \/ (txwm' /\ "txwm" \in ie))

Txdata ==
  /\ txfifo' = nb_write(txfifo, "char", Depth)
  /\ full' = FullOf(txfifo') /\ txwm' = TxwmOf(txfifo')
  /\ rxwm' = rxwm /\ update_irq
  /\ UNCHANGED <<kind, ticking, suart_in_reset, rxfifo, thread, bit_time, txcnt, rxcnt>>

(* An empty FIFO is not reported: the character read last is read again. *)
Rxdata ==
  /\ IF num_available(rxfifo) > 0
     THEN /\ rxfifo' = nb_read(rxfifo)
          /\ rxwm' = (rxwm \/ rxcnt <= num_available(rxfifo'))
     ELSE UNCHANGED <<rxfifo, rxwm>>
  /\ txwm' = txwm /\ update_irq
  /\ UNCHANGED <<kind, ticking, suart_in_reset, txfifo, thread, bit_time, full, txcnt, rxcnt>>

(* An access without a delay, and the two parts of one that waits for its     *)
(* delay, in which a reset may begin or end.                                  *)
TxdataWrite == ~suart_in_reset /\ Txdata /\ UNCHANGED calls
RxdataRead  == ~suart_in_reset /\ Rxdata /\ UNCHANGED calls

AccessWaits(r) ==
  /\ ~suart_in_reset
  /\ calls' = [calls EXCEPT ![r] = @ + 1]
  /\ UNCHANGED <<kind, ticking, suart_in_reset, txfifo, rxfifo, thread, bit_time, full, txwm, rxwm,
                 txcnt, rxcnt, suart_irq>>

TxdataDelayed == calls.txdata > 0 /\ Txdata /\ calls' = [calls EXCEPT !.txdata = @ - 1]
RxdataDelayed == calls.rxdata > 0 /\ Rxdata /\ calls' = [calls EXCEPT !.rxdata = @ - 1]

IrqWrite ==
  /\ UNCHANGED <<kind, ticking, suart_in_reset, txfifo, rxfifo, calls, thread, bit_time, full, txwm, rxwm,
                 txcnt, rxcnt>>
  /\ update_irq

(* The control registers have no callback. *)
CtrlWrite ==
  /\ \/ txcnt' \in Marks /\ rxcnt' = rxcnt
     \/ rxcnt' \in Marks /\ txcnt' = txcnt
  /\ UNCHANGED <<kind, ticking, suart_in_reset, txfifo, rxfifo, calls, thread, bit_time, full, txwm, rxwm, suart_irq>>

clock_cb ==
  /\ kind # "terminal"
  /\ ticking' = ~ticking
  /\ UNCHANGED <<kind, suart_in_reset, txfifo, rxfifo, calls, thread, bit_time, full, txwm, rxwm, txcnt, rxcnt, suart_irq>>

(* The registers only: the FIFOs keep their characters. *)
reset_cb ==
  /\ suart_in_reset' = ~suart_in_reset
  /\ IF suart_in_reset'
     THEN full' = FALSE /\ txwm' = FALSE /\ rxwm' = FALSE /\ txcnt' = 0 /\ rxcnt' = 0
     ELSE UNCHANGED <<full, txwm, rxwm, txcnt, rxcnt>>
  /\ UNCHANGED <<kind, ticking, txfifo, rxfifo, calls, thread, bit_time, suart_irq>>

(* The end of a delta cycle, for which the thread has run as far as it can.   *)
(* The thread that only starts to wait with it does not hear the event.       *)
FifoUpdate ==
  /\ thread # "woken" /\ (thread = "starts" \/ ~Settled(txfifo) \/ ~Settled(rxfifo))
  /\ txfifo' = SettledOf(txfifo) /\ rxfifo' = SettledOf(rxfifo)
  /\ thread' = IF thread = "starts" THEN "waits"
               ELSE IF thread = "waits" /\ txfifo.new # <<>> THEN "woken" ELSE thread
  /\ UNCHANGED <<kind, ticking, suart_in_reset, calls, bit_time, full, txwm, rxwm, txcnt, rxcnt, suart_irq>>

(* transmit_data: the next frame, or the idle bit, during which the thread    *)
(* does not listen for the event it will wait for.  A frame that is sent as a *)
(* whole takes a delta cycle if its bits have no duration.                    *)
transmit_data ==
  /\ thread \in {"woken", "runs"}
  /\ IF num_available(txfifo) > 0
     THEN /\ txfifo' = nb_read(txfifo)
          /\ full' = FullOf(txfifo') /\ txwm' = TxwmOf(txfifo')
          /\ bit_time' = (ticking /\ kind # "terminal")
          /\ thread' = IF bit_time' \/ kind = "frames" THEN "frame" ELSE "runs"
     ELSE /\ thread' = IF bit_time THEN "idle" ELSE "waits"
          /\ UNCHANGED <<txfifo, full, txwm, bit_time>>
  /\ UNCHANGED <<kind, ticking, suart_in_reset, rxfifo, calls, rxwm, txcnt, rxcnt, suart_irq>>

(* The end of a frame, not within the delta cycle that took its character,    *)
(* and that of the idle bit.                                                  *)
BitsSent ==
  /\ \/ thread = "frame" /\ txfifo.freed = 0 /\ thread' = "woken"
     \/ thread = "idle" /\ thread' = "waits"
  /\ UNCHANGED <<kind, ticking, suart_in_reset, txfifo, rxfifo, calls, bit_time, full, txwm, rxwm,
                 txcnt, rxcnt, suart_irq>>

(* receive_data, for the first signal of a frame; a full FIFO blocks the     *)
(* peer.  What is written does not yet count as available.                   *)
receive_data ==
  /\ kind # "terminal" /\ num_free(rxfifo, Depth) > 0
  /\ rxfifo' = nb_write(rxfifo, "char", Depth)
  /\ rxwm' = (rxwm \/ rxcnt <= num_available(rxfifo'))
  /\ txwm' = txwm /\ update_irq
  /\ UNCHANGED <<kind, ticking, suart_in_reset, txfifo, calls, thread, bit_time, full, txcnt, rxcnt>>

(* Nothing comes between the steps of the thread before it waits again. *)
Next ==
  \/ transmit_data
  \/ /\ thread # "runs"
     /\ \/ TxdataWrite \/ RxdataRead \/ TxdataDelayed \/ RxdataDelayed
        \/ \E r \in {"txdata", "rxdata"} : calls[r] < CallBound /\ AccessWaits(r)
        \/ IrqWrite \/ CtrlWrite \/ clock_cb \/ reset_cb
        \/ FifoUpdate \/ BitsSent \/ receive_data

Spec == Init /\ [][Next]_suartVars

-----------------------------------------------------------------------------
TypeOK ==
  /\ Len(Held(txfifo)) + txfifo.freed <= Depth /\ Len(Held(rxfifo)) + rxfifo.freed <= Depth
  /\ thread \in {"starts", "waits", "woken", "runs", "frame", "idle"}
  /\ txcnt \in Marks \cup {0} /\ rxcnt \in Marks \cup {0}
  /\ {full, txwm, rxwm, bit_time, ticking} \subseteq BOOLEAN

(* A character lies in the FIFO and the thread waits for the next one. *)
Forgotten == thread = "waits" /\ txfifo.q # <<>>

(* That happens only to what is written in the first delta cycle or during    *)
(* the idle bit after a frame; the terminal, which starts to listen at once   *)
(* and whose bits take no time, forgets nothing.                              *)
ForgottenOnlyInIdleBit == (Forgotten' /\ ~Forgotten) => (thread \in {"starts", "idle"} /\ kind # "terminal")

(* Software that polls the full bit may write without losing a character: the *)
(* bit is low only while there is room, but for a reset, which clears it and  *)
(* leaves the FIFO full; not even a write that has waited into it does that.  *)
Deceived == ~full /\ num_free(txfifo, Depth) = 0

DeceivedOnlyByReset == (Deceived' /\ ~Deceived) => (suart_in_reset' /\ ~suart_in_reset)

(* And it may poll forever: the bit stays high over an empty FIFO, until the  *)
(* next write, when a full FIFO was emptied within one delta cycle.  Bits     *)
(* that take time exclude that, and frames that are sent as a whole.          *)
MarkedFull == full /\ txfifo = EmptyFifo

MarkedFullOnlyInNoTime ==
  (MarkedFull' /\ ~MarkedFull) => (kind = "terminal" \/ (kind = "bits" /\ ~bit_time))
=============================================================================
