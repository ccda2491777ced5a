------------------------------ MODULE MCSerial ------------------------------
(***************************************************************************)
(* The UARTs and the SPI controllers with the devices at their other end.  *)
(* None of them is connected to another, so one runs while the others      *)
(* rest; `serial' names it.                                                *)
(***************************************************************************)
EXTENDS Naturals, Sequences

CONSTANTS Initiators, TxDepth, CharBound, Depth, Marks, CallBound, Lengths, DataBound,
          Written, QueueBound, SpiDepth, Ids, SpiMarks, TxWords, RxWords, DataLengths, Prefixes, Stored

(* Depths, bounds and the counts of words are numbers; the UARTs of SiFive    *)
(* hold more than one character, and the SPI controller has the line 0.       *)
ASSUME SerialAssumption ==
  /\ TxDepth \in Nat /\ Depth \in Nat /\ Depth > 1 /\ SpiDepth \in Nat
  /\ Marks \subseteq Nat /\ SpiMarks \subseteq Nat /\ Lengths \subseteq Nat
  /\ 0 \in Ids /\ QueueBound \in Nat
  /\ TxWords \in Nat \ {0} /\ RxWords \in Nat \ {0}
  /\ Stored \subseteq (0..(TxWords - 1)) \cap (0..(RxWords - 1))

VARIABLES
  serial,
  bit_true, uart_in_reset, tx_fifo, sender, in_hand, queues, int_ctrl, uart_irq, written, taken,
  dropped, asked,
  kind, ticking, suart_in_reset, txfifo, rxfifo, calls, thread, bit_time, full, txwm, rxwm,
  txcnt, rxcnt, suart_irq,
  dlab, ier, data_ready, iir, puart_irq, events, device,
  qspi_in_reset, selected, cmd, rsp, mem_cmd, mem, no_answer, meant,
  spi_in_reset, tx, rx, xfer, low, csid, csmode, txmark, rxmark, spi_ie, spi_ip, tx_full, spi_irq,
  state, sending, at, transferinProgress, tx_mode, rx_mode, fifo, data_counter, datalen,
  prefix, tx_status, tx_status_help, rx_status, rd, started, undefined

muart == <<bit_true, uart_in_reset, tx_fifo, sender, in_hand, queues, int_ctrl, uart_irq, written, taken,
           dropped, asked>>
suart == <<kind, ticking, suart_in_reset, txfifo, rxfifo, calls, thread, bit_time, full, txwm, rxwm,
           txcnt, rxcnt, suart_irq>>
puart == <<dlab, ier, data_ready, iir, puart_irq, events, device>>
qspi  == <<qspi_in_reset, selected, cmd, rsp, mem_cmd, mem, no_answer, meant>>
spi   == <<spi_in_reset, tx, rx, xfer, low, csid, csmode, txmark, rxmark, spi_ie, spi_ip, tx_full, spi_irq>>
master == <<state, sending, at, transferinProgress, tx_mode, rx_mode, fifo, data_counter, datalen,
            prefix, tx_status, tx_status_help, rx_status, rd, started, undefined>>
serialVars == <<serial, muart, suart, puart, qspi, spi, master>>

Muart  == INSTANCE MinresUart
Suart  == INSTANCE SifiveUart
Puart  == INSTANCE PulpinoUart
Qspi   == INSTANCE MinresQspi
Spi    == INSTANCE SifiveSpi
Master == INSTANCE PulpinoSpiMaster

SerialInit ==
  /\ serial \in {"muart", "suart", "puart", "qspi", "spi", "master"}
  /\ Muart!Init /\ Suart!Init /\ Puart!Init /\ Qspi!Init /\ Spi!Init /\ Master!Init
  /\ serial # "muart" => bit_true = FALSE
  /\ serial # "suart" => kind = "frames"

SerialNext ==
  /\ UNCHANGED serial
  /\ \/ serial = "muart"  /\ Muart!Next  /\ UNCHANGED <<suart, puart, qspi, spi, master>>
     \/ serial = "suart"  /\ Suart!Next  /\ UNCHANGED <<muart, puart, qspi, spi, master>>
     \/ serial = "puart"  /\ Puart!Next  /\ UNCHANGED <<muart, suart, qspi, spi, master>>
     \/ serial = "qspi"   /\ Qspi!Next   /\ UNCHANGED <<muart, suart, puart, spi, master>>
     \/ serial = "spi"    /\ Spi!Next    /\ UNCHANGED <<muart, suart, puart, qspi, master>>
     \/ serial = "master" /\ Master!Next /\ UNCHANGED <<muart, suart, puart, qspi, spi>>

SerialSpec == SerialInit /\ [][SerialNext]_serialVars

-----------------------------------------------------------------------------
(* What software relies on: a character that enters the FIFO of the MINRES   *)
(* UART is taken whatever its thread is doing, in the order of the writes    *)
(* and into the line of its initiator, and an SPI master that reports itself *)
(* finished takes the next transfer unless it cannot end this one.           *)
StreamsAreKept ==
  /\ Muart!TypeOK /\ Muart!NoneForgotten /\ Muart!LinesApart /\ Muart!InOrder /\ Muart!NothingLost
  /\ Suart!TypeOK
  /\ Puart!TypeOK
  /\ Qspi!TypeOK
  /\ Spi!TypeOK
  /\ Master!TypeOK /\ Master!FinishedMeansIdle

(* A character or byte forgotten, one dropped by software that polls, bytes  *)
(* that reach the wrong slave or a device that was not started, received     *)
(* words that are sent again, and a read that waits for ever: each has one   *)
(* of the causes the module names.                                           *)
LossesAreExplained ==
  [][/\ Muart!DroppedOnlyUnasked
     /\ Suart!ForgottenOnlyInIdleBit /\ Suart!DeceivedOnlyByReset
     /\ Qspi!OutOfStepOnlyBySelection
     /\ Spi!MisledOnlyByResetOrOverrun /\ Spi!OverheardOnlyAtStart /\ Spi!StrayOnlyOutsideHold
     /\ Master!StuckOnlyByLastRead /\ Master!UnstartedOnlyByReset /\ Master!ResentExplained]_serialVars

(* The same for what software is told: an interrupt or a status bit that is  *)
(* not what FIFOs and enables make it, and counts that are off.              *)
SignalsAreExplained ==
  [][/\ Suart!MarkedFullOnlyInNoTime
     /\ Puart!UnannouncedOnlyByRead /\ Puart!WrongOnlyByWrite
     /\ Spi!IrqStaleOnlyByMarkOrReset
     /\ Master!OtherCountsExplained /\ Master!WordsAreCounted]_serialVars
=============================================================================
