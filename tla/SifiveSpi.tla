-------------------------------- MODULE SifiveSpi --------------------------------
(***************************************************************************)
(* The SPI controller of src/sifive/spi.cpp.  A slave is selected while    *)
(* its select line is low.                                                 *)
(***************************************************************************)
EXTENDS Naturals, Sequences, ScFifo

CONSTANTS
  SpiDepth,  \* of both FIFOs; 8 in the code
  Ids,       \* the ids of the select lines; 0..3 in the code
  SpiMarks   \* values of txmark and rxmark

NoLine == 4  \* an id with no line
Auto == 0    \* values of csmode
Hold == 2
Off  == 3

VARIABLES
  spi_in_reset,
  tx, rx,              \* tx_fifo and rx_fifo
  xfer,                \* the transmit thread starts, waits, is woken, or is in a frame
  low,                 \* select lines that are low
  csid, csmode,
  txmark, rxmark,
  spi_ie, spi_ip,      \* sets of "txwm" and "rxwm"
  tx_full,             \* the full bit of txdata
  spi_irq

spiVars == <<spi_in_reset, tx, rx, xfer, low, csid, csmode, txmark, rxmark, spi_ie, spi_ip, tx_full, spi_irq>>

(* The thread waits for a delta cycle before anything else. *)
Init ==
  /\ spi_in_reset = FALSE /\ tx = EmptyFifo /\ rx = EmptyFifo /\ xfer = "starts"
  /\ low = {} /\ csid = 0 /\ csmode = Auto /\ txmark = 0 /\ rxmark = 0
  /\ spi_ie = {} /\ spi_ip = {"txwm"} /\ tx_full = FALSE /\ spi_irq = FALSE

(* What the method update_irq makes of the FIFOs t and r and the enables e. *)
Watermarks(t, r) ==
  (IF txmark <= num_available(t) THEN {"txwm"} ELSE {}) \cup (IF rxmark < num_available(r) THEN {"rxwm"} ELSE {})

update_irq(t, r, e) ==
  /\ spi_ip' = Watermarks(t, r)
  /\ tx_full' = (num_free(t, SpiDepth) = 0)
  /\ spi_irq' = (e \cap Watermarks(t, r) # {})

(* The whole word is stored, its top bit in the place of the full bit. *)
TxdataWrite(top_bit) ==
  /\ ~spi_in_reset
  /\ tx' = nb_write(tx, "byte", SpiDepth)
  /\ tx_full' = top_bit
  /\ UNCHANGED <<spi_in_reset, rx, xfer, low, csid, csmode, txmark, rxmark, spi_ie, spi_ip, spi_irq>>

RxdataRead ==
  /\ ~spi_in_reset /\ num_available(rx) > 0
  /\ rx' = nb_read(rx)
  /\ IF rxmark <= num_available(rx') THEN update_irq(tx, rx', spi_ie)
                                     ELSE UNCHANGED <<spi_ip, tx_full, spi_irq>>
  /\ UNCHANGED <<spi_in_reset, tx, xfer, low, csid, csmode, txmark, rxmark, spi_ie>>

(* A slave is held selected until mode, id or its default level changes. *)
Raised == IF csmode = Hold THEN low \ {csid} ELSE low

CsmodeWrite(m) ==
  /\ csmode' = m
  /\ low' = IF m # csmode THEN Raised ELSE low
  /\ UNCHANGED <<spi_in_reset, tx, rx, xfer, csid, txmark, rxmark, spi_ie, spi_ip, tx_full, spi_irq>>

(* Mutant of CsidWrite: the new line is raised, not the old one. *)
MutRaisesNew(i) ==
  /\ csid' = i
  /\ low' = IF csmode = Hold THEN low \ {i} ELSE low
  /\ UNCHANGED <<spi_in_reset, tx, rx, xfer, csmode, txmark, rxmark, spi_ie, spi_ip, tx_full, spi_irq>>

CsidWrite(i) ==
  /\ csid' = i
  /\ low' = IF i # csid THEN Raised ELSE low
  /\ UNCHANGED <<spi_in_reset, tx, rx, xfer, csmode, txmark, rxmark, spi_ie, spi_ip, tx_full, spi_irq>>

(* The written value differs from the old one in the bit of csid. *)
CsdefWrite ==
  /\ csid # NoLine
  /\ low' = Raised
  /\ UNCHANGED <<spi_in_reset, tx, rx, xfer, csid, csmode, txmark, rxmark, spi_ie, spi_ip, tx_full, spi_irq>>

MarkWrite ==
  /\ \/ txmark' \in SpiMarks /\ rxmark' = rxmark
     \/ rxmark' \in SpiMarks /\ txmark' = txmark
  /\ UNCHANGED <<spi_in_reset, tx, rx, xfer, low, csid, csmode, spi_ie, spi_ip, tx_full, spi_irq>>

(* What is written to ip is computed anew before it can be read. *)
IeIpWrite ==
  /\ spi_ie' \in SUBSET {"txwm", "rxwm"}
  /\ update_irq(tx, rx, spi_ie')
  /\ UNCHANGED <<spi_in_reset, tx, rx, xfer, low, csid, csmode, txmark, rxmark>>

(* The registers only. *)
reset_cb ==
  /\ spi_in_reset' = ~spi_in_reset
  /\ IF spi_in_reset'
     THEN csid' = 0 /\ csmode' = Auto /\ txmark' = 0 /\ rxmark' = 0 /\ spi_ie' = {} /\ spi_ip' = {} /\ tx_full' = FALSE
     ELSE UNCHANGED <<csid, csmode, txmark, rxmark, spi_ie, spi_ip, tx_full>>
  /\ UNCHANGED <<tx, rx, xfer, low, spi_irq>>

(* The end of a delta cycle; each event of a FIFO runs update_irq, and a write *)
(* the waiting thread, but not the one that only starts to wait.               *)
FifoUpdate ==
  /\ xfer # "woken" /\ (xfer = "starts" \/ ~Settled(tx) \/ ~Settled(rx))
  /\ tx' = SettledOf(tx) /\ rx' = SettledOf(rx)
  /\ xfer' = IF xfer = "starts" THEN "waits"
             ELSE IF xfer = "waits" /\ tx.new # <<>> THEN "woken" ELSE xfer
  /\ IF Settled(tx) /\ Settled(rx) THEN UNCHANGED <<spi_ip, tx_full, spi_irq>>
                                    ELSE update_irq(tx', rx', spi_ie)
  /\ UNCHANGED <<spi_in_reset, low, csid, csmode, txmark, rxmark, spi_ie>>

Driven(m) == IF m /\ csid # NoLine THEN low \cup {csid} ELSE low

(* transmit_data after its event: the select line, and the first frame. *)
StartBurst ==
  /\ xfer = "woken"
  /\ low' = Driven(csmode # Off)
  /\ tx' = nb_read(tx) /\ update_irq(tx', rx, spi_ie)
  /\ xfer' = "frame"
  /\ UNCHANGED <<spi_in_reset, rx, csid, csmode, txmark, rxmark, spi_ie>>

(* The end of a frame, not within the delta cycle that took its byte: a slave  *)
(* that answered (or none) leaves a byte, and the next frame starts or the     *)
(* thread waits.  In mode Auto the line is driven to the level it has already. *)
EndFrame(answered) ==
  /\ xfer = "frame" /\ tx.freed = 0
  /\ rx' = IF answered THEN nb_write(rx, "byte", SpiDepth) ELSE rx
  /\ IF num_available(tx) > 0
     THEN tx' = nb_read(tx) /\ xfer' = "frame" /\ low' = low
     ELSE tx' = tx /\ xfer' = "waits" /\ low' = Driven(csmode = Auto)
  /\ update_irq(tx', rx', spi_ie)
  /\ UNCHANGED <<spi_in_reset, csid, csmode, txmark, rxmark, spi_ie>>

Next ==
  \/ \E top_bit \in BOOLEAN : TxdataWrite(top_bit)
  \/ RxdataRead \/ CsdefWrite \/ MarkWrite \/ IeIpWrite \/ reset_cb
  \/ \E m \in {Auto, Hold, Off} : CsmodeWrite(m)
  \/ \E i \in Ids \cup {NoLine} : CsidWrite(i)
  \/ FifoUpdate \/ StartBurst
  \/ \E answered \in BOOLEAN : EndFrame(answered)

Spec == Init /\ [][Next]_spiVars

-----------------------------------------------------------------------------
TypeOK ==
  /\ Len(Held(tx)) + tx.freed <= SpiDepth /\ Len(Held(rx)) + rx.freed <= SpiDepth
  /\ xfer \in {"starts", "waits", "woken", "frame"} /\ (xfer = "woken" => num_available(tx) > 0)
  /\ low \subseteq Ids /\ csid \in Ids \cup {NoLine}

(* A slave that is no longer addressed stays selected, beside the next one,   *)
(* only because the id changed while the mode was not Hold, by a write or by  *)
(* a reset in any mode: no other write and no transfer leaves a line behind.  *)
Stray == low \ {csid}

StrayOnlyOutsideHold == (Stray' \subseteq Stray) \/ (csid' # csid /\ (csmode # Hold \/ spi_in_reset'))

(* Between deltas the interrupt follows the FIFOs, the marks and the enables,  *)
(* but for a mark that is written and for a reset, which nothing recomputes.   *)
IrqStale == Settled(tx) /\ Settled(rx) /\ spi_irq # (spi_ie \cap Watermarks(tx, rx) # {})

IrqStaleOnlyByMarkOrReset ==
  (IrqStale' /\ ~IrqStale) => (<<txmark, rxmark>>' # <<txmark, rxmark>> \/ spi_in_reset')

(* Software that polls the full bit between deltas loses no byte: the bit is   *)
(* low over a full FIFO only after a reset or after a byte written although    *)
(* the bit was high.                                                           *)
Misled == Settled(tx) /\ ~tx_full /\ num_free(tx, SpiDepth) = 0

MisledOnlyByResetOrOverrun == (Misled' /\ ~Misled) => (spi_in_reset' \/ tx_full)

(* A byte lies in the FIFO and the thread waits for the next one: only a byte  *)
(* of the first delta cycle, whose event the thread does not hear.             *)
Overheard == xfer = "waits" /\ tx.q # <<>>

OverheardOnlyAtStart == (Overheard' /\ ~Overheard) => xfer = "starts"
=============================================================================
