----------------------------- MODULE MinresEthmac -----------------------------
(***************************************************************************)
(* The Ethernet MAC of src/minres/ethmac.cpp over the registers of         *)
(* src/minres/gen/ethmac_regs.h, with a driver that frames what it writes  *)
(* to mac_tx: a length word, then the words of the frame.                  *)
(*                                                                         *)
(* Callbacks run to completion except the write of mac_intr, which waits   *)
(* for the delay of its transaction between the test of in_reset and the   *)
(* assignment.  The receive ring is filled and drained in whole words (the *)
(* header, the padded frame, its capacity), so it is modelled in words;    *)
(* the transmit ring, where the aligner drops half a word, in bytes.       *)
(***************************************************************************)
EXTENDS Integers, Sequences

CONSTANTS
  RxWords,   \* capacity of rx_buffer in words
  TxBytes,   \* capacity of tx_buffer in bytes
  RxSizes,   \* payload sizes of the frames that arrive, in bytes
  TxLens,    \* lengths the driver announces, in bytes
  SizeMod    \* the range of size_t

ASSUME EthmacAssumption ==
  /\ RxWords \in Nat \ {0}
  /\ TxBytes \in Nat \ {0} /\ TxBytes % 4 = 0
  /\ RxSizes \subseteq Nat
  /\ SizeMod \in Nat /\ SizeMod > TxBytes + 2
  /\ TxLens \subseteq 0..(SizeMod - 1)

VARIABLES
  in_reset,
  ctrl,          \* r_mac_ctrl: the bits software owns, as a set
  tx_ready,      \* r_mac_ctrl.tx_ready
  rx_pending,    \* r_mac_ctrl.rx_pending
  rx_drops,      \* r_mac_rx_stats.rx_drops
  words_avail,   \* r_mac_tx_availability.words_avail
  intr,          \* r_mac_intr as a set
  irq,           \* irq_o[0] as last driven
  tx_state, tx_expected_bytes,
  tx_size,       \* tx_buffer.size()
  rx_buffer,     \* words [of, at]: word `at' (0 is the length) of a frame of `of' words
  intr_write,    \* the values of writes of mac_intr that wait for their delay
  drv,           \* driver: words of the current frame still to write
  last_read      \* history: the last word taken from rx_buffer since it was empty-handed

ctrlRegs == <<ctrl, tx_ready, rx_pending>>
txVars == <<tx_state, tx_expected_bytes, tx_size, words_avail, drv>>
rxVars == <<rx_buffer, rx_drops, last_read>>
intrVars == <<intr, intr_write>>
vars == <<in_reset, ctrl, tx_ready, rx_pending, rx_drops, words_avail, intr, irq,
          tx_state, tx_expected_bytes, tx_size, rx_buffer, intr_write, drv, last_read>>

CtrlBits == {"tx_flush", "tx_aligner_enable", "rx_flush"}
IntrBits == {"tx_free_intr_enable", "rx_data_avail_intr_enable"}
NoWord   == [of |-> 0, at |-> 0]

Init ==
  /\ in_reset = FALSE
  /\ ctrl = {} /\ tx_ready = FALSE /\ rx_pending = FALSE
  /\ rx_drops = 0 /\ words_avail = 0
  /\ intr = {} /\ irq = FALSE
  /\ tx_state = "LENGTH" /\ tx_expected_bytes = SizeMod - 1
  /\ tx_size = 0 /\ rx_buffer = <<>>
  /\ intr_write = {}
  /\ drv = 0
  /\ last_read = NoWord

-----------------------------------------------------------------------------
MinOf(a, b) == IF a <= b THEN a ELSE b
MaxOf(a, b) == IF a >= b THEN a ELSE b

TxFull == tx_size = TxBytes

(* update_irq, from mac_intr and the flags in r_mac_ctrl. *)
update_irq(en, ready, pend) ==
  irq' = \/ "tx_free_intr_enable" \in en /\ ready
         \/ "rx_data_avail_intr_enable" \in en /\ pend

(* The words pushed for a payload of n bytes: the length, then the optional  *)
(* two alignment bytes, the payload, the FCS and the padding.                *)
FrameWords(n) ==
  LET size  == n + 4 + (IF "tx_aligner_enable" \in ctrl THEN 2 ELSE 0)
      words == (size + 3) \div 4
  IN  [k \in 1..(words + 1) |-> [of |-> words, at |-> k - 1]]

(* Mutant of ReceiveFrame: a frame cut short is not counted as dropped. *)
MutCutUnseen(n) ==
  LET room  == RxWords - Len(rx_buffer)
      frame == FrameWords(n)
  IN  /\ "rx_flush" \notin ctrl
      /\ \/ /\ room = 0
            /\ rx_drops' = 1
            /\ UNCHANGED <<rx_buffer, rx_pending, irq>>
         \/ /\ room > 0
            /\ rx_buffer' = rx_buffer \o SubSeq(frame, 1, MinOf(room, Len(frame)))
            /\ rx_pending' = TRUE
            /\ update_irq(intr, tx_ready, rx_pending')
            /\ UNCHANGED rx_drops
      /\ UNCHANGED <<in_reset, ctrl, tx_ready, txVars, intrVars, last_read>>

(* Mutant of ReceiveFrame: the interrupt is not updated. *)
MutReceiveSilently(n) ==
  LET room  == RxWords - Len(rx_buffer)
      frame == FrameWords(n)
  IN  /\ "rx_flush" \notin ctrl
      /\ room > 0
      /\ rx_buffer' = rx_buffer \o SubSeq(frame, 1, MinOf(room, Len(frame)))
      /\ rx_drops' = IF room < Len(frame) THEN 1 ELSE rx_drops
      /\ rx_pending' = TRUE
      /\ UNCHANGED <<in_reset, ctrl, tx_ready, irq, txVars, intrVars, last_read>>

(* eth_rx: a full ring drops the frame, a ring that fills up cuts it short.  *)
(* Neither the reset nor an earlier cut keeps a frame out.                   *)
ReceiveFrame(n) ==
  LET room  == RxWords - Len(rx_buffer)
      frame == FrameWords(n)
  IN  /\ "rx_flush" \notin ctrl
      /\ \/ /\ room = 0
            /\ rx_drops' = 1
            /\ UNCHANGED <<rx_buffer, rx_pending, irq>>
         \/ /\ room > 0
            /\ rx_buffer' = rx_buffer \o SubSeq(frame, 1, MinOf(room, Len(frame)))
            /\ rx_drops' = IF room < Len(frame) THEN 1 ELSE rx_drops
            /\ rx_pending' = TRUE
            /\ update_irq(intr, tx_ready, rx_pending')
      /\ UNCHANGED <<in_reset, ctrl, tx_ready, txVars, intrVars, last_read>>

(* Mutant of ReadRx: the pending flag is computed before the word is taken. *)
MutPendingTooEarly ==
  /\ ~in_reset /\ "rx_flush" \notin ctrl
  /\ rx_pending' = (rx_buffer # <<>>)
  /\ \/ /\ rx_buffer # <<>>
        /\ rx_buffer' = Tail(rx_buffer) /\ last_read' = Head(rx_buffer)
     \/ rx_buffer = <<>> /\ UNCHANGED <<rx_buffer, last_read>>
  /\ update_irq(intr, tx_ready, rx_pending')
  /\ UNCHANGED <<in_reset, ctrl, tx_ready, rx_drops, txVars, intrVars>>

(* A read of mac_rx takes one word, or reads zero from an empty ring. *)
ReadRx ==
  /\ ~in_reset /\ "rx_flush" \notin ctrl
  /\ \/ /\ rx_buffer # <<>>
        /\ rx_buffer' = Tail(rx_buffer) /\ last_read' = Head(rx_buffer)
     \/ rx_buffer = <<>> /\ UNCHANGED <<rx_buffer, last_read>>
  /\ rx_pending' = (rx_buffer' # <<>>)
  /\ update_irq(intr, tx_ready, rx_pending')
  /\ UNCHANGED <<in_reset, ctrl, tx_ready, rx_drops, txVars, intrVars>>

-----------------------------------------------------------------------------
(* Mutant of TxEpilogue: the availability as it was before the write. *)
MutAvailBefore ==
  /\ words_avail' = (TxBytes - MaxOf(tx_size, 1)) \div 4
  /\ tx_ready' = (tx_size' # TxBytes)
  /\ update_irq(intr, tx_ready', rx_pending)
  /\ UNCHANGED <<in_reset, ctrl, rx_pending, rxVars, intrVars>>

(* The end of every accepted write of mac_tx. *)
TxEpilogue ==
  /\ words_avail' = (TxBytes - MaxOf(tx_size', 1)) \div 4
  /\ tx_ready' = (tx_size' # TxBytes)
  /\ update_irq(intr, tx_ready', rx_pending)
  /\ UNCHANGED <<in_reset, ctrl, rx_pending, rxVars, intrVars>>

(* mac_tx in state LENGTH: the announced length, less the alignment bytes in *)
(* size_t arithmetic.                                                        *)
WriteLength(len) ==
  /\ tx_state = "LENGTH"
  /\ IF "tx_aligner_enable" \in ctrl
     THEN tx_expected_bytes' = (len - 2) % SizeMod /\ tx_state' = "ALIGN"
     ELSE tx_expected_bytes' = len /\ tx_state' = "DATA"
  /\ UNCHANGED tx_size

(* mac_tx in state ALIGN or DATA: the bytes are buffered, and the frame is    *)
(* sent and the ring emptied once the expected bytes are there.  A full ring  *)
(* (nothing here looks) keeps its size.                                       *)
WriteData ==
  LET size == MinOf(tx_size + (IF tx_state = "ALIGN" THEN 2 ELSE 4), TxBytes)
  IN  /\ tx_state \in {"ALIGN", "DATA"}
      /\ \/ /\ size >= tx_expected_bytes
            /\ tx_state' = "LENGTH" /\ tx_size' = 0
         \/ /\ size < tx_expected_bytes
            /\ tx_state' = "DATA" /\ tx_size' = size
      /\ UNCHANGED tx_expected_bytes

(* A write of mac_tx of a length (the word means that to the driver, whether  *)
(* or not the MAC takes it as one) or of a data word.                         *)
TxBegin(len) ==
  /\ drv = 0
  /\ ~in_reset /\ "tx_flush" \notin ctrl
  /\ WriteLength(len) \/ WriteData
  /\ TxEpilogue
  /\ drv' = (len + 3) \div 4

TxData ==
  /\ drv > 0
  /\ ~in_reset /\ "tx_flush" \notin ctrl
  /\ (\E len \in TxLens : WriteLength(len)) \/ WriteData
  /\ TxEpilogue
  /\ drv' = drv - 1

-----------------------------------------------------------------------------
(* A write of mac_ctrl: the flags first, then the flushes.  A flush of the    *)
(* transmitter leaves tx_state where it was; the driver abandons its frame.   *)
CtrlWrite(bits) ==
  /\ ~in_reset
  /\ ctrl' = bits
  /\ tx_ready' = ~TxFull
  /\ rx_pending' = (rx_buffer # <<>>)
  /\ IF "rx_flush" \in bits THEN rx_buffer' = <<>> /\ last_read' = NoWord
                            ELSE UNCHANGED <<rx_buffer, last_read>>
  /\ IF "tx_flush" \in bits THEN tx_size' = 0 /\ drv' = 0 ELSE UNCHANGED <<tx_size, drv>>
  /\ UNCHANGED <<in_reset, rx_drops, words_avail, irq, tx_state, tx_expected_bytes,
                 intrVars>>

(* A read of mac_ctrl refreshes the flags, and only them. *)
CtrlRead ==
  /\ ~in_reset
  /\ tx_ready' = ~TxFull
  /\ rx_pending' = (rx_buffer # <<>>)
  /\ UNCHANGED <<in_reset, ctrl, irq, txVars, rxVars, intrVars>>

IntrWriteBegins(bits) ==
  /\ ~in_reset
  /\ intr_write = {}
  /\ intr_write' = {bits}
  /\ UNCHANGED <<in_reset, ctrlRegs, intr, irq, txVars, rxVars>>

IntrWriteEnds ==
  /\ \E bits \in intr_write : intr' = bits
  /\ intr_write' = {}
  /\ update_irq(intr', tx_ready, rx_pending)
  /\ UNCHANGED <<in_reset, ctrlRegs, txVars, rxVars>>

(* Mutant of ResetStart: the state machine of the transmitter is left alone. *)
MutResetKeepsState ==
  /\ ~in_reset /\ in_reset' = TRUE
  /\ ctrl' = {} /\ tx_ready' = FALSE /\ rx_pending' = FALSE
  /\ rx_drops' = 0 /\ words_avail' = 0 /\ intr' = {}
  /\ tx_size' = 0 /\ rx_buffer' = <<>>
  /\ drv' = 0 /\ last_read' = NoWord
  /\ UNCHANGED <<irq, tx_state, tx_expected_bytes, intr_write>>

(* reset_cb on the rising edge of rst_i: the registers and the rings.  The    *)
(* output is not driven, a waiting write of mac_intr not cancelled.           *)
ResetStart ==
  /\ ~in_reset /\ in_reset' = TRUE
  /\ ctrl' = {} /\ tx_ready' = FALSE /\ rx_pending' = FALSE
  /\ rx_drops' = 0 /\ words_avail' = 0 /\ intr' = {}
  /\ tx_state' = "LENGTH" /\ tx_size' = 0 /\ rx_buffer' = <<>>
  /\ drv' = 0 /\ last_read' = NoWord
  /\ UNCHANGED <<irq, tx_expected_bytes, intr_write>>

(* On the falling edge: the rings once more, for the frames that arrived in   *)
(* the meantime; their traces in the registers stay.                          *)
ResetStop ==
  /\ in_reset /\ in_reset' = FALSE
  /\ tx_state' = "LENGTH" /\ tx_size' = 0 /\ rx_buffer' = <<>>
  /\ last_read' = NoWord
  /\ UNCHANGED <<ctrlRegs, rx_drops, words_avail, intrVars, irq, tx_expected_bytes, drv>>

Next ==
  \/ \E n \in RxSizes : ReceiveFrame(n)
  \/ ReadRx
  \/ \E len \in TxLens : TxBegin(len)
  \/ TxData
  \/ \E bits \in SUBSET CtrlBits : CtrlWrite(bits)
  \/ CtrlRead
  \/ \E bits \in SUBSET IntrBits : IntrWriteBegins(bits)
  \/ IntrWriteEnds
  \/ ResetStart
  \/ ResetStop

Spec == Init /\ [][Next]_vars

-----------------------------------------------------------------------------
TypeOK ==
  /\ in_reset \in BOOLEAN
  /\ ctrl \subseteq CtrlBits /\ tx_ready \in BOOLEAN /\ rx_pending \in BOOLEAN
  /\ rx_drops \in {0, 1} /\ words_avail \in 0..(TxBytes \div 4)
  /\ intr \subseteq IntrBits /\ irq \in BOOLEAN
  /\ tx_state \in {"LENGTH", "ALIGN", "DATA"}
  /\ tx_expected_bytes \in 0..(SizeMod - 1)
  /\ tx_size \in 0..TxBytes
  /\ rx_buffer \in Seq([of : Nat, at : Nat]) /\ Len(rx_buffer) <= RxWords
  /\ intr_write \subseteq SUBSET IntrBits
  /\ drv \in Nat
  /\ last_read \in [of : Nat, at : Nat]

(* Whoever trusts the availability register never overruns the transmit ring, *)
(* however old the value is that it read there.                               *)
AvailIsSafe == words_avail * 4 <= TxBytes - tx_size

(* w is the word a driver expects after v. *)
Follows(v, w) == \/ v.at = v.of /\ w.at = 0
                 \/ v.at < v.of /\ w = [of |-> v.of, at |-> v.at + 1]

(* The words read from mac_rx are whole frames, one after the other, unless   *)
(* rx_drops says that something was lost.                                     *)
FramingIsFlagged ==
  LET stream == <<last_read>> \o rx_buffer
  IN  rx_drops = 1 \/ \A k \in 1..(Len(stream) - 1) : Follows(stream[k], stream[k + 1])

(* The flags the interrupt is computed from disagree with the rings only      *)
(* after a flush that found something, or a reset (after which an empty       *)
(* transmitter reads as not ready): no frame received, read or sent does it.  *)
Stale == tx_ready = TxFull \/ rx_pending = (rx_buffer = <<>>)

StaleOnlyByFlushOrReset ==
  [][~Stale /\ Stale' =>
       \/ in_reset' # in_reset
       \/ "tx_flush" \in ctrl' /\ tx_size # 0
       \/ "rx_flush" \in ctrl' /\ rx_buffer # <<>>]_vars

(* With true flags the interrupt is high exactly if an enabled source has     *)
(* something to say.  An access of mac_ctrl, which puts a stale flag right    *)
(* without evaluating the interrupt (ethmac.cpp:242), is the one way to get   *)
(* to true flags and a wrong interrupt; a frame that arrives, a read of       *)
(* mac_rx and a write of mac_tx or mac_intr leave the interrupt right.        *)
Needed == \/ "tx_free_intr_enable" \in intr /\ ~TxFull
          \/ "rx_data_avail_intr_enable" \in intr /\ rx_buffer # <<>>

IrqWrong == ~Stale /\ irq # Needed

MacCtrl == CtrlRead \/ \E bits \in SUBSET CtrlBits : CtrlWrite(bits)

IrqFollowsNeed ==
  [][IrqWrong' =>
       \/ MacCtrl /\ (Stale \/ IrqWrong)
       \/ IrqWrong /\ UNCHANGED <<ctrlRegs, intr, irq, tx_size, rx_buffer>>]_vars

(* The data words the transmitter still wants before it sends a frame. *)
WordsDue ==
  CASE tx_state = "LENGTH" -> 0
    [] tx_state = "ALIGN"  -> (tx_expected_bytes + 5) \div 4
    [] tx_state = "DATA"   -> MaxOf(1, (tx_expected_bytes - tx_size + 3) \div 4)

(* Driver and transmitter agree on where a frame ends.  They part only when   *)
(* the driver flushes in the middle of a frame, or announces a frame that is  *)
(* empty, longer than the ring or, with the aligner, shorter than its padding.*)
InSync == drv = WordsDue

PartOnlyByFlushOrLength ==
  [][InSync /\ ~InSync' =>
       \/ "tx_flush" \in ctrl' /\ drv # 0
       \/ tx_expected_bytes' \notin 1..TxBytes]_vars

=============================================================================
