---------------------------- MODULE PulpinoSpiMaster ----------------------------
(***************************************************************************)
(* The SPI master of src/pulpino/spi_master.h.  One queue serves both      *)
(* directions.  A thread runs the transfer: it wakes after a period, does  *)
(* the work of the present state, for which it waits after every bit, and  *)
(* takes the next state.  Software comes in between.  The bits of a word   *)
(* are modelled as two halves, the bits before the data as one wait; quad  *)
(* mode only changes how many bits go at once and is left out.             *)
(***************************************************************************)
EXTENDS Naturals, Sequences

CONSTANTS
  TxWords,    \* words TX_STATUS can count before it wraps; 64 in the code
  RxWords,    \* the same of RX_STATUS; 8 in the code
  DataLengths, \* values of DATALEN, in halves of a word
  Prefixes,   \* sets of what goes before the data, of "COMMAND", "ADDRESS" and "DUMMY"
  Stored      \* what software writes into the two counts of STATUS, in words

maxSizefifo == 2

VARIABLES
  state,
  sending,              \* halves whose wait the thread is in; 0 before the work of a state
  at,                   \* the state that work belongs to
  transferinProgress, tx_mode, rx_mode,
  fifo,                 \* words "tx" and "rx", the latter received
  data_counter, datalen, prefix,
  tx_status, tx_status_help, rx_status,
  rd,                   \* the bit RD of STATUS: set when a transfer is finished
  started,              \* the device has had START_COMMAND and not STOP_COMMAND
  undefined             \* front() or pop() of the empty queue: what follows is not modelled

masterVars == <<state, sending, at, transferinProgress, tx_mode, rx_mode, fifo, data_counter, datalen,
                prefix, tx_status, tx_status_help, rx_status, rd, started, undefined>>

(* reset clears all registers and the state, but not what the thread is doing. *)
Cleared ==
  /\ state' = "IDLE" /\ transferinProgress' = FALSE /\ tx_mode' = FALSE /\ rx_mode' = FALSE
  /\ fifo' = <<>> /\ data_counter' = 0 /\ datalen' = 0 /\ prefix' = {}
  /\ tx_status' = 0 /\ tx_status_help' = 0 /\ rx_status' = 0 /\ rd' = FALSE

Init ==
  /\ state = "IDLE" /\ sending = 0 /\ at = "IDLE"
  /\ transferinProgress = FALSE /\ tx_mode = FALSE /\ rx_mode = FALSE
  /\ fifo = <<>> /\ data_counter = 0 /\ datalen = 0 /\ prefix = {}
  /\ tx_status = 0 /\ tx_status_help = 0 /\ rx_status = 0 /\ rd = FALSE
  /\ started = FALSE /\ undefined = FALSE

thread == <<sending, at, started, undefined>>
regs   == <<datalen, prefix>>

-----------------------------------------------------------------------------
(* Software.  The two counts in STATUS have no callback and store what is      *)
(* written; the callback of RD stores zero.                                   *)
StatusStores == tx_status' \in Stored /\ rx_status' \in Stored /\ rd' = FALSE

SoftwareReset == Cleared /\ UNCHANGED thread

(* QWR, QRD, WR and RD: ignored during a transfer. *)
StatusWrite(mode) ==
  /\ transferinProgress' = TRUE
  /\ tx_mode' = IF transferinProgress THEN tx_mode ELSE mode = "tx"
  /\ rx_mode' = IF transferinProgress THEN rx_mode ELSE mode = "rx"
  /\ StatusStores
  /\ UNCHANGED <<state, fifo, data_counter, regs, tx_status_help, thread>>

CsWrite ==
  /\ StatusStores
  /\ UNCHANGED <<state, transferinProgress, tx_mode, rx_mode, fifo, data_counter, regs, tx_status_help, thread>>

(* Rejected in a read and when the queue is full. *)
TxWrite ==
  /\ ~rx_mode /\ Len(fifo) < maxSizefifo
  /\ fifo' = Append(fifo, "tx")
  /\ tx_status' = (tx_status + 1) % TxWords
  /\ tx_status_help' = IF transferinProgress THEN tx_status_help ELSE tx_status'
  /\ UNCHANGED <<state, transferinProgress, tx_mode, rx_mode, data_counter, regs, rx_status, rd, thread>>

(* The oldest word, in whichever direction it goes. *)
RxRead ==
  /\ fifo # <<>>
  /\ fifo' = Tail(fifo)
  /\ rx_status' = (rx_status + RxWords - 1) % RxWords
  /\ UNCHANGED <<state, transferinProgress, tx_mode, rx_mode, data_counter, regs, tx_status, tx_status_help, rd, thread>>

LengthWrite ==
  /\ datalen' \in DataLengths /\ prefix' \in Prefixes
  /\ UNCHANGED <<state, transferinProgress, tx_mode, rx_mode, fifo, data_counter, tx_status, tx_status_help,
                 rx_status, rd, thread>>

-----------------------------------------------------------------------------
DataOr(none) ==
  IF tx_mode THEN IF "DUMMY" \in prefix THEN "DUMMY_TX" ELSE "DATA_TX"
  ELSE IF rx_mode THEN IF "DUMMY" \in prefix THEN "DUMMY_RX" ELSE "DATA_RX"
  ELSE none

AddressOr(none) == IF "ADDRESS" \in prefix THEN "ADDRESS" ELSE DataOr(none)

(* WAIT_RX shifts the size of the queue where it should compare it. *)
Waits(q) == IF Len(q) < maxSizefifo /\ Len(q) # 0 THEN "DATA_RX" ELSE "WAIT_RX"

(* state_change, but for FINISHED, with the queue q and the counter c. *)
state_change(q, c) ==
  CASE state = "IDLE" -> IF ~transferinProgress THEN "IDLE"
                         ELSE IF "COMMAND" \in prefix THEN "COMMAND" ELSE AddressOr("IDLE")
    [] state = "COMMAND" -> AddressOr("FINISHED")
    [] state = "ADDRESS" -> DataOr("FINISHED")
    [] state = "DUMMY_TX" -> "DATA_TX"
    [] state = "DUMMY_RX" -> "DATA_RX"
    [] state = "DATA_TX" -> IF c >= datalen THEN "FINISHED" ELSE IF q # <<>> THEN "DATA_TX" ELSE "WAIT_TX"
    [] state = "WAIT_TX" -> IF q # <<>> THEN "DATA_TX" ELSE "WAIT_TX"
    [] state = "DATA_RX" -> IF c >= datalen THEN "FINISHED"
                            ELSE IF Len(q) < maxSizefifo THEN "DATA_RX" ELSE "WAIT_RX"
    [] state = "WAIT_RX" -> Waits(q)
    [] state = "FINISHED" -> "FINISHED"

Leaves(s) == s = "FINISHED" /\ (tx_status = 0 \/ rx_status = 0)

(* The next state, with the queue and the counter the thread leaves. *)
Continue ==
  /\ state' = IF Leaves(state) THEN "IDLE" ELSE state_change(fifo', data_counter')
  /\ transferinProgress' = (transferinProgress /\ ~Leaves(state))
  /\ tx_mode' = (tx_mode /\ ~Leaves(state)) /\ rx_mode' = (rx_mode /\ ~Leaves(state))
  /\ sending' = 0 /\ at' = "IDLE"

(* The states without a wait: START_COMMAND and the count of words in IDLE,   *)
(* nothing in the wait states and where there is nothing to send.             *)
Instant ==
  /\ sending = 0
  /\ \/ state \in {"IDLE", "WAIT_TX", "WAIT_RX"}
     \/ state = "COMMAND" /\ "COMMAND" \notin prefix
     \/ state = "ADDRESS" /\ "ADDRESS" \notin prefix
     \/ state \in {"DUMMY_TX", "DUMMY_RX"} /\ "DUMMY" \notin prefix
     \/ state = "DATA_TX" /\ fifo = <<>>
  /\ started' = (started \/ (state = "IDLE" /\ transferinProgress))
  /\ tx_status' = IF state = "IDLE" /\ transferinProgress /\ tx_mode THEN tx_status_help ELSE tx_status
  /\ UNCHANGED <<fifo, data_counter, regs, tx_status_help, rx_status, rd, undefined>>
  /\ Continue

Finished ==
  /\ sending = 0 /\ state = "FINISHED"
  /\ started' = FALSE /\ data_counter' = 0 /\ rd' = TRUE
  /\ UNCHANGED <<fifo, regs, tx_status, tx_status_help, rx_status, undefined>>
  /\ Continue

(* The first bits. *)
Begin ==
  /\ sending = 0
  /\ \/ state \in {"COMMAND", "ADDRESS"} /\ state \in prefix /\ sending' = 1
     \/ state \in {"DUMMY_TX", "DUMMY_RX"} /\ "DUMMY" \in prefix /\ sending' = 1
     \/ (state = "DATA_RX" \/ (state = "DATA_TX" /\ fifo # <<>>)) /\ sending' = 2
  /\ at' = state
  /\ data_counter' = IF sending' = 2 THEN data_counter + 1 ELSE data_counter
  /\ UNCHANGED <<state, transferinProgress, tx_mode, rx_mode, fifo, regs, tx_status, tx_status_help,
                 rx_status, rd, started, undefined>>

(* The rest of the word, from whatever word is now the first. *)
Rest ==
  /\ sending = 2 /\ sending' = 1
  /\ undefined' = (at = "DATA_TX" /\ fifo = <<>>)
  /\ data_counter' = data_counter + 1
  /\ UNCHANGED <<state, at, transferinProgress, tx_mode, rx_mode, fifo, regs, tx_status, tx_status_help,
                 rx_status, rd, started>>

(* The end of a state's work: a word leaves or enters the queue. *)
End ==
  /\ sending = 1
  /\ fifo' = CASE at = "DATA_TX" /\ fifo # <<>> -> Tail(fifo)
               [] at = "DATA_RX" -> Append(fifo, "rx")
               [] OTHER -> fifo
  /\ undefined' = (at = "DATA_TX" /\ fifo = <<>>)
  /\ tx_status' = IF at = "DATA_TX" THEN (tx_status + TxWords - 1) % TxWords ELSE tx_status
  /\ rx_status' = IF at = "DATA_RX" THEN (rx_status + 1) % RxWords ELSE rx_status
  /\ UNCHANGED <<data_counter, regs, tx_status_help, rd, started>>
  /\ Continue

(* Software starts no read while more is unread than the queue should hold:   *)
(* a read of no length adds a word all the same.                              *)
Next ==
  /\ ~undefined
  /\ \/ SoftwareReset \/ CsWrite \/ TxWrite \/ RxRead \/ LengthWrite
     \/ \E mode \in {"tx", "rx"} : (mode = "rx" => Len(fifo) <= maxSizefifo) /\ StatusWrite(mode)
     \/ Instant \/ Finished \/ Begin \/ Rest \/ End

Spec == Init /\ [][Next]_masterVars

-----------------------------------------------------------------------------
States == {"IDLE", "COMMAND", "ADDRESS", "DUMMY_TX", "DUMMY_RX", "DATA_TX", "DATA_RX", "WAIT_TX", "WAIT_RX", "FINISHED"}

TypeOK ==
  /\ {state, at} \subseteq States /\ sending \in 0..2
  /\ tx_status \in 0..TxWords - 1 /\ rx_status \in 0..RxWords - 1
  /\ ~(tx_mode /\ rx_mode)

(* The thread is at the bits of a state that a reset has ended. *)
Interrupted == sending > 0 /\ at # state

(* Software that sees a transfer finished may start the next: it is ignored   *)
(* only where the finished one cannot leave its last state, which takes one   *)
(* of the counts to be zero.                                                  *)
FinishedMeansIdle == (rd /\ transferinProgress) => state = "FINISHED"

(* The count of the other direction is zero, so that a transfer can end, but  *)
(* for what software stores there, for a read of the queue in a write, and a  *)
(* reset within a word.                                                       *)
OtherCounts == (rx_mode /\ tx_status # 0) \/ (tx_mode /\ rx_status # 0)

OtherCountsExplained ==
  (OtherCounts' /\ ~OtherCounts) =>
    \/ Interrupted \/ CsWrite \/ \E mode \in {"tx", "rx"} : StatusWrite(mode)
    \/ tx_mode /\ RxRead

(* A read waits for a slow reader, and for ever for one that has taken all    *)
(* words within a period: it never starts to wait over an empty queue.        *)
Stuck == state = "WAIT_RX" /\ fifo = <<>>

StuckOnlyByLastRead == (Stuck' /\ ~Stuck) => state = "WAIT_RX"

(* The device gets bits it was not started for only when a transfer begins    *)
(* within the bits of one that a reset has ended.                             *)
Unstarted == ~started /\ state \notin {"IDLE", "FINISHED"}

UnstartedOnlyByReset == (Unstarted' /\ ~Unstarted) => Interrupted

(* Words received are sent only if the write began over unread ones, or if    *)
(* they arrived for a read that a reset had ended.                            *)
Resent == tx_mode /\ \E k \in DOMAIN fifo : fifo[k] = "rx"

ResentExplained == (Resent' /\ ~Resent) => (~tx_mode \/ Interrupted)

(* The end of a word that is there keeps the count of words to send right. *)
Miscounted == tx_mode /\ tx_status # Len(fifo)

WordsAreCounted == (Miscounted' /\ ~Miscounted /\ sending = 1 /\ sending' = 0) => (Interrupted \/ undefined')
=============================================================================
