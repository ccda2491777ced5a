------------------------------- MODULE MinresUart -------------------------------
(***************************************************************************)
(* The UART of src/minres/uart.cpp: a transmit FIFO, a thread that empties *)
(* it and collects the characters of every initiator into lines.  No       *)
(* process reads rx_i, so nothing is ever received, and the enable bits    *)
(* cannot be written.  The status bits are computed when they are read.    *)
(***************************************************************************)
EXTENDS Naturals, Sequences, ScFifo

CONSTANTS
  Initiators,   \* ids of the bus masters that write
  TxDepth,      \* 8 in the code
  CharBound     \* bound on the characters an initiator writes

VARIABLES
  bit_true,            \* the parameter bit_true_transfer
  uart_in_reset,
  tx_fifo,
  sender, in_hand,     \* the thread (waits, is woken, runs or sends), and what it sends
  queues,              \* unfinished lines, by initiator
  int_ctrl, uart_irq,  \* int_ctrl_reg and irq_o
  written,             \* history: how many characters each initiator has written,
  taken, dropped,      \* those that reached its line and those that found no room,
  asked                \* and who has seen tx_free set since the last write of any

muartVars == <<bit_true, uart_in_reset, tx_fifo, sender, in_hand, queues, int_ctrl, uart_irq,
               written, taken, dropped, asked>>

Chars == {"x", "nl", "cr"}

Init ==
  /\ bit_true \in BOOLEAN /\ uart_in_reset = FALSE
  /\ tx_fifo = EmptyFifo /\ sender = "waits" /\ in_hand = <<>>
  /\ queues = [i \in Initiators |-> <<>>]
  /\ int_ctrl = {} /\ uart_irq = FALSE
  /\ written = [i \in Initiators |-> 0] /\ taken = {} /\ dropped = {} /\ asked = {}

(* update_irq; the receive side contributes nothing. *)
update_irq(fifo) == uart_irq' = ("read_enable" \in int_ctrl /\ num_available(fifo) = 0)

(* The name of a character: the n-th of its initiator. *)
Name(m) == <<m.id, m.n>>

(* A character is written; a full FIFO drops it. *)
TxWrite(i, c) ==
  LET m == [id |-> i, n |-> written[i] + 1, char |-> c]
  IN  /\ ~uart_in_reset
      /\ tx_fifo' = nb_write(tx_fifo, m, TxDepth)
      /\ update_irq(tx_fifo)
      /\ written' = [written EXCEPT ![i] = m.n] /\ asked' = {}
      /\ dropped' = IF num_free(tx_fifo, TxDepth) = 0 THEN dropped \cup {Name(m)} ELSE dropped
      /\ UNCHANGED <<bit_true, uart_in_reset, sender, in_hand, queues, int_ctrl, taken>>

(* A read finds no character, and tells whether there is room. *)
StatusRead(i) ==
  /\ ~uart_in_reset
  /\ asked' = IF num_free(tx_fifo, TxDepth) # 0 THEN asked \cup {i} ELSE asked \ {i}
  /\ UNCHANGED <<bit_true, uart_in_reset, tx_fifo, sender, in_hand, queues, int_ctrl, uart_irq, written, taken, dropped>>

(* A write of the interrupt register: the callback does not store the value. *)
IntCtrlWrite ==
  /\ update_irq(tx_fifo)
  /\ UNCHANGED <<bit_true, uart_in_reset, tx_fifo, sender, in_hand, queues, int_ctrl, written, taken, dropped, asked>>

(* The registers only. *)
reset_cb ==
  /\ uart_in_reset' = ~uart_in_reset
  /\ int_ctrl' = IF uart_in_reset' THEN {} ELSE int_ctrl
  /\ UNCHANGED <<bit_true, tx_fifo, sender, in_hand, queues, uart_irq, written, taken, dropped, asked>>

(* The end of a delta cycle, for which the thread has run as far as it can:  *)
(* the update of the FIFO, and the event the thread waits for.               *)
FifoUpdate ==
  /\ ~Settled(tx_fifo) /\ sender # "woken"
  /\ tx_fifo' = SettledOf(tx_fifo)
  /\ sender' = IF sender = "waits" /\ tx_fifo.new # <<>> THEN "woken" ELSE sender
  /\ UNCHANGED <<bit_true, uart_in_reset, in_hand, queues, int_ctrl, uart_irq, written, taken, dropped, asked>>

(* The character reaches the line of its initiator; the end of a line prints *)
(* and clears it.                                                            *)
Collect(m) ==
  /\ queues' = [queues EXCEPT ![m.id] = IF m.char = "nl" THEN <<>>
                                        ELSE IF m.char = "cr" THEN @ ELSE Append(@, m)]
  /\ taken' = taken \cup {Name(m)}

(* The thread takes the next character; bit by bit it takes time to send it. *)
transmit_data ==
  /\ sender \in {"woken", "runs"}
  /\ IF num_available(tx_fifo) = 0
     THEN sender' = "waits" /\ UNCHANGED <<tx_fifo, in_hand, queues, taken, uart_irq>>
     ELSE LET m == Head(tx_fifo.q)
          IN  /\ tx_fifo' = nb_read(tx_fifo)
              /\ update_irq(tx_fifo')
              /\ IF bit_true
                 THEN sender' = "sends" /\ in_hand' = <<m>> /\ UNCHANGED <<queues, taken>>
                 ELSE sender' = "runs" /\ Collect(m) /\ UNCHANGED in_hand
  /\ UNCHANGED <<bit_true, uart_in_reset, int_ctrl, written, dropped, asked>>

(* Mutant of FrameSent: the thread waits for the next write after every frame. *)
MutWaitsAfterFrame ==
  /\ sender = "sends" /\ tx_fifo.freed = 0 /\ sender' = "waits"
  /\ Collect(in_hand[1]) /\ in_hand' = <<>>
  /\ UNCHANGED <<bit_true, uart_in_reset, tx_fifo, int_ctrl, uart_irq, written, dropped, asked>>

(* Its bits are sent, not within the delta cycle that took the character. *)
FrameSent ==
  /\ sender = "sends" /\ tx_fifo.freed = 0 /\ sender' = "woken"
  /\ Collect(in_hand[1]) /\ in_hand' = <<>>
  /\ UNCHANGED <<bit_true, uart_in_reset, tx_fifo, int_ctrl, uart_irq, written, dropped, asked>>

(* Nothing comes between the steps of the thread before it waits again. *)
Next ==
  \/ transmit_data
  \/ /\ sender # "runs"
     /\ \/ \E i \in Initiators, c \in Chars : written[i] < CharBound /\ TxWrite(i, c)
        \/ \E i \in Initiators : StatusRead(i)
        \/ IntCtrlWrite \/ reset_cb \/ FifoUpdate \/ FrameSent

Spec == Init /\ [][Next]_muartVars

-----------------------------------------------------------------------------
TypeOK ==
  /\ bit_true \in BOOLEAN /\ uart_in_reset \in BOOLEAN /\ int_ctrl \subseteq {"read_enable", "write_enable"}
  /\ Len(Held(tx_fifo)) + tx_fifo.freed <= TxDepth
  /\ sender \in {"waits", "woken", "runs", "sends"} /\ (sender = "sends") = (in_hand # <<>>)

(* The thread never waits for an event that has come already: whatever it is  *)
(* doing when a character enters the FIFO, the character will be taken.       *)
NoneForgotten == sender = "waits" => tx_fifo.q = <<>>

(* The lines of two initiators are kept apart, in the order of their writes   *)
(* and free of line ends, whichever of them wrote in between.                 *)
LinesApart ==
  \A i \in Initiators :
    /\ \A k \in DOMAIN queues[i] :
         queues[i][k].id = i /\ queues[i][k].char = "x" /\ Name(queues[i][k]) \in taken
    /\ \A j, k \in DOMAIN queues[i] : j < k => queues[i][j].n < queues[i][k].n

(* What is on its way, and in the order of the writes of each initiator. *)
Pipeline == in_hand \o Held(tx_fifo)
Names(s) == {Name(s[k]) : k \in DOMAIN s}

InOrder ==
  /\ \A j, k \in DOMAIN Pipeline :
       j < k /\ Pipeline[j].id = Pipeline[k].id => Pipeline[j].n < Pipeline[k].n
  /\ \A k \in DOMAIN Pipeline : \A t \in taken : t[1] = Pipeline[k].id => t[2] < Pipeline[k].n

(* Every character written is in its line, on its way, or was dropped. *)
NothingLost ==
  \A i \in Initiators : \A n \in 1..written[i] : <<i, n>> \in taken \cup Names(Pipeline) \cup dropped

(* And none is dropped of software that has seen tx_free set and that no      *)
(* other initiator has overtaken since: not by a reset, which leaves the      *)
(* FIFO full, and not by a read within the delta cycle of a write.            *)
DroppedOnlyUnasked == \A i \in Initiators : (dropped' # dropped /\ written'[i] # written[i]) => i \notin asked
=============================================================================
