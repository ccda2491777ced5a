------------------------------- MODULE PulpinoUart -------------------------------
(***************************************************************************)
(* The UART of src/pulpino/uart.h with the external device it talks to.    *)
(* Every call of one into the other is part of the action that makes it;   *)
(* the interrupt is driven by a process of its own, which runs within the  *)
(* instant and sees only which kinds of events were queued.                *)
(***************************************************************************)
EXTENDS Naturals, Sequences

CONSTANTS
  Lengths,     \* lengths of the lines typed; 0 is an empty line
  DataBound    \* bound on the lines and characters under way

VARIABLES
  dlab, ier,       \* LCR.dlab and the enabled interrupts
  data_ready,      \* bit 0 of LSR
  iir, puart_irq,  \* the pending bits 1 and 2 of IIR, and irq_out[0]
  events,          \* interrupt_event_q_
  device

puartVars == <<dlab, ier, data_ready, iir, puart_irq, events, device>>

Enables == {"RDATA_AVAILABLE", "TBR_EMPTY", "RLSR_CHANGE"}
SetEvents   == {"S_RDATA_AVAILABLE", "S_TBR_EMPTY", "S_RLSR_CHANGE"}
ResetEvents == {"R_RDATA_AVAILABLE", "R_TBR_EMPTY"}

-----------------------------------------------------------------------------
(***************************************************************************)
(* ExternalUARTDeviceFileStream of src/pulpino/experimental: a named pipe  *)
(* is polled every scan period, one line is taken from it and put into the *)
(* buffer from which the UART reads characters.  A line is its length;     *)
(* std::getline takes in all there is and leaves all but the first line in *)
(* the stream buffer, of which poll knows nothing.                         *)
(***************************************************************************)
EmptyDevice == [pipe |-> <<>>, stream |-> <<>>, inbuf |-> 0]

(* The other end writes a line. *)
Typed(d, len) == [d EXCEPT !.pipe = Append(@, len)]

can_read(d) == d.pipe # <<>>

(* sense_input, when there is something to read: the line that is taken is    *)
(* reported with a 1 unless it is empty.                                      *)
Line(d)   == Head(d.stream \o d.pipe)
Sensed(d) == [pipe |-> <<>>, stream |-> Tail(d.stream \o d.pipe), inbuf |-> d.inbuf + Line(d)]

(* read: the last character of the buffer is reported with a 0, and an empty  *)
(* buffer leaves the destination as it is.                                    *)
Taken(d)     == [d EXCEPT !.inbuf = IF @ > 0 THEN @ - 1 ELSE 0]
TakesLast(d) == d.inbuf = 1

-----------------------------------------------------------------------------
Init ==
  /\ dlab = FALSE /\ ier = {} /\ data_ready = FALSE /\ iir = {} /\ puart_irq = FALSE
  /\ events = {} /\ device = EmptyDevice

(* b_transport_ext: the events queued for a report of the device. *)
Reported(ready) ==
  (IF ready # data_ready /\ "RLSR_CHANGE" \in ier THEN {"S_RLSR_CHANGE"} ELSE {})
    \cup (IF ready /\ "RDATA_AVAILABLE" \in ier THEN {"S_RDATA_AVAILABLE"} ELSE {})

(* A write of THR: the device takes the character at once. *)
ThrWrite ==
  /\ ~dlab
  /\ events' = events \cup {"R_TBR_EMPTY"} \cup (IF "TBR_EMPTY" \in ier THEN {"S_TBR_EMPTY"} ELSE {})
  /\ UNCHANGED <<dlab, ier, data_ready, iir, puart_irq, device>>

(* A read of RBR: what the device reports while it is read is queued before   *)
(* the reset of the interrupt.                                                *)
RbrRead ==
  /\ ~dlab
  /\ device' = Taken(device)
  /\ data_ready' = (data_ready /\ ~TakesLast(device))
  /\ events' = events \cup {"R_RDATA_AVAILABLE"} \cup (IF TakesLast(device) THEN Reported(FALSE) ELSE {})
  /\ UNCHANGED <<dlab, ier, iir, puart_irq>>

IerWrite ==
  /\ ~dlab /\ ier' \in SUBSET Enables
  /\ UNCHANGED <<dlab, data_ready, iir, puart_irq, events, device>>

LcrWrite ==
  /\ dlab' \in BOOLEAN
  /\ UNCHANGED <<ier, data_ready, iir, puart_irq, events, device>>

LsrWrite ==
  /\ data_ready' \in BOOLEAN
  /\ UNCHANGED <<dlab, ier, iir, puart_irq, events, device>>

IirRead ==
  /\ events' = events \cup {"R_TBR_EMPTY"}
  /\ UNCHANGED <<dlab, ier, data_ready, iir, puart_irq, device>>

(* The pending bits after a batch of events: one of the set events counts, by *)
(* priority, and with any of them all the reset events are ignored.           *)
Pending(x) ==
  IF x \cap SetEvents # {}
  THEN IF "S_RLSR_CHANGE" \in x THEN {1, 2}
       ELSE IF "S_RDATA_AVAILABLE" \in x THEN iir \cup {2} ELSE iir \cup {1}
  ELSE iir \ ((IF "R_RDATA_AVAILABLE" \in x THEN {2} ELSE {}) \cup (IF "R_TBR_EMPTY" \in x THEN {1} ELSE {}))

(* Mutant of send_interrupt_process: the resets are applied last. *)
MutResetsLast ==
  /\ events # {} /\ events' = {}
  /\ iir' = Pending(events) \ (IF "R_RDATA_AVAILABLE" \in events THEN {2} ELSE {})
  /\ puart_irq' = (iir' # {})
  /\ UNCHANGED <<dlab, ier, data_ready, device>>

send_interrupt_process ==
  /\ events # {} /\ events' = {}
  /\ iir' = Pending(events)
  /\ puart_irq' = (iir' # {})
  /\ UNCHANGED <<dlab, ier, data_ready, device>>

sense_input ==
  /\ can_read(device) /\ device' = Sensed(device)
  /\ IF Line(device) > 0
     THEN data_ready' = TRUE /\ events' = events \cup Reported(TRUE)
     ELSE UNCHANGED <<data_ready, events>>
  /\ UNCHANGED <<dlab, ier, iir, puart_irq>>

LineTyped ==
  /\ Len(device.pipe) + Len(device.stream) + device.inbuf < DataBound
  /\ \E len \in Lengths : device' = Typed(device, len)
  /\ UNCHANGED <<dlab, ier, data_ready, iir, puart_irq, events>>

Next ==
  \/ ThrWrite \/ RbrRead \/ IerWrite \/ LcrWrite \/ LsrWrite \/ IirRead
  \/ send_interrupt_process \/ sense_input \/ LineTyped

Spec == Init /\ [][Next]_puartVars

-----------------------------------------------------------------------------
TypeOK ==
  /\ dlab \in BOOLEAN /\ ier \subseteq Enables /\ data_ready \in BOOLEAN
  /\ iir \subseteq {1, 2} /\ puart_irq = (iir # {}) /\ events \subseteq SetEvents \cup ResetEvents

(* Characters wait that no interrupt, present or coming, tells of. *)
Unannounced ==
  /\ device.inbuf > 0 /\ "RDATA_AVAILABLE" \in ier
  /\ events \cap {"S_RDATA_AVAILABLE", "S_RLSR_CHANGE"} = {} /\ 2 \notin iir

(* Of a line that arrives under an enabled interrupt software is told, even   *)
(* if it comes at the instant of a read; what can go untold is the rest of a  *)
(* line of which a character was read, and a line that came before the        *)
(* interrupt was enabled.                                                     *)
UnannouncedOnlyByRead ==
  (Unannounced' /\ (~Unannounced \/ device'.inbuf > device.inbuf)) =>
    (ier' # ier \/ ("R_RDATA_AVAILABLE" \in events /\ events \cap SetEvents = {}))

(* The ready bit and the buffer go together unless software writes the bit. *)
Wrong == data_ready # (device.inbuf > 0)

WrongOnlyByWrite == (Wrong' /\ ~Wrong) => device' = device
=============================================================================
