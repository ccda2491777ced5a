---------------------------- MODULE PulpissimoGpio ----------------------------
(***************************************************************************)
(* The GPIO of src/pulpissimo/gpio.cpp: 64 pins in two banks of 32, "lo"   *)
(* and "hi".  The two input methods run in the delta cycle after a change  *)
(* of a pin of their bank and look at the pins that changed.               *)
(***************************************************************************)
EXTENDS Naturals

CONSTANTS
  PadBits,    \* the positions in a bank
  IntTypes    \* encodings of INTTYPE software writes: 0 falling, 1 rising, 2 both, 3 none

VARIABLES
  in, in_event,          \* <<bank, bit>>: pins that are high, and that have just changed
  out, dir,              \* <<bank, bit>>: outputs that are driven high
  PADIN, PADOUT, INTEN, INTSTATUS,   \* per bank, sets of bits
  INTTYPE,               \* per bank and bit
  pad_irq_o

padVars == <<in, in_event, out, dir, PADIN, PADOUT, INTEN, INTSTATUS, INTTYPE, pad_irq_o>>

Banks == {"lo", "hi"}
Pads  == Banks \X PadBits
None  == [b \in Banks |-> {}]

Init ==
  /\ in = {} /\ in_event = {} /\ out = {} /\ dir = {}
  /\ PADIN = None /\ PADOUT = None /\ INTEN = None /\ INTSTATUS = None
  /\ INTTYPE = [p \in Pads |-> 0]
  /\ pad_irq_o = FALSE

(* out[..].write for all pins of bank b *)
Drive(pads, b, v) == {p \in pads : p[1] # b} \cup ({b} \X v)

(* A write of PADOUT drives the pins of its bank; its callback does not store *)
(* the value and refuses the access.                                          *)
PadoutWrite(b, v) ==
  /\ out' = Drive(out, b, v)
  /\ UNCHANGED <<in, in_event, dir, PADIN, PADOUT, INTEN, INTSTATUS, INTTYPE, pad_irq_o>>

(* So does PADDIR, but for the high bank it drives the outputs. *)
PaddirWrite(b, v) ==
  /\ \/ b = "lo" /\ dir' = Drive(dir, b, v) /\ UNCHANGED out
     \/ b = "hi" /\ out' = Drive(out, b, v) /\ UNCHANGED dir
  /\ UNCHANGED <<in, in_event, PADIN, PADOUT, INTEN, INTSTATUS, INTTYPE, pad_irq_o>>

PadoutSet(b, v) ==
  /\ out' = out \cup ({b} \X v)
  /\ PADOUT' = [PADOUT EXCEPT ![b] = @ \cup v]
  /\ UNCHANGED <<in, in_event, dir, PADIN, INTEN, INTSTATUS, INTTYPE, pad_irq_o>>

PadoutClear(b, v) ==
  /\ out' = out \ ({b} \X v)
  /\ PADOUT' = [PADOUT EXCEPT ![b] = @ \ v]
  /\ UNCHANGED <<in, in_event, dir, PADIN, INTEN, INTSTATUS, INTTYPE, pad_irq_o>>

(* Registers without a callback. *)
IntenWrite(b, en) ==
  /\ INTEN' = [INTEN EXCEPT ![b] = en]
  /\ UNCHANGED <<in, in_event, out, dir, PADIN, PADOUT, INTSTATUS, INTTYPE, pad_irq_o>>

InttypeWrite(p, type) ==
  /\ INTTYPE' = [INTTYPE EXCEPT ![p] = type]
  /\ UNCHANGED <<in, in_event, out, dir, PADIN, PADOUT, INTEN, INTSTATUS, pad_irq_o>>

(* Reading the status clears it and leaves the interrupt output alone. *)
IntstatusRead(b) ==
  /\ INTSTATUS' = [INTSTATUS EXCEPT ![b] = {}]
  /\ UNCHANGED <<in, in_event, out, dir, PADIN, PADOUT, INTEN, INTTYPE, pad_irq_o>>

-----------------------------------------------------------------------------
LinesChange(pads) ==
  /\ in_event = {}
  /\ in' = pads
  /\ in_event' = (in \ pads) \cup (pads \ in)
  /\ UNCHANGED <<out, dir, PADIN, PADOUT, INTEN, INTSTATUS, INTTYPE, pad_irq_o>>

(* check_irq takes a number of 0..63 and finds bank and bit in it. *)
Detects(type, high) == (type = 0 /\ ~high) \/ (type = 1 /\ high) \/ type = 2

(* Both methods call check_irq with a number of 0..31: with their position    *)
(* in the bank.                                                               *)
CheckedAs(b) == "lo"

in_cb(b) ==
  LET mine == {p \in in_event : p[1] = b}
      hit  == {p[2] : p \in {q \in mine : Detects(INTTYPE[<<CheckedAs(b), q[2]>>], q \in in)}}
  IN  /\ mine # {}
      /\ in_event' = in_event \ mine
      /\ PADIN' = [PADIN EXCEPT ![b] = {i \in PadBits :
                     IF <<b, i>> \in mine THEN <<b, i>> \in in ELSE i \in @}]
      /\ INTSTATUS' = [INTSTATUS EXCEPT ![CheckedAs(b)] = @ \cup hit]
      /\ pad_irq_o' = (pad_irq_o \/ INTSTATUS'[CheckedAs(b)] \cap INTEN[CheckedAs(b)] # {})
      /\ UNCHANGED <<in, out, dir, PADOUT, INTEN, INTTYPE>>

(* The registers only: outputs and interrupt stay as they are. *)
Reset ==
  /\ PADIN' = None /\ PADOUT' = None /\ INTEN' = None /\ INTSTATUS' = None
  /\ INTTYPE' = [p \in Pads |-> 0]
  /\ UNCHANGED <<in, in_event, out, dir, pad_irq_o>>

Next ==
  \/ \E b \in Banks, v \in SUBSET PadBits :
       \/ PadoutWrite(b, v) \/ PaddirWrite(b, v) \/ PadoutSet(b, v) \/ PadoutClear(b, v)
       \/ IntenWrite(b, v)
  \/ \E p \in Pads, type \in IntTypes : InttypeWrite(p, type)
  \/ \E b \in Banks : IntstatusRead(b) \/ in_cb(b)
  \/ \E pads \in SUBSET Pads : LinesChange(pads)
  \/ Reset

Spec == Init /\ [][Next]_padVars

-----------------------------------------------------------------------------
TypeOK ==
  /\ in \subseteq Pads /\ in_event \subseteq Pads /\ out \subseteq Pads /\ dir \subseteq Pads
  /\ \A r \in {PADIN, PADOUT, INTEN, INTSTATUS} : r \in [Banks -> SUBSET PadBits]
  /\ INTTYPE \in [Pads -> 0..3] /\ pad_irq_o \in BOOLEAN

(* No change of a pin of the high bank ever shows in its own status: it is   *)
(* reported as the pin of the low bank at the same position.                 *)
HighBankIsMute == INTSTATUS["hi"] = {}

(* Output and register of a pin come apart only by a plain write of PADOUT   *)
(* or PADDIR (which leave PADOUT alone) or by a reset (which leaves the      *)
(* output alone); setting and clearing bits keeps them together.             *)
Apart == {p \in Pads : (p \in out) # (p[2] \in PADOUT[p[1]])}

ApartOnlyByWriteOrReset ==
  Apart' \subseteq Apart \/ PADOUT' = PADOUT \/ (out' = out /\ PADOUT' = None)

(* Whatever the method of a bank has looked at and INTTYPE asks for is in    *)
(* the status, even if the methods of both banks run in one delta with a     *)
(* read or a reset between them.                                             *)
EdgesAreRecorded ==
  \A p \in in_event \ in_event' :
    Detects(INTTYPE[<<CheckedAs(p[1]), p[2]>>], p \in in)
      => p[2] \in INTSTATUS'[CheckedAs(p[1])]

(* An enabled status bit is there and the output low only after software     *)
(* enabled a bit that had been set before; and once high the output stays    *)
(* high: reading the status takes the reason away but not the interrupt.     *)
Missed == ~pad_irq_o /\ \E b \in Banks : INTSTATUS[b] \cap INTEN[b] # {}

InterruptStaysAndIsMissedOnlyByEnable ==
  /\ pad_irq_o => pad_irq_o'
  /\ (~Missed /\ Missed') => INTEN' # INTEN
=============================================================================
