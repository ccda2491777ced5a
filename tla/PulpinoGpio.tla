------------------------------ MODULE PulpinoGpio ------------------------------
(***************************************************************************)
(* The GPIO of src/pulpino/gpio.h.  A change of the inputs runs in_cb and  *)
(* intstatus_cb in the next evaluation, in either order and with software  *)
(* around them; the edge is visible until that evaluation is over.         *)
(***************************************************************************)
EXTENDS Naturals

CONSTANT PulpinoPins

VARIABLES
  pin_in, pin_edge,      \* pins that are high, and that have changed in this delta
  in_due, intstatus_due, \* the two methods that are to run
  padin, padout, paddir, \* registers and, for the outputs, the signals with them
  inten, inttype, intstatus, gpio_irq_out

pulpinoGpioVars == <<pin_in, pin_edge, in_due, intstatus_due, padin, padout, paddir,
                     inten, inttype, intstatus, gpio_irq_out>>

IntType == {"Level1", "Level0", "Rise", "Fall"}

Init ==
  /\ pin_in = {} /\ pin_edge = {} /\ in_due = TRUE /\ intstatus_due = TRUE
  /\ padin = {} /\ padout = {} /\ paddir = {}
  /\ inten = {} /\ inttype = [p \in PulpinoPins |-> "Level1"]
  /\ intstatus = {} /\ gpio_irq_out = FALSE

(* setupPadout and setupPaddir: the callback drives the signal. *)
PadWrite(v) ==
  /\ \/ padout' = v /\ UNCHANGED paddir
     \/ paddir' = v /\ UNCHANGED padout
  /\ UNCHANGED <<pin_in, pin_edge, in_due, intstatus_due, padin, inten, inttype,
                 intstatus, gpio_irq_out>>

(* setupIntstatus: writes of INTEN and INTTYPE have the status computed again, *)
(* its read clears it and lowers the output.                                   *)
InterruptConfig(en, types) ==
  /\ \/ inten' = en /\ UNCHANGED inttype
     \/ inttype' = types /\ UNCHANGED inten
  /\ intstatus_due' = TRUE
  /\ UNCHANGED <<pin_in, pin_edge, in_due, padin, padout, paddir, intstatus, gpio_irq_out>>

IntstatusRead ==
  /\ intstatus' = {} /\ gpio_irq_out' = FALSE
  /\ UNCHANGED <<pin_in, pin_edge, in_due, intstatus_due, padin, padout, paddir,
                 inten, inttype>>

LinesChange(pins) ==
  /\ ~in_due /\ ~intstatus_due /\ pin_edge = {} /\ pins # pin_in
  /\ pin_in' = pins
  /\ pin_edge' = (pins \ pin_in) \cup (pin_in \ pins)
  /\ in_due' = TRUE /\ intstatus_due' = TRUE
  /\ UNCHANGED <<padin, padout, paddir, inten, inttype, intstatus, gpio_irq_out>>

in_cb ==
  /\ in_due /\ in_due' = FALSE
  /\ padin' = pin_in
  /\ UNCHANGED <<pin_in, pin_edge, intstatus_due, padout, paddir, inten, inttype,
                 intstatus, gpio_irq_out>>

(* The level types, too, look at edges, each at that which ends its level. *)
Triggers(p) == p \in pin_edge /\ IF p \in pin_in THEN inttype[p] \in {"Level0", "Rise"}
                                                ELSE inttype[p] \in {"Level1", "Fall"}

intstatus_cb ==
  /\ intstatus_due /\ intstatus_due' = FALSE
  /\ intstatus' = intstatus \cup {p \in inten : Triggers(p)}
  /\ gpio_irq_out' = (intstatus' # {})
  /\ UNCHANGED <<pin_in, pin_edge, in_due, padin, padout, paddir, inten, inttype>>

DeltaEnds ==
  /\ ~in_due /\ ~intstatus_due /\ pin_edge # {}
  /\ pin_edge' = {}
  /\ UNCHANGED <<pin_in, in_due, intstatus_due, padin, padout, paddir, inten, inttype,
                 intstatus, gpio_irq_out>>

Next ==
  \/ \E v \in SUBSET PulpinoPins : PadWrite(v)
  \/ \E en \in SUBSET PulpinoPins, types \in [PulpinoPins -> IntType] : InterruptConfig(en, types)
  \/ \E pins \in SUBSET PulpinoPins : LinesChange(pins)
  \/ IntstatusRead \/ in_cb \/ intstatus_cb \/ DeltaEnds

Spec == Init /\ [][Next]_pulpinoGpioVars

-----------------------------------------------------------------------------
TypeOK ==
  /\ pin_in \subseteq PulpinoPins /\ pin_edge \subseteq PulpinoPins
  /\ in_due \in BOOLEAN /\ intstatus_due \in BOOLEAN
  /\ padin \subseteq PulpinoPins /\ padout \subseteq PulpinoPins /\ paddir \subseteq PulpinoPins
  /\ inten \subseteq PulpinoPins /\ inttype \in [PulpinoPins -> IntType]
  /\ intstatus \subseteq PulpinoPins /\ gpio_irq_out \in BOOLEAN

(* The output is high exactly while the status has something to say, whoever *)
(* of the reader and the method comes first.                                 *)
OutputIsStatus == gpio_irq_out = (intstatus # {})

(* Pins that trigger, once the method has looked, and have no status bit. *)
EdgesLost == IF intstatus_due THEN {} ELSE {p \in inten : Triggers(p)} \ intstatus

(* Every edge of an enabled pin is in the status as soon as the method has   *)
(* run, whatever software enables, retypes or reads before it runs in the    *)
(* delta of the edge; the only way to lose it from there is a read, which    *)
(* hands it out.                                                             *)
EdgesLostOnlyByRead == EdgesLost' \ EdgesLost \subseteq intstatus
=============================================================================
