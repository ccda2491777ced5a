------------------------------ MODULE MinresGpio ------------------------------
(***************************************************************************)
(* The GPIO of src/minres/gpio.cpp.  Writes and resets put the new value   *)
(* into an event queue; a method drains it in a later evaluation and       *)
(* drives the pins with every value in turn, so that the last one stays.   *)
(***************************************************************************)
EXTENDS Naturals, Sequences

CONSTANTS
  GpioPins,
  PeqBound   \* the most writes between two runs of a writer (a bound of the model)

VARIABLES
  write, writeEnable,   \* registers, as sets of pins
  pin_peq, oe_peq,      \* values on their way to the pins
  pins_o, oe_o,         \* the pins driven high
  pins_i, value,        \* the inputs, and what software last read of them
  boot_sel              \* the boot_sel parameter as the register shows it

gpioVars == <<write, writeEnable, pin_peq, oe_peq, pins_o, oe_o, pins_i, value, boot_sel>>

Init ==
  /\ write = {} /\ writeEnable = {} /\ pin_peq = <<>> /\ oe_peq = <<>>
  /\ pins_o = {} /\ oe_o = {} /\ pins_i = {} /\ value = {} /\ boot_sel = FALSE

Write(data) ==
  /\ Len(pin_peq) < PeqBound
  /\ pin_peq' = Append(pin_peq, data) /\ write' = data
  /\ UNCHANGED <<writeEnable, oe_peq, pins_o, oe_o, pins_i, value, boot_sel>>

WriteEnable(data) ==
  /\ Len(oe_peq) < PeqBound
  /\ oe_peq' = Append(oe_peq, data) /\ writeEnable' = data
  /\ UNCHANGED <<write, pin_peq, pins_o, oe_o, pins_i, value, boot_sel>>

(* value and boot_sel are computed when they are read. *)
Read ==
  /\ value' = pins_i /\ boot_sel' = TRUE
  /\ UNCHANGED <<write, writeEnable, pin_peq, oe_peq, pins_o, oe_o, pins_i>>

InputChange(lines) ==
  /\ pins_i' = lines
  /\ UNCHANGED <<write, writeEnable, pin_peq, oe_peq, pins_o, oe_o, value, boot_sel>>

pin_writer ==
  /\ pin_peq # <<>>
  /\ pins_o' = pin_peq[Len(pin_peq)] /\ pin_peq' = <<>>
  /\ UNCHANGED <<write, writeEnable, oe_peq, oe_o, pins_i, value, boot_sel>>

oe_writer ==
  /\ oe_peq # <<>>
  /\ oe_o' = oe_peq[Len(oe_peq)] /\ oe_peq' = <<>>
  /\ UNCHANGED <<write, writeEnable, pin_peq, pins_o, pins_i, value, boot_sel>>

reset_cb(active) ==
  /\ Len(pin_peq) < PeqBound /\ Len(oe_peq) < PeqBound
  /\ IF active THEN write' = {} /\ writeEnable' = {} /\ boot_sel' = FALSE
               ELSE UNCHANGED <<write, writeEnable, boot_sel>>
  /\ pin_peq' = Append(pin_peq, write') /\ oe_peq' = Append(oe_peq, writeEnable')
  /\ UNCHANGED <<pins_o, oe_o, pins_i, value>>

Next ==
  \/ \E data \in SUBSET GpioPins : Write(data) \/ WriteEnable(data) \/ InputChange(data)
  \/ Read \/ pin_writer \/ oe_writer
  \/ \E active \in BOOLEAN : reset_cb(active)

Spec == Init /\ [][Next]_gpioVars

-----------------------------------------------------------------------------
TypeOK ==
  /\ write \subseteq GpioPins /\ writeEnable \subseteq GpioPins
  /\ pin_peq \in Seq(SUBSET GpioPins) /\ oe_peq \in Seq(SUBSET GpioPins)
  /\ pins_o \subseteq GpioPins /\ oe_o \subseteq GpioPins
  /\ pins_i \subseteq GpioPins /\ value \subseteq GpioPins /\ boot_sel \in BOOLEAN

(* Once nothing is on its way, pins and registers agree, across any number   *)
(* of writes in one evaluation and through resets: the last value queued is  *)
(* always the value of the register.                                         *)
PinsFollow ==
  /\ write = IF pin_peq = <<>> THEN pins_o ELSE pin_peq[Len(pin_peq)]
  /\ writeEnable = IF oe_peq = <<>> THEN oe_o ELSE oe_peq[Len(oe_peq)]
=============================================================================
