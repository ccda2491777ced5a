------------------------------ MODULE SifiveGpio ------------------------------
(***************************************************************************)
(* The GPIO of src/sifive/gpio.cpp: pins driven by registers or by one of  *)
(* two hardware functions (IOF).  Which of the function inputs of a pin    *)
(* are bound is decided when the platform is built and never changes.      *)
(***************************************************************************)
EXTENDS Naturals

CONSTANTS
  IofPins,    \* pin numbers
  IofBound    \* how many times a function sends one level before the first arrives

VARIABLES
  bound,       \* bound[p]: the functions, of 0 and 1, bound to pin p
  regs,        \* the five registers that decide about outputs, as sets of pins
  input_value, \* the register value
  last_iof,    \* last_iof[n]: the pins whose function n was last high
  iof_input,   \* how many times <<pin, function, level>> waits for its delay
  drive,       \* what each pin was last driven to: "0", "1", "Z", "X", or "none" yet
  iof_o,       \* what was last forwarded to the functions: <<pin, function>> that are high
  gpio_in_reset

sifiveGpioVars == <<bound, regs, input_value, last_iof, iof_input, drive, iof_o, gpio_in_reset>>

IofLevels == IofPins \X {0, 1} \X BOOLEAN
OutRegs == {"port", "output_en", "out_xor", "iof_en", "iof_sel"}
Level(high) == IF high THEN "1" ELSE "0"

(* last_iof0 and last_iof1 are not initialised. *)
Init ==
  /\ bound \in [IofPins -> SUBSET {0, 1}]
  /\ regs = [r \in OutRegs |-> {}] /\ input_value = {}
  /\ last_iof \in [{0, 1} -> SUBSET IofPins]
  /\ iof_input = [i \in IofLevels |-> 0] /\ iof_o = {}
  /\ drive = [p \in IofPins |-> "none"]
  /\ gpio_in_reset = FALSE

-----------------------------------------------------------------------------
GpioLevel(R, p) ==
  CASE p \notin R.output_en /\ p \notin R.out_xor -> "Z"
    [] p \notin R.output_en /\ p \in R.out_xor    -> "X"
    [] OTHER -> Level((p \in R.port) # (p \in R.out_xor))

(* A pin is the function's only while one of its functions is unbound; the   *)
(* test of iof_sel compares a masked bit with 1 and holds for pin 0 alone.   *)
ByFunction(R, p) == p \in R.iof_en /\ bound[p] # {0, 1}
Chooses(R, p, n) ==
  \/ n = 0 /\ p \notin R.iof_sel /\ 0 \in bound[p]
  \/ n = 1 /\ p \in R.iof_sel /\ p = 0 /\ 1 \in bound[p]

Computed(R, p) ==
  CASE ~ByFunction(R, p)                         -> {GpioLevel(R, p)}
    [] ByFunction(R, p) /\ Chooses(R, p, 0)      -> {Level(p \in last_iof[0])}
    [] ByFunction(R, p) /\ Chooses(R, p, 1)      -> {Level(p \in last_iof[1])}
    [] OTHER                                     -> {}

(* What update_pins drives: a pin for which nothing is computed inherits the *)
(* value of the pin handled before it, the first one the X of a new sc_logic.*)
Driven(R, changed, p) ==
  LET before == {q \in changed : q <= p /\ Computed(R, q) # {}}
  IN  IF before = {} THEN "X"
      ELSE CHOOSE v \in Computed(R, CHOOSE q \in before : \A r \in before : r <= q) : TRUE

update_pins(R, changed) ==
  drive' = [p \in IofPins |-> IF p \in changed THEN Driven(R, changed, p) ELSE drive[p]]

(* Mutant of RegWrite: the pins are updated before the register is stored. *)
MutStoredAfter(r, data) ==
  /\ ~gpio_in_reset
  /\ regs' = [regs EXCEPT ![r] = data]
  /\ update_pins(regs, (regs[r] \ data) \cup (data \ regs[r]))
  /\ UNCHANGED <<bound, input_value, last_iof, iof_input, iof_o, gpio_in_reset>>

RegWrite(r, data) ==
  /\ ~gpio_in_reset
  /\ regs' = [regs EXCEPT ![r] = data]
  /\ update_pins(regs', (regs[r] \ data) \cup (data \ regs[r]))
  /\ UNCHANGED <<bound, input_value, last_iof, iof_input, iof_o, gpio_in_reset>>

reset_cb(active) ==
  /\ gpio_in_reset' = active
  /\ IF active THEN regs' = [r \in OutRegs |-> {}] /\ input_value' = {}
               ELSE UNCHANGED <<regs, input_value>>
  /\ update_pins(regs', IofPins)
  /\ UNCHANGED <<bound, last_iof, iof_input, iof_o>>

-----------------------------------------------------------------------------
(* pin_input and forward_pin_input: a pin that is an output keeps its value  *)
(* bit, but forwards the level all the same.                                 *)
PinInput(p, high) ==
  /\ input_value' = CASE p \in regs.output_en -> input_value
                      [] p \notin regs.output_en /\ high  -> input_value \cup {p}
                      [] p \notin regs.output_en /\ ~high -> input_value \ {p}
  /\ IF p \in regs.iof_en
     THEN LET out == <<p, IF p \in regs.iof_sel THEN 1 ELSE 0>>
          IN  iof_o' = IF high THEN iof_o \cup {out} ELSE iof_o \ {out}
     ELSE UNCHANGED iof_o
  /\ UNCHANGED <<bound, regs, last_iof, iof_input, drive, gpio_in_reset>>

(* A function sends a level: it is remembered at once, the pin driven after  *)
(* the delay of the transaction, if the function still has it then.  Levels  *)
(* wait side by side, each in its own thread, and may overtake each other.   *)
IofInputBegins(p, n, high) ==
  /\ n \in bound[p]
  /\ last_iof' = [last_iof EXCEPT ![n] = IF high THEN @ \cup {p} ELSE @ \ {p}]
  /\ iof_input' = [iof_input EXCEPT ![<<p, n, high>>] = @ + 1]
  /\ UNCHANGED <<bound, regs, input_value, drive, iof_o, gpio_in_reset>>

IofInputEnds(p, n, high) ==
  /\ iof_input[<<p, n, high>>] > 0
  /\ iof_input' = [iof_input EXCEPT ![<<p, n, high>>] = @ - 1]
  /\ drive' = IF p \in regs.iof_en /\ n = (IF p \in regs.iof_sel THEN 1 ELSE 0)
              THEN [drive EXCEPT ![p] = Level(high)] ELSE drive
  /\ UNCHANGED <<bound, regs, input_value, last_iof, iof_o, gpio_in_reset>>

Next ==
  \/ \E r \in OutRegs, data \in SUBSET IofPins : RegWrite(r, data)
  \/ \E active \in BOOLEAN : reset_cb(active)
  \/ \E p \in IofPins, high \in BOOLEAN :
       \/ PinInput(p, high)
       \/ \E n \in {0, 1} :
            \/ iof_input[<<p, n, high>>] < IofBound /\ IofInputBegins(p, n, high)
            \/ IofInputEnds(p, n, high)

Spec == Init /\ [][Next]_sifiveGpioVars

-----------------------------------------------------------------------------
TypeOK ==
  /\ bound \in [IofPins -> SUBSET {0, 1}] /\ regs \in [OutRegs -> SUBSET IofPins]
  /\ input_value \subseteq IofPins /\ last_iof \in [{0, 1} -> SUBSET IofPins]
  /\ iof_input \in [IofLevels -> Nat]
  /\ drive \in [IofPins -> {"0", "1", "Z", "X", "none"}]
  /\ iof_o \subseteq IofPins \X {0, 1} /\ gpio_in_reset \in BOOLEAN

(* A pin the functions do not have shows what the registers say, whichever   *)
(* of the five was written last and whatever the functions do meanwhile.     *)
GpioPinsFollow ==
  \A p \in IofPins \ regs.iof_en : drive[p] \in {"none", GpioLevel(regs, p)}

(* A pin given to its only function, number 0, that shows another level than *)
(* the function sent last, with none of its levels still under way.          *)
Off(p) ==
  /\ p \in regs.iof_en \ regs.iof_sel /\ bound[p] = {0}
  /\ \A high \in BOOLEAN : iof_input[<<p, 0, high>>] = 0
  /\ drive[p] # Level(p \in last_iof[0])

(* It comes to that only by a level that arrives after a later one: neither  *)
(* a register, nor a reset, nor another function while a level is under way  *)
(* does it, and a pin that gets its function late shows what it sent before. *)
(* This is as far as it goes: with both functions bound a register write     *)
(* puts the port value on the pin, and function 1 reaches a pin other than 0 *)
(* only when it sends.                                                       *)
OffOnlyByOvertaking ==
  \A p \in IofPins : (Off(p)' /\ ~Off(p)) => IofInputEnds(p, 0, p \notin last_iof[0])
=============================================================================
