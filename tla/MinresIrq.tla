------------------------------ MODULE MinresIrq ------------------------------
(***************************************************************************)
(* The interrupt controller of src/minres/irq.cpp.  update_irqs runs in    *)
(* the delta cycle after a rising edge of an input and samples the levels  *)
(* of all inputs; software may get in between.                             *)
(***************************************************************************)
EXTENDS Naturals

CONSTANT IrqLines   \* the indices of pending_irq_i

VARIABLES
  pending_irq_i,             \* the inputs that are high
  irq_edge,                  \* a rising edge has scheduled update_irqs
  pendingsReg, masksReg,     \* registers, as sets of bits
  irq_o,
  irq_rst                    \* the level of rst_i

irqVars == <<pending_irq_i, irq_edge, pendingsReg, masksReg, irq_o, irq_rst>>

Init ==
  /\ pending_irq_i = {} /\ irq_edge = TRUE
  /\ pendingsReg = {} /\ masksReg = {} /\ irq_o = FALSE
  /\ irq_rst = FALSE

(* update_irqs after pendingsReg was set to p: a high input is pending again. *)
update_irqs(p) ==
  /\ pendingsReg' = p \cup pending_irq_i
  /\ irq_o' = (pendingsReg' \cap masksReg' # {})

(* The callback of masksReg stores into pendingsReg: the mask never changes. *)
MasksWrite(data) ==
  /\ UNCHANGED masksReg
  /\ update_irqs(data)
  /\ UNCHANGED <<pending_irq_i, irq_edge, irq_rst>>

PendingsWrite(data) ==
  /\ UNCHANGED masksReg
  /\ update_irqs(data)
  /\ UNCHANGED <<pending_irq_i, irq_edge, irq_rst>>

LinesChange(lines) ==
  /\ ~irq_edge
  /\ pending_irq_i' = lines
  /\ irq_edge' = ~(lines \subseteq pending_irq_i)
  /\ UNCHANGED <<pendingsReg, masksReg, irq_o, irq_rst>>

UpdateIrqs ==
  /\ irq_edge /\ irq_edge' = FALSE
  /\ UNCHANGED masksReg
  /\ update_irqs(pendingsReg)
  /\ UNCHANGED <<pending_irq_i, irq_rst>>

(* reset_cb on either edge of rst_i: only the rising one clears registers, *)
(* both drive the output low.                                              *)
Reset ==
  /\ ~irq_rst /\ irq_rst' = TRUE
  /\ pendingsReg' = {} /\ masksReg' = {} /\ irq_o' = FALSE
  /\ UNCHANGED <<pending_irq_i, irq_edge>>

ResetRelease ==
  /\ irq_rst /\ irq_rst' = FALSE
  /\ irq_o' = FALSE
  /\ UNCHANGED <<pending_irq_i, irq_edge, pendingsReg, masksReg>>

Next ==
  \/ \E data \in SUBSET IrqLines : MasksWrite(data) \/ PendingsWrite(data) \/ LinesChange(data)
  \/ UpdateIrqs \/ Reset \/ ResetRelease

Spec == Init /\ [][Next]_irqVars

-----------------------------------------------------------------------------
TypeOK ==
  /\ pending_irq_i \subseteq IrqLines /\ irq_edge \in BOOLEAN
  /\ pendingsReg \subseteq IrqLines /\ masksReg \subseteq IrqLines
  /\ irq_o \in BOOLEAN /\ irq_rst \in BOOLEAN

(* Whatever is written to pendings and masks, in whatever order, the output  *)
(* stays low: masksReg can only be changed by its callback, which does not.  *)
Silent == ~irq_o

(* An input that is high is pending once the delta cycle of its edge is over, *)
(* whatever is written to pendings and masks meanwhile (an empty pendings,    *)
(* too, leaves it pending): only a rising edge of the reset forgets one.      *)
Overlooked == IF irq_edge THEN {} ELSE pending_irq_i \ pendingsReg

OverlookedOnlyByReset ==
  \/ Overlooked' \subseteq Overlooked
  \/ ~irq_rst /\ irq_rst'
=============================================================================
