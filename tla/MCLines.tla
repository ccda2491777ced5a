------------------------------- MODULE MCLines -------------------------------
(***************************************************************************)
(* The interrupt controllers and GPIO blocks that stand alone on a bus: no *)
(* two of them share a signal, so one that runs while the others rest at   *)
(* their initial states shows all it can do.  `which' is the one that runs.*)
(***************************************************************************)
EXTENDS Naturals, Sequences, FiniteSets

CONSTANTS IrqLines, GpioPins, PeqBound, IofPins, IofBound, PadBits, IntTypes, PulpinoPins,
          LastSource, MaxPrio, Srcs, EdgeSrcs, Targets, MaxLevel

(* Pins are numbers, source ids are 1 and up, INTTYPE has two bits a pin.   *)
ASSUME LinesAssumption ==
  /\ IofPins \subseteq Nat /\ IofBound \in Nat /\ IntTypes \subseteq 0..3
  /\ LastSource \in Nat \ {0} /\ MaxPrio \in Nat
  /\ IsFiniteSet(Srcs) /\ Srcs = 1..Cardinality(Srcs) /\ MaxLevel \in Nat

VARIABLES
  which,
  pending_irq_i, irq_edge, pendingsReg, masksReg, irq_o, irq_rst,
  write, writeEnable, pin_peq, oe_peq, pins_o, oe_o, pins_i, value, boot_sel,
  bound, regs, input_value, last_iof, iof_input, drive, iof_o, gpio_in_reset,
  in, in_event, out, dir, PADIN, PADOUT, INTEN, INTSTATUS, INTTYPE, pad_irq_o,
  pin_in, pin_edge, in_due, intstatus_due, padin, padout, paddir, inten, inttype,
  intstatus, gpio_irq_out,
  lines, line_edge, enabled, pending, priority, threshold, claim_complete, core_interrupt,
  irq_srcs_i, scan_due, srcs_d, set_, ia_, ip, prio, ie, pth, id_, irq_out

irq   == <<pending_irq_i, irq_edge, pendingsReg, masksReg, irq_o, irq_rst>>
gpio  == <<write, writeEnable, pin_peq, oe_peq, pins_o, oe_o, pins_i, value, boot_sel>>
iof   == <<bound, regs, input_value, last_iof, iof_input, drive, iof_o, gpio_in_reset>>
pad   == <<in, in_event, out, dir, PADIN, PADOUT, INTEN, INTSTATUS, INTTYPE, pad_irq_o>>
pulp  == <<pin_in, pin_edge, in_due, intstatus_due, padin, padout, paddir, inten, inttype,
           intstatus, gpio_irq_out>>
claim == <<lines, line_edge, enabled, pending, priority, threshold, claim_complete,
           core_interrupt>>
scan  == <<irq_srcs_i, scan_due, srcs_d, set_, ia_, ip, prio, ie, pth, id_, irq_out>>
vars  == <<which, irq, gpio, iof, pad, pulp, claim, scan>>

Irq       == INSTANCE MinresIrq
Gpio      == INSTANCE MinresGpio
IofGpio   == INSTANCE SifiveGpio
PadGpio   == INSTANCE PulpissimoGpio
PulpGpio  == INSTANCE PulpinoGpio
ClaimPlic == INSTANCE SifivePlic
ScanPlic  == INSTANCE PulpinoPlic

Init ==
  /\ which \in {"irq", "gpio", "iof", "pad", "pulp", "claim", "scan"}
  /\ Irq!Init /\ Gpio!Init /\ PadGpio!Init /\ PulpGpio!Init /\ ClaimPlic!Init /\ ScanPlic!Init
  /\ IofGpio!Init
  /\ which # "iof" => (bound = [p \in IofPins |-> {}] /\ last_iof = [n \in {0, 1} |-> {}])

Next ==
  /\ UNCHANGED which
  /\ \/ which = "irq"   /\ Irq!Next       /\ UNCHANGED <<gpio, iof, pad, pulp, claim, scan>>
     \/ which = "gpio"  /\ Gpio!Next      /\ UNCHANGED <<irq, iof, pad, pulp, claim, scan>>
     \/ which = "iof"   /\ IofGpio!Next   /\ UNCHANGED <<irq, gpio, pad, pulp, claim, scan>>
     \/ which = "pad"   /\ PadGpio!Next   /\ UNCHANGED <<irq, gpio, iof, pulp, claim, scan>>
     \/ which = "pulp"  /\ PulpGpio!Next  /\ UNCHANGED <<irq, gpio, iof, pad, claim, scan>>
     \/ which = "claim" /\ ClaimPlic!Next /\ UNCHANGED <<irq, gpio, iof, pad, pulp, scan>>
     \/ which = "scan"  /\ ScanPlic!Next  /\ UNCHANGED <<irq, gpio, iof, pad, pulp, claim>>

Spec == Init /\ [][Next]_vars

-----------------------------------------------------------------------------
(* What leaves a block agrees with what its registers say: the pins of both  *)
(* GPIOs with the register written last, the interrupt of the Pulpino GPIO   *)
(* with its status, a claimable id with the interrupt.  The two outputs that *)
(* agree with nothing are dead: the interrupt of the MINRES controller,      *)
(* whose mask cannot be written, and the status of the high PULPissimo bank. *)
OutputsFollow ==
  /\ Irq!TypeOK /\ Irq!Silent
  /\ Gpio!TypeOK /\ Gpio!PinsFollow
  /\ IofGpio!TypeOK /\ IofGpio!GpioPinsFollow
  /\ PadGpio!TypeOK /\ PadGpio!HighBankIsMute
  /\ PulpGpio!TypeOK /\ PulpGpio!OutputIsStatus
  /\ ClaimPlic!TypeOK /\ ClaimPlic!ClaimUnderInterrupt
  /\ ScanPlic!TypeOK

(* The method that samples the lines overlooks none: once it has run, what   *)
(* it saw and is enabled is in the pending or status register, and goes from *)
(* there only by the hand named: a reset of the MINRES controller, a read of *)
(* the status, a completion or claim of the very source, a write of the      *)
(* pending bits, or (never seen at all) by being enabled after the edge.     *)
NothingIsOverlooked ==
  [][/\ Irq!OverlookedOnlyByReset
     /\ PadGpio!EdgesAreRecorded /\ PadGpio!InterruptStaysAndIsMissedOnlyByEnable
     /\ PulpGpio!EdgesLostOnlyByRead
     /\ ClaimPlic!UnseenExplained
     /\ ScanPlic!UnseenExplained]_vars

(* Where output and registers do disagree, the hand that brought it about is *)
(* known: software that rewrites configuration or claims, a reset, a level   *)
(* of a function that overtook another, the largest threshold.               *)
DisagreementIsExplained ==
  [][/\ IofGpio!OffOnlyByOvertaking
     /\ PadGpio!ApartOnlyByWriteOrReset
     /\ ClaimPlic!IdleInterruptExplained /\ ClaimPlic!SilentOnlyByConfiguration
     /\ ScanPlic!WrongOnlyBySoftware /\ ScanPlic!GatewayShut
     /\ ScanPlic!ActiveWasPending]_vars
=============================================================================
