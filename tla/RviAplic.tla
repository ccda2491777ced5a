------------------------------ MODULE RviAplic ------------------------------
(***************************************************************************)
(* The advanced platform-level interrupt controller of src/rvi/aplic.cpp   *)
(* in direct delivery mode, for one hart, as built for TLM signals.  Every *)
(* register and wire callback runs to completion and is one action.        *)
(***************************************************************************)
EXTENDS Integers, FiniteSets

CONSTANTS
  NumIrq,         \* num_irq, the size of external_global_interrupts_i
  MaxPrio,        \* num_irq_prio
  Thresholds,     \* values software writes to the threshold register
  Modes,          \* values software writes to a sourcecfg register
  Boots,          \* the sourcecfg and targetcfg registers boot code writes
  Rewritten       \* the irqs whose sourcecfg and targetcfg software rewrites later

INACTIVE    == 0
DETACHED    == 1
EDGERISING  == 4
EDGEFALLING == 5
LEVELHIGH   == 6
LEVELLOW    == 7

LevelModes  == {LEVELHIGH, LEVELLOW}
ActiveModes == {DETACHED, EDGERISING, EDGEFALLING} \cup LevelModes

Irqs  == 1..NumIrq
Prios == 0..MaxPrio
Word  == 32

(* Source NumIrq has registers but no wire callback, and the loop of        *)
(* handle_pending_int stops before it.                                      *)
Wired == 1..(NumIrq - 1)

ASSUME AplicAssumption ==
  /\ NumIrq \in Nat \ {0}
  /\ MaxPrio \in Nat
  /\ Thresholds \subseteq Nat
  /\ Modes \subseteq Nat
  /\ Boots \subseteq [mode : [Irqs -> Modes], target : [Irqs -> Prios]]
  /\ Rewritten \subseteq Irqs

VARIABLES
  interruptenable,  \* domaincfg.interruptenable
  sourcecfg,        \* r_sourcecfg: the source mode of every irq
  targetcfg,        \* r_targetcfg: the priority number of every irq
  pending,          \* r_pending as a set
  enabled,          \* r_enabled as a set
  delivery,         \* r_delivery = 1
  threshold,        \* r_threshold
  claim,            \* r_claim, and r_top, which is only assigned with it
  core_interrupt_o  \* the level last driven to the hart

cfgVars == <<interruptenable, targetcfg, enabled, delivery, threshold>>
vars == <<interruptenable, sourcecfg, targetcfg, pending, enabled, delivery,
          threshold, claim, core_interrupt_o>>

NoClaim == [interruptpriority |-> 0, interruptidentity |-> 0]

Init ==
  /\ sourcecfg = [irq \in Irqs |-> INACTIVE]
  /\ targetcfg = [irq \in Irqs |-> 0]
  /\ interruptenable = FALSE
  /\ pending = {} /\ enabled = {}
  /\ delivery = FALSE
  /\ threshold = 0
  /\ claim = NoClaim
  /\ core_interrupt_o = FALSE

-----------------------------------------------------------------------------
(* The sources that take part in signalling: enabled, pending, and below    *)
(* the threshold number unless that is zero.  Priority number zero (the     *)
(* reset value) never passes prio > claim_prio.                             *)
Contributing(target, pend, en, thold) ==
  {irq \in Wired \cap pend \cap en :
      target[irq] > 0 /\ (thold = 0 \/ target[irq] < thold)}

(* The scan keeps the greatest priority number, the lowest irq among equals. *)
Winner(target, cand) ==
  CHOOSE irq \in cand :
    \A other \in cand : \/ target[irq] > target[other]
                        \/ target[irq] = target[other] /\ irq <= other

Top(target, pend, en, thold) ==
  LET cand == Contributing(target, pend, en, thold)
  IN  IF cand = {} THEN NoClaim
      ELSE [interruptpriority |-> target[Winner(target, cand)],
            interruptidentity |-> Winner(target, cand)]

(* write_irq reaches the hart only while delivery is enabled twice over. *)
Delivers == delivery /\ interruptenable

(* Mutant of handle_pending_int: the output is raised only when claimi was empty before.           *)
MutHandleEarlyOut(line) ==
  /\ claim' = Top(targetcfg', pending', enabled', threshold')
  /\ core_interrupt_o' = (line \/ (Delivers' /\ claim = NoClaim /\ claim' # NoClaim))

(* handle_pending_int on the new register values, with the output at `line'. *)
(* It asserts the output but never deasserts it.                             *)
handle_pending_int(line) ==
  /\ claim' = Top(targetcfg', pending', enabled', threshold')
  /\ core_interrupt_o' = (line \/ (Delivers' /\ claim' # NoClaim))

(* Mutant of reset_pending_int: the output is not taken down first. *)
MutNoDeassert(irqs) ==
  /\ pending' = pending \ irqs
  /\ handle_pending_int(core_interrupt_o)

(* reset_pending_int, for one irq or for several in a row. *)
reset_pending_int(irqs) ==
  /\ pending' = pending \ irqs
  /\ handle_pending_int(core_interrupt_o /\ ~Delivers)

-----------------------------------------------------------------------------
DomaincfgWrite(ie) ==
  /\ interruptenable' = ie
  /\ UNCHANGED <<sourcecfg, targetcfg, pending, enabled, delivery, threshold>>
  /\ \/ ie /\ handle_pending_int(core_interrupt_o)
     \/ ~ie /\ UNCHANGED <<claim, core_interrupt_o>>

(* No other register follows a change of the mode: neither the pending nor  *)
(* the enable bit of a source that becomes inactive is cleared.             *)
SourcecfgWrite(irq, mode) ==
  /\ irq \in Rewritten
  /\ sourcecfg' = [sourcecfg EXCEPT ![irq] = mode]
  /\ UNCHANGED <<cfgVars, pending, claim, core_interrupt_o>>

(* Priority number zero and numbers above the maximum are refused. *)
TargetcfgWrite(irq, prio) ==
  /\ irq \in Rewritten
  /\ prio \in 1..MaxPrio
  /\ targetcfg' = [targetcfg EXCEPT ![irq] = prio]
  /\ UNCHANGED <<interruptenable, sourcecfg, pending, enabled, delivery,
                 threshold, claim, core_interrupt_o>>

(* The boot code's writes of sourcecfg and targetcfg, taken together. *)
Boot(boot) ==
  /\ \A irq \in Irqs : sourcecfg[irq] = INACTIVE /\ targetcfg[irq] = 0
  /\ sourcecfg' = boot.mode
  /\ targetcfg' = boot.target
  /\ UNCHANGED <<interruptenable, pending, enabled, delivery, threshold,
                 claim, core_interrupt_o>>

(* setie and setienum: of the irqs written, the active ones are enabled. *)
EnabledWrite(irqs) ==
  LET accepted == {irq \in irqs : sourcecfg[irq] \in ActiveModes}
  IN  /\ accepted # {}
      /\ enabled' = enabled \cup accepted
      /\ UNCHANGED <<interruptenable, sourcecfg, targetcfg, pending, delivery, threshold>>
      /\ handle_pending_int(core_interrupt_o)

(* clrie: the enable bits are cleared and nothing is evaluated. *)
ClrenabledWrite(irqs) ==
  /\ enabled' = enabled \ irqs
  /\ UNCHANGED <<interruptenable, sourcecfg, targetcfg, pending, delivery,
                 threshold, claim, core_interrupt_o>>

(* Mutant of PendingWrite: the test of the source mode is missing. *)
MutSetsLevelPending(irqs) ==
  LET accepted == {irq \in irqs : sourcecfg[irq] \in ActiveModes}
  IN  /\ accepted # {}
      /\ pending' = pending \cup accepted
      /\ UNCHANGED <<cfgVars, sourcecfg>>
      /\ handle_pending_int(core_interrupt_o)

(* setip: level-sensitive and inactive sources are left alone. *)
PendingWrite(irqs) ==
  LET accepted == {irq \in irqs : sourcecfg[irq] \in ActiveModes \ LevelModes}
  IN  /\ accepted # {}
      /\ pending' = pending \cup accepted
      /\ UNCHANGED <<cfgVars, sourcecfg>>
      /\ handle_pending_int(core_interrupt_o)

(* in_clrip: likewise, and only pending ones are reset. *)
ClrpendingWrite(irqs) ==
  LET accepted == {irq \in irqs \cap pending :
                     sourcecfg[irq] \in ActiveModes \ LevelModes}
  IN  /\ accepted # {}
      /\ UNCHANGED <<cfgVars, sourcecfg>>
      /\ reset_pending_int(accepted)

DeliveryWrite(on) ==
  /\ delivery' = on
  /\ UNCHANGED <<interruptenable, sourcecfg, targetcfg, pending, enabled, threshold>>
  /\ \/ on /\ handle_pending_int(core_interrupt_o)
     \/ ~on /\ UNCHANGED <<claim, core_interrupt_o>>

(* Mutant: the threshold is only stored. *)
MutThresholdOnlyStored(thold) ==
  /\ threshold' = thold
  /\ UNCHANGED <<interruptenable, sourcecfg, targetcfg, pending, enabled,
                 delivery, claim, core_interrupt_o>>

ThresholdWrite(thold) ==
  /\ threshold' = thold
  /\ UNCHANGED <<interruptenable, sourcecfg, targetcfg, pending, enabled, delivery>>
  /\ handle_pending_int(core_interrupt_o)

(* A read of claim returns r_claim; the source it names is reset unless it  *)
(* is level-sensitive.                                                      *)
ClaimRead ==
  /\ claim # NoClaim
  /\ sourcecfg[claim.interruptidentity] \notin LevelModes
  /\ UNCHANGED <<cfgVars, sourcecfg>>
  /\ reset_pending_int({claim.interruptidentity})

(* A wire callback: an inverted mode sees the complement of the value. *)
Rectified(irq, value) == value # (sourcecfg[irq] \in {EDGEFALLING, LEVELLOW})

ExternalRaise(irq, value) ==
  /\ sourcecfg[irq] # INACTIVE
  /\ Rectified(irq, value)
  /\ pending' = pending \cup {irq}
  /\ UNCHANGED <<cfgVars, sourcecfg>>
  /\ handle_pending_int(core_interrupt_o)

ExternalFall(irq, value) ==
  /\ sourcecfg[irq] \in LevelModes
  /\ ~Rectified(irq, value)
  /\ irq \in pending
  /\ UNCHANGED <<cfgVars, sourcecfg>>
  /\ reset_pending_int({irq})

External(irq, value) == ExternalRaise(irq, value) \/ ExternalFall(irq, value)

(* rst_i pulses: the registers return to zero, the output stays. *)
Reset ==
  /\ sourcecfg' = [irq \in Irqs |-> INACTIVE]
  /\ targetcfg' = [irq \in Irqs |-> 0]
  /\ interruptenable' = FALSE
  /\ pending' = {} /\ enabled' = {}
  /\ delivery' = FALSE
  /\ threshold' = 0
  /\ claim' = NoClaim
  /\ UNCHANGED core_interrupt_o

RegisterWord == {{irq \in Irqs : irq \div Word = w} : w \in 0..(NumIrq \div Word)}

Next ==
  \/ \E on \in BOOLEAN : DomaincfgWrite(on) \/ DeliveryWrite(on)
  \/ \E boot \in Boots : Boot(boot)
  \/ \E irq \in Irqs, mode \in Modes : SourcecfgWrite(irq, mode)
  \/ \E irq \in Irqs, prio \in 0..(MaxPrio + 1) : TargetcfgWrite(irq, prio)
  \/ \E word \in RegisterWord : \E irqs \in SUBSET word :
       \/ EnabledWrite(irqs) \/ ClrenabledWrite(irqs)
       \/ PendingWrite(irqs) \/ ClrpendingWrite(irqs)
  \/ \E thold \in Thresholds : ThresholdWrite(thold)
  \/ ClaimRead
  \/ \E irq \in Wired, value \in BOOLEAN : External(irq, value)
  \/ Reset

Spec == Init /\ [][Next]_vars

-----------------------------------------------------------------------------
(* The registers stay in their ranges; what a claim names is a wired irq    *)
(* with a priority number.                                                  *)
TypeOK ==
  /\ interruptenable \in BOOLEAN
  /\ sourcecfg \in [Irqs -> Modes \cup {INACTIVE}]
  /\ targetcfg \in [Irqs -> Prios]
  /\ pending \subseteq Irqs
  /\ enabled \subseteq Irqs
  /\ delivery \in BOOLEAN
  /\ threshold \in Thresholds \cup {0}
  /\ claim \in {NoClaim} \cup
       [interruptpriority : 1..MaxPrio, interruptidentity : Wired]
  /\ core_interrupt_o \in BOOLEAN

Work == Contributing(targetcfg, pending, enabled, threshold) # {}
Missed == Delivers /\ Work /\ ~core_interrupt_o
Stale == claim # Top(targetcfg, pending, enabled, threshold)
Phantom == core_interrupt_o /\ claim = NoClaim

(* A deliverable interrupt is left unsignalled only by a rewrite of a       *)
(* priority number: every other order of enabling, masking, delivering,     *)
(* claiming and resetting evaluates when it opens a path to the hart.       *)
MissedOnlyByTargetcfg ==
  [][~Missed /\ Missed' => targetcfg' # targetcfg]_vars

(* topi and claimi go stale only by the writes that evaluate nothing: clrie *)
(* and target.  In particular no claim, edge or level change leaves them    *)
(* behind, in whatever order they arrive.                                   *)
StaleOnlyByUnevaluatedWrites ==
  [][~Stale /\ Stale' =>
       \/ targetcfg' # targetcfg
       \/ enabled' # enabled /\ enabled' \subseteq enabled]_vars

(* The output is high with nothing to claim only if software masked what it *)
(* was high for, or delivery was off when the last source was reset: while  *)
(* delivery is on, the configuration stands still and claimi is up to date, *)
(* the output falls with the last source.                                   *)
PhantomOnlyByMasking ==
  [][(Delivers /\ ~Stale /\ UNCHANGED cfgVars /\ ~Phantom) => ~Phantom']_vars

(* aplic.cpp:116-121: the pending bit of a level-sensitive source is not    *)
(* touched by setip, in_clrip or a claim; only its own wire or a reset      *)
(* changes it, and a claim never takes a level interrupt away.              *)
LevelPendingFollowsWire ==
  [][\A irq \in Irqs :
       (sourcecfg[irq] \in LevelModes /\ (irq \in pending) # (irq \in pending')) =>
          \/ \E value \in BOOLEAN : irq \in Wired /\ External(irq, value)
          \/ Reset]_vars

=============================================================================
