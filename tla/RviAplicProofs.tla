--------------------------- MODULE RviAplicProofs ---------------------------
(***************************************************************************)
(* Theorems of RviAplic for any number of sources and priorities and any   *)
(* values software writes.                                                 *)
(***************************************************************************)
EXTENDS RviAplic, NatLemmas, TLAPS

(* Among sources that take part one wins the scan. *)
LEMMA WinnerExists ==
  ASSUME NEW target \in [Irqs -> Prios], NEW cand \in SUBSET Irqs, cand # {}
  PROVE  Winner(target, cand) \in cand
<1>1. cand \in SUBSET Nat /\ MaxPrio \in Nat
  BY AplicAssumption DEF Irqs
<1>2. \A irq \in cand : target[irq] \in 0..MaxPrio
  BY DEF Prios
<1>3. \E irq \in cand : \A other \in cand :
        \/ target[irq] > target[other]
        \/ target[irq] = target[other] /\ irq <= other
  BY <1>1, <1>2, RankedWinner
<1> QED
  BY <1>3 DEF Winner

(* What the scan leaves in topi and claimi: nothing exactly when no source  *)
(* takes part, and otherwise a source that does, with its number.           *)
LEMMA TopResult ==
  ASSUME NEW target \in [Irqs -> Prios], NEW pend, NEW en, NEW thold
  PROVE  LET cand == Contributing(target, pend, en, thold)
             top == Top(target, pend, en, thold)
         IN  /\ top \in {NoClaim} \cup
                  [interruptpriority : 1..MaxPrio, interruptidentity : Wired]
             /\ top = NoClaim <=> cand = {}
<1> DEFINE cand == Contributing(target, pend, en, thold)
<1> DEFINE win == Winner(target, cand)
<1> USE AplicAssumption
<1>1. cand \in SUBSET Wired /\ Wired \subseteq Irqs /\ Wired \subseteq Nat
  BY DEF Contributing, Wired, Irqs
<1>2. CASE cand = {}
  BY <1>2 DEF Top
<1>3. CASE cand # {}
  <2>2. win \in cand
    <3> HIDE DEF cand
    <3> QED
      BY <1>1, <1>3, WinnerExists
  <2>3. win \in Wired /\ target[win] \in 1..MaxPrio
    <3>1. win \in Wired /\ target[win] \in Prios /\ target[win] > 0
      <4>1. win \in Wired /\ target[win] > 0
        <5> HIDE DEF win
        <5> QED
          BY <2>2 DEF Contributing
      <4> HIDE DEF win, cand
      <4> QED
        BY <4>1, <1>1
    <3> HIDE DEF win, cand
    <3> QED
      BY <3>1 DEF Prios
  <2>4. Top(target, pend, en, thold) =
          [interruptpriority |-> target[win], interruptidentity |-> win]
    BY <1>3 DEF Top
  <2>5. Top(target, pend, en, thold).interruptidentity # 0
    <3> HIDE DEF win, cand
    <3> QED
      BY <2>3, <2>4 DEF Wired
  <2> HIDE DEF win, cand
  <2>6. Top(target, pend, en, thold) # NoClaim
    BY <2>5 DEF NoClaim
  <2> QED
    BY <1>3, <2>3, <2>4, <2>6 DEF cand
<1> QED
  BY <1>2, <1>3

-----------------------------------------------------------------------------
LEMMA InitType == Init => TypeOK
<1>1. 0 \in Prios
  BY AplicAssumption DEF Prios
<1> QED
  BY <1>1 DEF Init, TypeOK

(* Everything but claim and output, which only the scan assigns. *)
RegistersOK ==
  /\ interruptenable \in BOOLEAN
  /\ sourcecfg \in [Irqs -> Modes \cup {INACTIVE}]
  /\ targetcfg \in [Irqs -> Prios]
  /\ pending \subseteq Irqs
  /\ enabled \subseteq Irqs
  /\ delivery \in BOOLEAN
  /\ threshold \in Thresholds \cup {0}

(* An evaluation leaves a well-formed claim and a Boolean level. *)
LEMMA EvaluationType ==
  ASSUME RegistersOK', NEW line \in BOOLEAN, handle_pending_int(line)
  PROVE  TypeOK'
<1>1. claim' \in {NoClaim} \cup
        [interruptpriority : 1..MaxPrio, interruptidentity : Wired]
  BY TopResult DEF handle_pending_int, RegistersOK
<1>2. core_interrupt_o' \in BOOLEAN
  BY DEF handle_pending_int
<1> QED
  BY <1>1, <1>2 DEF TypeOK, RegistersOK

(* The four kinds of steps.  A step evaluates with the output as it is,     *)
(* evaluates after it was taken down, leaves what the hart sees alone, or   *)
(* is the reset.                                                            *)
Raises == /\ pending \subseteq pending'
          /\ handle_pending_int(core_interrupt_o)

Lowers == /\ pending' \subseteq pending
          /\ UNCHANGED <<cfgVars, sourcecfg>>
          /\ handle_pending_int(core_interrupt_o /\ ~Delivers)

Stores == /\ UNCHANGED <<pending, threshold, claim, core_interrupt_o>>
          /\ enabled' \subseteq enabled
          /\ Delivers' => Delivers

LEMMA StepKinds ==
  ASSUME TypeOK, [Next]_vars
  PROVE  Raises \/ Lowers \/ Stores \/ Reset
<1>1. ASSUME NEW on \in BOOLEAN, DomaincfgWrite(on)
      PROVE  Raises \/ Stores
  BY <1>1 DEF DomaincfgWrite, Raises, Stores, Delivers
<1>2. ASSUME NEW on \in BOOLEAN, DeliveryWrite(on)
      PROVE  Raises \/ Stores
  BY <1>2 DEF DeliveryWrite, Raises, Stores, Delivers
<1>3. ASSUME NEW boot \in Boots, Boot(boot)
      PROVE  Stores
  BY <1>3 DEF Boot, Stores, Delivers
<1>4. ASSUME NEW irq \in Irqs, NEW mode \in Modes, SourcecfgWrite(irq, mode)
      PROVE  Stores
  BY <1>4 DEF SourcecfgWrite, Stores, Delivers, cfgVars
<1>5. ASSUME NEW irq \in Irqs, NEW prio \in 0..(MaxPrio + 1), TargetcfgWrite(irq, prio)
      PROVE  Stores
  BY <1>5 DEF TargetcfgWrite, Stores, Delivers
<1>6. ASSUME NEW irqs \in SUBSET Irqs,
             EnabledWrite(irqs) \/ ClrenabledWrite(irqs) \/ PendingWrite(irqs)
               \/ ClrpendingWrite(irqs)
      PROVE  Raises \/ Lowers \/ Stores
  <2>1. CASE EnabledWrite(irqs)
    BY <2>1 DEF EnabledWrite, Raises
  <2>2. CASE ClrenabledWrite(irqs)
    BY <2>2 DEF ClrenabledWrite, Stores, Delivers
  <2>3. CASE PendingWrite(irqs)
    BY <2>3 DEF PendingWrite, Raises
  <2>4. CASE ClrpendingWrite(irqs)
    BY <2>4 DEF ClrpendingWrite, reset_pending_int, Lowers
  <2> QED
    BY <1>6, <2>1, <2>2, <2>3, <2>4
<1>7. ASSUME NEW thold \in Thresholds, ThresholdWrite(thold)
      PROVE  Raises
  BY <1>7 DEF ThresholdWrite, Raises
<1>8. CASE ClaimRead
  BY <1>8 DEF ClaimRead, reset_pending_int, Lowers
<1>9. ASSUME NEW irq \in Wired, NEW value \in BOOLEAN, External(irq, value)
      PROVE  Raises \/ Lowers
  BY <1>9 DEF External, ExternalRaise, ExternalFall, reset_pending_int, Raises, Lowers
<1>10. CASE UNCHANGED vars
  BY <1>10 DEF vars, Stores, Delivers
<1>11. \A word \in RegisterWord : SUBSET word \subseteq SUBSET Irqs
  BY DEF RegisterWord
<1> QED
  BY <1>1, <1>2, <1>3, <1>4, <1>5, <1>6, <1>7, <1>8, <1>9, <1>10, <1>11 DEF Next

(* Software, wires and the reset keep the registers in their ranges. *)
LEMMA NextRegisters ==
  ASSUME TypeOK, [Next]_vars
  PROVE  RegistersOK'
<1> USE AplicAssumption DEF TypeOK, RegistersOK
<1>1. ASSUME NEW on \in BOOLEAN, DomaincfgWrite(on) \/ DeliveryWrite(on)
      PROVE  RegistersOK'
  BY <1>1 DEF DomaincfgWrite, DeliveryWrite
<1>2. ASSUME NEW boot \in Boots, Boot(boot)
      PROVE  RegistersOK'
  BY <1>2 DEF Boot
<1>3. ASSUME NEW irq \in Irqs, NEW mode \in Modes, SourcecfgWrite(irq, mode)
      PROVE  RegistersOK'
  BY <1>3 DEF SourcecfgWrite, cfgVars
<1>4. ASSUME NEW irq \in Irqs, NEW prio \in 0..(MaxPrio + 1), TargetcfgWrite(irq, prio)
      PROVE  RegistersOK'
  <2>1. prio \in Prios
    BY <1>4 DEF TargetcfgWrite, Prios
  <2> QED
    BY <1>4, <2>1 DEF TargetcfgWrite
<1>5. ASSUME NEW irqs \in SUBSET Irqs,
             EnabledWrite(irqs) \/ ClrenabledWrite(irqs) \/ PendingWrite(irqs)
               \/ ClrpendingWrite(irqs)
      PROVE  RegistersOK'
  BY <1>5 DEF EnabledWrite, ClrenabledWrite, PendingWrite, ClrpendingWrite,
              reset_pending_int, cfgVars
<1>6. ASSUME NEW thold \in Thresholds, ThresholdWrite(thold)
      PROVE  RegistersOK'
  BY <1>6 DEF ThresholdWrite
<1>7. CASE ClaimRead
  BY <1>7 DEF ClaimRead, reset_pending_int, cfgVars
<1>8. ASSUME NEW irq \in Wired, NEW value \in BOOLEAN, External(irq, value)
      PROVE  RegistersOK'
  <2>1. irq \in Irqs
    BY DEF Wired, Irqs
  <2> QED
    BY <1>8, <2>1 DEF External, ExternalRaise, ExternalFall, reset_pending_int, cfgVars
<1>9. CASE Reset
  <2>1. 0 \in Prios
    BY DEF Prios
  <2> QED
    BY <1>9, <2>1 DEF Reset
<1>10. CASE UNCHANGED vars
  BY <1>10 DEF vars
<1>11. \A word \in RegisterWord : SUBSET word \subseteq SUBSET Irqs
  BY DEF RegisterWord
<1> QED
  BY <1>1, <1>2, <1>3, <1>4, <1>5, <1>6, <1>7, <1>8, <1>9, <1>10, <1>11 DEF Next

LEMMA NextType == TypeOK /\ [Next]_vars => TypeOK'
<1> SUFFICES ASSUME TypeOK, [Next]_vars PROVE TypeOK'
  OBVIOUS
<1>1. RegistersOK'
  BY NextRegisters
<1>2. CASE Raises
  BY <1>1, <1>2, EvaluationType DEF Raises, TypeOK
<1>3. CASE Lowers
  <2>1. (core_interrupt_o /\ ~Delivers) \in BOOLEAN
    OBVIOUS
  <2> QED
    BY <1>1, <1>3, <2>1, EvaluationType DEF Lowers
<1>4. CASE Stores
  BY <1>1, <1>4 DEF Stores, TypeOK, RegistersOK
<1>5. CASE Reset
  BY <1>1, <1>5 DEF Reset, TypeOK, RegistersOK
<1> QED
  BY <1>2, <1>3, <1>4, <1>5, StepKinds

(* The registers, the claim and the output keep their ranges; a claim names *)
(* nothing, or a wired irq with a priority number.                          *)
THEOREM TypeCorrect == Spec => []TypeOK
<1>1. Init => TypeOK
  BY InitType
<1>2. TypeOK /\ [Next]_vars => TypeOK'
  BY NextType
<1> QED
  BY <1>1, <1>2, PTL DEF Spec

-----------------------------------------------------------------------------
(* After an evaluation topi and claimi are right, and a deliverable         *)
(* interrupt is signalled.                                                  *)
LEMMA EvaluationResult ==
  ASSUME TypeOK', NEW line \in BOOLEAN, handle_pending_int(line)
  PROVE  /\ ~Stale' /\ ~Missed'
         /\ Phantom' => line
         /\ claim' = NoClaim <=> ~Work'
<1>1. claim' = NoClaim <=> ~Work'
  BY TopResult DEF handle_pending_int, Work, TypeOK
<1> QED
  BY <1>1 DEF handle_pending_int, Stale, Missed, Phantom

(* A step that only stores: what contributes afterwards did so before,      *)
(* unless a priority number was rewritten.                                  *)
LEMMA StoresKeepWork ==
  ASSUME Stores, targetcfg' = targetcfg, Work'
  PROVE  Work
BY DEF Stores, Work, Contributing

(* A deliverable interrupt is left unsignalled only by a rewrite of a       *)
(* priority number.                                                         *)
THEOREM MissedOnlyByTargetcfgHolds == Spec => MissedOnlyByTargetcfg
<1>1. TypeOK /\ TypeOK' /\ [Next]_vars
        => [~Missed /\ Missed' => targetcfg' # targetcfg]_vars
  <2> SUFFICES ASSUME TypeOK, TypeOK', [Next]_vars, ~Missed, Missed',
                      targetcfg' = targetcfg
               PROVE  FALSE
    OBVIOUS
  <2>1. CASE Raises
    BY <2>1, EvaluationResult DEF Raises, TypeOK
  <2>2. CASE Lowers
    <3>1. (core_interrupt_o /\ ~Delivers) \in BOOLEAN
      OBVIOUS
    <3> QED
      BY <2>2, <3>1, EvaluationResult DEF Lowers
  <2>3. CASE Stores
    BY <2>3, StoresKeepWork DEF Stores, Missed
  <2>4. CASE Reset
    BY <2>4 DEF Reset, Missed, Delivers
  <2> QED
    BY <2>1, <2>2, <2>3, <2>4, StepKinds
<1> QED
  BY <1>1, TypeCorrect, PTL DEF Spec, MissedOnlyByTargetcfg

(* topi and claimi go stale only by clrie and target. *)
THEOREM StaleOnlyByUnevaluatedWritesHolds == Spec => StaleOnlyByUnevaluatedWrites
<1>1. TypeOK /\ TypeOK' /\ [Next]_vars
        => [~Stale /\ Stale' =>
              (targetcfg' # targetcfg \/ (enabled' # enabled /\ enabled' \subseteq enabled))]_vars
  <2> SUFFICES ASSUME TypeOK, TypeOK', [Next]_vars, ~Stale, Stale',
                      targetcfg' = targetcfg
               PROVE  enabled' # enabled /\ enabled' \subseteq enabled
    OBVIOUS
  <2>1. CASE Raises
    BY <2>1, EvaluationResult DEF Raises, TypeOK
  <2>2. CASE Lowers
    <3>1. (core_interrupt_o /\ ~Delivers) \in BOOLEAN
      OBVIOUS
    <3> QED
      BY <2>2, <3>1, EvaluationResult DEF Lowers
  <2>3. CASE Stores
    BY <2>3 DEF Stores, Stale
  <2>4. CASE Reset
    BY <2>4 DEF Reset, Stale, Top, Contributing
  <2> QED
    BY <2>1, <2>2, <2>3, <2>4, StepKinds
<1> QED
  BY <1>1, TypeCorrect, PTL DEF Spec, StaleOnlyByUnevaluatedWrites

(* While delivery is on and the configuration stands still, the output      *)
(* falls with the last source.                                              *)
THEOREM PhantomOnlyByMaskingHolds == Spec => PhantomOnlyByMasking
<1>1. TypeOK /\ TypeOK' /\ [Next]_vars
        => [(Delivers /\ ~Stale /\ UNCHANGED cfgVars /\ ~Phantom) => ~Phantom']_vars
  <2> SUFFICES ASSUME TypeOK, TypeOK', [Next]_vars,
                      Delivers, ~Stale, UNCHANGED cfgVars, ~Phantom, Phantom'
               PROVE  FALSE
    OBVIOUS
  <2>1. CASE Raises
    <3>1. core_interrupt_o /\ ~Work'
      BY <2>1, EvaluationResult DEF Raises, TypeOK, Phantom
    <3>2. claim # NoClaim
      BY <3>1 DEF Phantom
    <3>3. Work
      BY <3>2, TopResult DEF Stale, Work, TypeOK
    <3> QED
      BY <2>1, <3>1, <3>3 DEF Raises, Work, Contributing, cfgVars
  <2>2. CASE Lowers
    <3>1. (core_interrupt_o /\ ~Delivers) = FALSE
      OBVIOUS
    <3> QED
      BY <2>2, <3>1, EvaluationResult DEF Lowers
  <2>3. CASE Stores
    BY <2>3 DEF Stores, Phantom
  <2>4. CASE Reset
    BY <2>4 DEF Reset, Delivers, cfgVars
  <2> QED
    BY <2>1, <2>2, <2>3, <2>4, StepKinds
<1> QED
  BY <1>1, TypeCorrect, PTL DEF Spec, PhantomOnlyByMasking

(* The pending bit of a level-sensitive source follows its own wire and the *)
(* reset only.                                                              *)
THEOREM LevelPendingFollowsWireHolds == Spec => LevelPendingFollowsWire
<1> DEFINE OwnWire(irq) == \E value \in BOOLEAN : irq \in Wired /\ External(irq, value)
<1>1. ASSUME [Next]_vars, NEW irq \in Irqs, sourcecfg[irq] \in LevelModes,
             (irq \in pending) # (irq \in pending')
      PROVE  OwnWire(irq) \/ Reset
  <2>1. ASSUME NEW on \in BOOLEAN, DomaincfgWrite(on) \/ DeliveryWrite(on)
        PROVE  FALSE
    BY <1>1, <2>1 DEF DomaincfgWrite, DeliveryWrite
  <2>2. ASSUME NEW boot \in Boots, Boot(boot)
        PROVE  FALSE
    BY <1>1, <2>2 DEF Boot
  <2>3. ASSUME NEW other \in Irqs, NEW mode \in Modes, SourcecfgWrite(other, mode)
        PROVE  FALSE
    BY <1>1, <2>3 DEF SourcecfgWrite
  <2>4. ASSUME NEW other \in Irqs, NEW prio \in 0..(MaxPrio + 1), TargetcfgWrite(other, prio)
        PROVE  FALSE
    BY <1>1, <2>4 DEF TargetcfgWrite
  <2>5. ASSUME NEW irqs \in SUBSET Irqs, EnabledWrite(irqs) \/ ClrenabledWrite(irqs)
        PROVE  FALSE
    BY <1>1, <2>5 DEF EnabledWrite, ClrenabledWrite
  <2>6. ASSUME NEW irqs \in SUBSET Irqs, PendingWrite(irqs) \/ ClrpendingWrite(irqs)
        PROVE  FALSE
    BY <1>1, <2>6 DEF PendingWrite, ClrpendingWrite, reset_pending_int
  <2>7. ASSUME NEW thold \in Thresholds, ThresholdWrite(thold)
        PROVE  FALSE
    BY <1>1, <2>7 DEF ThresholdWrite
  <2>8. CASE ClaimRead
    BY <1>1, <2>8 DEF ClaimRead, reset_pending_int
  <2>9. ASSUME NEW other \in Wired, NEW value \in BOOLEAN, External(other, value)
        PROVE  OwnWire(irq)
    <3>1. other = irq
      BY <1>1, <2>9 DEF External, ExternalRaise, ExternalFall, reset_pending_int
    <3> QED
      BY <2>9, <3>1
  <2>10. CASE UNCHANGED vars
    BY <1>1, <2>10 DEF vars
  <2>11. \A word \in RegisterWord : SUBSET word \subseteq SUBSET Irqs
    BY DEF RegisterWord
  <2> HIDE DEF OwnWire
  <2> QED
    BY <1>1, <2>1, <2>2, <2>3, <2>4, <2>5, <2>6, <2>7, <2>8, <2>9, <2>10, <2>11 DEF Next
<1>2. [Next]_vars =>
        [\A irq \in Irqs :
           (sourcecfg[irq] \in LevelModes /\ (irq \in pending) # (irq \in pending')) =>
              \/ \E value \in BOOLEAN : irq \in Wired /\ External(irq, value)
              \/ Reset]_vars
  BY <1>1
<1> QED
  BY <1>2, PTL DEF Spec, LevelPendingFollowsWire

=============================================================================
