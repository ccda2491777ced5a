-------------------------- MODULE MinresAclintProofs --------------------------
(***************************************************************************)
(* Theorems of MinresAclint for any number of harts, clock periods and     *)
(* values written.                                                         *)
(***************************************************************************)
EXTENDS MinresAclint, NatLemmas, TLAPS

Compares == [Harts -> 0..NoCompare]

(* The compare nobody undercuts. *)
LEMMA EarliestIsLeast ==
  ASSUME NEW cmp \in Compares
  PROVE  /\ Earliest(cmp) \in 0..NoCompare
         /\ \E i \in Harts : Earliest(cmp) = cmp[i]
         /\ \A i \in Harts : Earliest(cmp) <= cmp[i]
<1> DEFINE Values == {cmp[i] : i \in Harts}
<1>1. Values \in SUBSET Nat /\ Values # {}
  <2>1. 0 \in Harts
    BY AclintAssumption DEF Harts
  <2>2. \A i \in Harts : cmp[i] \in Nat
    BY AclintAssumption DEF Compares
  <2> QED
    BY <2>1, <2>2
<1>2. \E t \in Values : \A u \in Values : t <= u
  <2> HIDE DEF Values
  <2> QED
    BY <1>1, LeastNatural
<1>3. Earliest(cmp) \in Values /\ \A i \in Harts : Earliest(cmp) <= cmp[i]
  <2>1. \E t \in Values : \A i \in Harts : t <= cmp[i]
    BY <1>2
  <2> QED
    BY <2>1 DEF Earliest
<1> QED
  BY <1>3 DEF Compares

(* Clocks in a stretch of time. *)
LEMMA Clocks ==
  ASSUME NEW m \in Nat \ {0}, NEW s \in Nat
  PROVE  /\ s \div m \in Nat /\ s \div m <= s /\ s \div m <= (s + 1) \div m
         /\ 0 \div m = 0 /\ 0 % m = 0
         /\ \A k \in Nat : s < m * k => s \div m < k
         /\ \A k \in Nat : (m * k) % m = 0 /\ (k > 0 => m * k > 0)
OBVIOUS

-----------------------------------------------------------------------------
(* Where an evaluation arms the event. *)
LEMMA TriggerType ==
  ASSUME TypeOK, clk > 0, NEW cmp \in Compares, NEW t \in Nat
  PROVE  NextTrigger(cmp, t) \in (Nat \ {0}) \cup {Never}
<1>1. clk \in Nat \ {0}
  BY AclintAssumption DEF TypeOK
<1>2. Earliest(cmp) \in Nat
  BY EarliestIsLeast, AclintAssumption
<1>3. ASSUME Earliest(cmp) > t
      PROVE  clk * (Earliest(cmp) - t) \in Nat \ {0}
  <2> DEFINE k == Earliest(cmp) - t
  <2>1. k \in Nat /\ k > 0
    BY <1>2, <1>3
  <2> HIDE DEF k
  <2>2. clk * k > 0 /\ clk * k \in Nat
    BY <1>1, <2>1, Clocks
  <2> QED
    BY <2>2 DEF k
<1> QED
  BY <1>1, <1>2, <1>3 DEF NextTrigger

(* What an update leaves behind. *)
LEMMA UpdateType ==
  ASSUME TypeOK, NEW base \in Nat, NEW cmp \in Compares, update_mtime(base, cmp)
  PROVE  /\ mtime' \in Nat /\ mtime_o' \in Nat
         /\ mtime_int_o' \in [Harts -> BOOLEAN]
         /\ timer' \in Nat \cup {Never}
         /\ since' = 0 /\ steady' \in BOOLEAN
<1>1. clk \in Nat /\ since \in Nat /\ started \in BOOLEAN
  BY AclintAssumption DEF TypeOK
<1>2. CASE started /\ clk > 0
  <2>1. mtime' = base + elapsed_clks /\ mtime' \in Nat
    <3>1. elapsed_clks \in Nat
      BY <1>1, <1>2, Clocks DEF elapsed_clks
    <3> QED
      BY <1>2, <3>1 DEF update_mtime
  <2>2. timer' \in Nat \cup {Never}
    <3>1. timer' = NextTrigger(cmp, mtime')
      BY <1>2 DEF update_mtime
    <3> QED
      BY <1>2, <2>1, <3>1, TriggerType
  <2>3. mtime_int_o' = [i \in Harts |-> cmp[i] <= mtime'] /\ since' = 0 /\ steady' = TRUE
    BY <1>2 DEF update_mtime
  <2>4. mtime_int_o' \in [Harts -> BOOLEAN]
    BY <2>3
  <2>5. mtime_o' = mtime' \/ mtime_o' = mtime_o
    BY <1>2 DEF update_mtime
  <2> QED
    BY <2>1, <2>2, <2>3, <2>4, <2>5 DEF TypeOK
<1>3. CASE ~(started /\ clk > 0)
  BY <1>3 DEF update_mtime, TypeOK
<1> QED
  BY <1>2, <1>3

-----------------------------------------------------------------------------
(* A step brings mtime up to date, leaves the timer alone, changes the clock *)
(* or lets time pass.                                                        *)
Updates == /\ \E base \in Nat : update_mtime(base, mtimecmp')
           /\ mtimecmp' \in Compares
           /\ UNCHANGED <<clk, started, bound>>

LeavesTime == UNCHANGED <<mtimecmp, mtime, in_reset, clk, started, since, timer,
                          mtime_int_o, mtime_o, bound, steady>>

ClockChanges == \E period \in ClkPeriods : update_mtime_clk(period)

LEMMA StepKinds ==
  ASSUME TypeOK, [Next]_vars
  PROVE  Updates \/ LeavesTime \/ ClockChanges \/ Elapse
<1> USE AclintAssumption
<1>0. mtime \in Nat /\ mtimecmp \in Compares /\ NoCompare \in 0..NoCompare
  BY DEF TypeOK, Compares
<1>1. ASSUME NEW t \in MtimeWrites, MtimeWrite(t)
      PROVE  Updates
  BY <1>0, <1>1 DEF MtimeWrite, Updates
<1>2. ASSUME NEW i \in Harts, NEW t \in CmpWrites, MtimecmpWrite(i, t)
      PROVE  Updates
  <2>1. mtimecmp' \in Compares
    BY <1>0, <1>2 DEF MtimecmpWrite, Compares
  <2> QED
    BY <1>0, <1>2, <2>1 DEF MtimecmpWrite, Updates
<1>3. ASSUME NEW i \in Harts, NEW bit \in {0, 1}, MsipWrite(i, bit)
      PROVE  LeavesTime
  BY <1>3 DEF MsipWrite, LeavesTime, timeVars
<1>4. CASE write_irq
  BY <1>4 DEF write_irq, LeavesTime, regVars, timeVars
<1>5. CASE TimerFires
  BY <1>0, <1>5 DEF TimerFires, Updates
<1>6. CASE set_clock_period
  BY <1>0, <1>6 DEF set_clock_period, Updates
<1>7. CASE ResetStart
  <2>1. mtimecmp' \in Compares
    BY <1>0, <1>7 DEF ResetStart, Compares
  <2> QED
    BY <1>7, <2>1 DEF ResetStart, Updates
<1>8. CASE ResetStop
  BY <1>0, <1>8 DEF ResetStop, Updates
<1>9. CASE UNCHANGED vars
  BY <1>9 DEF vars, LeavesTime
<1> QED
  BY <1>1, <1>2, <1>3, <1>4, <1>5, <1>6, <1>7, <1>8, <1>9 DEF Next, ClockChanges

-----------------------------------------------------------------------------
LEMMA InitType == Init => TypeOK
<1> SUFFICES ASSUME Init PROVE TypeOK
  OBVIOUS
<1>1. 0 \in 0..MaxSince /\ NoCompare \in 0..NoCompare
  BY AclintAssumption
<1>2. irq_val \in Seq([hart : Harts, level : {0, 1}]) /\ bound \in BOOLEAN
  BY AclintAssumption DEF Init
<1> QED
  BY <1>1, <1>2 DEF Init, TypeOK

LEMMA Elements ==
  ASSUME NEW S, NEW q \in Seq(S), NEW k \in DOMAIN q
  PROVE  q[k] \in S
OBVIOUS

(* The last entry of a hart. *)
LEMMA LastExists ==
  ASSUME NEW q \in Seq([hart : Harts, level : {0, 1}]), NEW i \in Harts,
         NEW mine, mine = {k \in DOMAIN q : q[k].hart = i}, mine # {}
  PROVE  \E k \in mine : \A m \in mine : m <= k
<1> DEFINE gaps == {Len(q) - k : k \in mine}
<1>1. DOMAIN q = 1..Len(q) /\ Len(q) \in Nat
  OBVIOUS
<1>2. gaps \in SUBSET Nat /\ gaps # {}
  BY <1>1
<1>3. \E g \in gaps : \A h \in gaps : g <= h
  <2> HIDE DEF gaps
  <2> QED
    BY <1>2, LeastNatural
<1>4. PICK k \in mine : \A m \in mine : Len(q) - k <= Len(q) - m
  BY <1>3
<1>5. ASSUME NEW m \in mine
      PROVE  m <= k
  <2>1. m \in Nat /\ k \in Nat /\ Len(q) \in Nat
    BY <1>1
  <2>2. Len(q) - k <= Len(q) - m
    BY <1>4
  <2> QED
    BY <2>1, <2>2
<1> QED
  BY <1>5

LEMMA QueueType ==
  ASSUME NEW q \in Seq([hart : Harts, level : {0, 1}]), NEW i \in Harts, NEW l \in {0, 1}
  PROVE  LastLevel(q, i, l) \in {0, 1}
<1> DEFINE mine == {k \in DOMAIN q : q[k].hart = i}
<1>1. CASE mine = {}
  BY <1>1 DEF LastLevel
<1>2. CASE mine # {}
  <2>1. \E k \in mine : \A m \in mine : m <= k
    BY <1>2, LastExists
  <2>2. (CHOOSE k \in mine : \A m \in mine : m <= k) \in DOMAIN q
    BY <2>1
  <2>3. \A k \in DOMAIN q : q[k].level \in {0, 1}
    <3>1. \A k \in DOMAIN q : q[k] \in [hart : Harts, level : {0, 1}]
      BY Elements
    <3> QED
      BY <3>1
  <2> HIDE DEF mine
  <2>4. LastLevel(q, i, l) = q[CHOOSE k \in mine : \A m \in mine : m <= k].level
    BY <1>2 DEF LastLevel, mine
  <2> QED
    BY <2>2, <2>3, <2>4
<1> QED
  BY <1>1, <1>2

LEMMA NextType == TypeOK /\ [Next]_vars => TypeOK'
<1> SUFFICES ASSUME TypeOK, [Next]_vars PROVE TypeOK'
  OBVIOUS
<1>1. /\ msip' \in [Harts -> {0, 1}] /\ in_reset' \in BOOLEAN
      /\ irq_val' \in Seq([hart : Harts, level : {0, 1}])
      /\ msip_int_o' \in [Harts -> {0, 1}]
  <2>1. CASE write_irq
    <3>1. \A i \in Harts : LastLevel(irq_val, i, msip_int_o[i]) \in {0, 1}
      BY QueueType DEF TypeOK
    <3> QED
      BY <2>1, <3>1 DEF write_irq, regVars, TypeOK
  <2>2. ASSUME NEW i \in Harts, NEW bit \in {0, 1}, MsipWrite(i, bit)
        PROVE  /\ msip' \in [Harts -> {0, 1}] /\ in_reset' = in_reset
               /\ irq_val' \in Seq([hart : Harts, level : {0, 1}])
               /\ msip_int_o' = msip_int_o
    BY <2>2 DEF MsipWrite, TypeOK
  <2>3. CASE ResetStart
    BY <2>3 DEF ResetStart, TypeOK
  <2>4. CASE ResetStop
    BY <2>4 DEF ResetStop, TypeOK
  <2>5. CASE UNCHANGED <<msip, in_reset, irq_val, msip_int_o>>
    BY <2>5 DEF TypeOK
  <2> QED
    BY <2>1, <2>2, <2>3, <2>4, <2>5
       DEF Next, MtimeWrite, MtimecmpWrite, TimerFires, update_mtime_clk,
           set_clock_period, Elapse, regVars, vars, TypeOK
<1>2. CASE Updates
  <2>1. PICK base \in Nat : update_mtime(base, mtimecmp')
    BY <1>2 DEF Updates
  <2>2. mtimecmp' \in Compares
    BY <1>2 DEF Updates
  <2>3. /\ mtime' \in Nat /\ mtime_o' \in Nat
        /\ mtime_int_o' \in [Harts -> BOOLEAN]
        /\ timer' \in Nat \cup {Never}
        /\ since' = 0 /\ steady' \in BOOLEAN
    BY <2>1, <2>2, UpdateType
  <2> QED
    BY <1>1, <1>2, <2>2, <2>3, AclintAssumption DEF Updates, TypeOK, Compares
<1>3. CASE LeavesTime
  BY <1>1, <1>3 DEF LeavesTime, TypeOK
<1>4. CASE ClockChanges
  BY <1>1, <1>4 DEF ClockChanges, update_mtime_clk, regVars, TypeOK
<1>5. CASE Elapse
  BY <1>1, <1>5, AclintAssumption DEF Elapse, regVars, TypeOK, Never
<1> QED
  BY <1>2, <1>3, <1>4, <1>5, StepKinds

(* Registers, outputs and times keep their ranges. *)
THEOREM TypeCorrect == Spec => []TypeOK
<1> QED
  BY InitType, NextType, PTL DEF Spec

-----------------------------------------------------------------------------
(* An update in a running clock sets everything that has to do with time;   *)
(* another one leaves the outputs alone.                                    *)
LEMMA UpdateResult ==
  ASSUME TypeOK, Updates
  PROVE  /\ since' = 0 /\ clk' = clk /\ started' = started /\ bound' = bound
         /\ IF started /\ clk > 0
            THEN /\ \A i \in Harts : mtime_int_o'[i] <=> mtimecmp'[i] <= mtime'
                 /\ timer' = IF bound THEN clk ELSE NextTrigger(mtimecmp', mtime')
                 /\ steady'
            ELSE mtime_int_o' = mtime_int_o /\ steady' = steady
BY DEF Updates, update_mtime, NextTrigger

LEMMA InitArmed == Init => ArmedForTheEarliest
BY DEF Init, ArmedForTheEarliest

LEMMA ArmedStep ==
  ASSUME TypeOK, ArmedForTheEarliest, [Next]_vars
  PROVE  ArmedForTheEarliest'
<1>1. /\ clk \in Nat /\ since \in Nat /\ timer \in Nat \cup {Never}
      /\ TypeOK' /\ mtime' \in Nat /\ mtimecmp' \in Compares
  BY NextType, AclintAssumption DEF TypeOK, Compares
<1>2. CASE Updates
  <2>1. CASE started /\ clk > 0
    <3>1. /\ since' = 0 /\ clk' = clk /\ started' /\ bound' = bound /\ steady'
          /\ timer' = IF bound THEN clk ELSE NextTrigger(mtimecmp', mtime')
      BY <1>2, <2>1, UpdateResult
    <3>2. NextTrigger(mtimecmp', mtime') \in (Nat \ {0}) \cup {Never}
      BY <1>1, <2>1, TriggerType
    <3>3. NextTrigger(mtimecmp, mtime)' = NextTrigger(mtimecmp', mtime')
      BY <3>1 DEF NextTrigger
    <3> QED
      BY <1>1, <2>1, <3>1, <3>2, <3>3 DEF ArmedForTheEarliest, Never
  <2>2. CASE ~(started /\ clk > 0)
    BY <1>2, <2>2, UpdateResult DEF ArmedForTheEarliest
  <2> QED
    BY <2>1, <2>2
<1>3. CASE LeavesTime
  BY <1>3 DEF LeavesTime, ArmedForTheEarliest, NextTrigger, Earliest
<1>4. CASE ClockChanges
  BY <1>4 DEF ClockChanges, update_mtime_clk, ArmedForTheEarliest
<1>5. CASE Elapse
  <2>1. NextTrigger(mtimecmp, mtime)' = NextTrigger(mtimecmp, mtime)
    BY <1>5 DEF Elapse, regVars, NextTrigger, Earliest
  <2>2. timer # Never => since' + timer' = since + timer /\ timer' # Never
    BY <1>1, <1>5 DEF Elapse, Never
  <2>3. started' = TRUE /\ UNCHANGED <<clk, bound, steady>> /\ (timer = Never => timer' = Never)
    BY <1>5 DEF Elapse
  <2> QED
    BY <2>1, <2>2, <2>3 DEF ArmedForTheEarliest
<1> QED
  BY <1>2, <1>3, <1>4, <1>5, StepKinds

(* In an undisturbed clock the event stands for the earliest compare. *)
THEOREM ArmedForTheEarliestHolds == Spec => []ArmedForTheEarliest
<1> QED
  BY InitArmed, ArmedStep, TypeCorrect, PTL DEF Spec

(* The event never costs a fraction of a clock. *)
THEOREM EventOnClockHolds == Spec => []EventOnClock
<1>1. TypeOK /\ ArmedForTheEarliest => EventOnClock
  <2> SUFFICES ASSUME TypeOK, ArmedForTheEarliest, timer # Never, steady, clk > 0
               PROVE  (since + timer) % clk = 0
    BY DEF EventOnClock
  <2>1. clk \in Nat \ {0} /\ mtimecmp \in Compares /\ mtime \in Nat
    BY AclintAssumption DEF TypeOK, Compares
  <2>2. \E k \in Nat : since + timer = clk * k
    <3>1. CASE bound
      BY <2>1, <3>1 DEF ArmedForTheEarliest
    <3>2. CASE ~bound
      <4>1. /\ NextTrigger(mtimecmp, mtime) # Never
            /\ since + timer = NextTrigger(mtimecmp, mtime)
        BY <3>2 DEF ArmedForTheEarliest
      <4>2. /\ ~(Earliest(mtimecmp) <= mtime)
            /\ since + timer = clk * (Earliest(mtimecmp) - mtime)
        BY <3>2, <4>1 DEF NextTrigger
      <4>3. Earliest(mtimecmp) \in Nat
        BY <2>1, EarliestIsLeast, AclintAssumption
      <4>4. Earliest(mtimecmp) - mtime \in Nat
        BY <2>1, <4>2, <4>3
      <4> QED
        BY <4>2, <4>4
    <3> QED
      BY <3>1, <3>2
  <2>3. \A k \in Nat : (clk * k) % clk = 0
    BY <2>1, Clocks
  <2> QED
    BY <2>2, <2>3
<1> QED
  BY <1>1, TypeCorrect, ArmedForTheEarliestHolds, PTL

-----------------------------------------------------------------------------
(* No update, however it comes about, and no lapse of time turns what is     *)
(* reached into unreached unless the clock changes.                          *)
LEMMA ElapsedGrows ==
  ASSUME TypeOK, Elapse
  PROVE  elapsed_clks <= elapsed_clks' /\ elapsed_clks \in Nat /\ elapsed_clks' \in Nat
<1>1. clk \in Nat /\ since \in Nat /\ since' = since + 1 /\ clk' = clk
  BY AclintAssumption DEF TypeOK, Elapse
<1>2. CASE clk = 0
  BY <1>1, <1>2 DEF elapsed_clks
<1>3. CASE clk # 0
  <2>1. clk \in Nat \ {0} /\ since + 1 \in Nat
    BY <1>1, <1>3
  <2>2. since \div clk <= (since + 1) \div clk /\ since \div clk \in Nat
    BY <1>1, <2>1, Clocks
  <2>3. (since + 1) \div clk \in Nat
    BY <2>1, Clocks
  <2> QED
    BY <1>1, <1>3, <2>2, <2>3 DEF elapsed_clks
<1> QED
  BY <1>2, <1>3

(* An interrupt is signalled before its time only by a change of the clock. *)
THEOREM EarlyOnlyByClockHolds == Spec => EarlyOnlyByClock
<1>1. ASSUME TypeOK, TypeOK', ArmedForTheEarliest, [Next]_vars, NEW i \in Harts,
             ~Early(i), Early(i)', clk' = clk
      PROVE  FALSE
  <2>1. clk \in Nat /\ mtime \in Nat /\ mtimecmp[i] \in Nat
        /\ mtime' \in Nat /\ mtimecmp'[i] \in Nat
    BY <1>1, AclintAssumption DEF TypeOK
  <2>2. CASE Updates
    <3>1. CASE started /\ clk > 0
      <4>1. since' = 0 /\ clk' = clk /\ (mtime_int_o'[i] <=> mtimecmp'[i] <= mtime')
        BY <1>1, <2>2, <3>1, UpdateResult
      <4>2. clk \in Nat \ {0} /\ 0 \div clk = 0
        BY <2>1, <3>1, Clocks
      <4>3. elapsed_clks' = 0
        BY <4>1, <4>2 DEF elapsed_clks
      <4> QED
        BY <1>1, <2>1, <4>1, <4>3 DEF Early, Reached
    <3>2. CASE ~(started /\ clk > 0)
      <4>1. mtime_int_o' = mtime_int_o
        BY <1>1, <2>2, <3>2, UpdateResult
      <4> QED
        BY <1>1, <3>2, <4>1 DEF Early, ArmedForTheEarliest
    <3> QED
      BY <3>1, <3>2
  <2>3. CASE LeavesTime
    BY <1>1, <2>3 DEF LeavesTime, Early, Reached, elapsed_clks
  <2>4. CASE ClockChanges
    BY <1>1, <2>4 DEF ClockChanges, update_mtime_clk
  <2>5. CASE Elapse
    <3>1. elapsed_clks <= elapsed_clks' /\ elapsed_clks \in Nat /\ elapsed_clks' \in Nat
      BY <1>1, <2>5, ElapsedGrows
    <3>2. UNCHANGED <<clk, mtimecmp, mtime, mtime_int_o>>
      BY <2>5 DEF Elapse, regVars
    <3> QED
      BY <1>1, <2>1, <3>1, <3>2 DEF Early, Reached
  <2> QED
    BY <1>1, <2>2, <2>3, <2>4, <2>5, StepKinds
<1>2. TypeOK /\ TypeOK' /\ ArmedForTheEarliest /\ [Next]_vars =>
        [\A i \in Harts : ~Early(i) /\ Early(i)' => clk' # clk]_vars
  BY <1>1
<1> QED
  BY <1>2, TypeCorrect, ArmedForTheEarliestHolds, PTL DEF Spec, EarlyOnlyByClock

(* A timer interrupt is missed only after a change of the clock or behind    *)
(* another hart whose compare is reached.                                    *)
THEOREM MissedOnlyBehindAnotherHolds == Spec => MissedOnlyBehindAnother
<1> DEFINE Behind(i) == ~bound /\ \E j \in Harts \ {i} : mtimecmp[j] <= mtime
<1>1. ASSUME TypeOK, TypeOK', ArmedForTheEarliest, ArmedForTheEarliest', [Next]_vars,
             NEW i \in Harts, ~Missed(i), Missed(i)', steady', ~Behind(i)
      PROVE  FALSE
  <2>1. /\ clk \in Nat /\ mtime \in Nat /\ mtimecmp[i] \in Nat /\ since \in Nat
        /\ mtime' \in Nat /\ mtimecmp'[i] \in Nat /\ mtimecmp \in Compares
        /\ timer \in Nat \cup {Never}
    BY <1>1, AclintAssumption DEF TypeOK, Compares
  <2>2. CASE Updates
    <3>1. started' /\ clk' > 0 /\ started' = started /\ clk' = clk
      BY <1>1, <2>2 DEF ArmedForTheEarliest, Updates
    <3>2. since' = 0 /\ (mtime_int_o'[i] <=> mtimecmp'[i] <= mtime')
      BY <1>1, <2>2, <3>1, UpdateResult
    <3>3. clk \in Nat \ {0} /\ 0 \div clk = 0
      BY <2>1, <3>1, Clocks
    <3>4. elapsed_clks' = 0
      BY <3>1, <3>2, <3>3 DEF elapsed_clks
    <3> QED
      BY <1>1, <2>1, <3>2, <3>4 DEF Missed, Reached
  <2>3. CASE LeavesTime
    BY <1>1, <2>3 DEF LeavesTime, Missed, Reached, elapsed_clks
  <2>4. CASE ClockChanges
    BY <1>1, <2>4 DEF ClockChanges, update_mtime_clk
  <2>5. CASE Elapse
    <3>1. /\ UNCHANGED <<clk, mtimecmp, mtime, mtime_int_o, bound, steady>>
          /\ since' = since + 1 /\ timer # 0 /\ since < MaxSince /\ mtime < MaxMtime
          /\ timer # Never => timer' = timer - 1
      BY <2>5 DEF Elapse, regVars
    <3>2. steady /\ started /\ clk > 0 /\ clk \in Nat \ {0}
      BY <1>1, <2>1, <3>1 DEF ArmedForTheEarliest
    <3>3. ~mtime_int_o[i] /\ ~Reached(i) /\ timer' # 0
      BY <1>1, <3>1 DEF Missed
    <3>4. mtimecmp[i] > mtime + since \div clk /\ since \div clk \in Nat
      <4>1. since \div clk \in Nat
        BY <2>1, <3>2, Clocks
      <4> QED
        BY <2>1, <3>2, <3>3, <4>1 DEF Reached, elapsed_clks
    <3>5. mtimecmp[i] <= mtime + since' \div clk
      BY <1>1, <3>1, <3>2 DEF Missed, Reached, elapsed_clks
    <3>6. timer # Never => since' < since + timer
      BY <2>1, <3>1, <3>3
    <3>7. since' \in Nat /\ \A k \in Nat : since' < clk * k => since' \div clk < k
      BY <2>1, <3>1, <3>2, Clocks
    <3>8. since' \div clk \in Nat /\ since' \div clk <= since'
      BY <3>2, <3>7, Clocks
    <3>9. /\ bound => timer # Never /\ since + timer = clk
          /\ ~bound /\ NextTrigger(mtimecmp, mtime) # Never =>
               timer # Never /\ since + timer = NextTrigger(mtimecmp, mtime)
      BY <1>1, <3>2 DEF ArmedForTheEarliest
    <3>10. CASE bound
      <4>1. since' < clk
        BY <2>1, <3>1, <3>6, <3>9, <3>10
      <4>2. since' < clk * 1
        BY <2>1, <4>1
      <4>3. since' \div clk < 1
        BY <3>7, <4>2
      <4> QED
        BY <2>1, <3>4, <3>5, <3>8, <4>3
    <3>11. CASE ~bound
      <4> DEFINE first == Earliest(mtimecmp)
      <4>1. /\ first \in Nat /\ first <= mtimecmp[i]
            /\ \E j \in Harts : first = mtimecmp[j]
        BY <2>1, EarliestIsLeast, AclintAssumption
      <4>2. first > mtime
        BY <1>1, <2>1, <3>4, <3>11, <4>1
      <4>3. CASE first = NoCompare
        <5>1. NoCompare > MaxMtime + MaxSince /\ NoCompare \in Nat
              /\ MaxMtime \in Nat /\ MaxSince \in Nat
          BY AclintAssumption
        <5> QED
          BY <2>1, <3>1, <3>5, <3>8, <4>1, <4>3, <5>1
      <4>4. CASE first # NoCompare
        <5>1. NextTrigger(mtimecmp, mtime) = clk * (first - mtime)
          BY <2>1, <3>11, <4>1, <4>2, <4>4 DEF NextTrigger
        <5> DEFINE k == first - mtime
        <5>2. k \in Nat /\ k > 0
          BY <2>1, <4>1, <4>2
        <5>3. clk * k \in Nat /\ clk * k > 0
          <6> HIDE DEF k
          <6> QED
            BY <3>2, <5>2, Clocks
        <5>4. timer # Never /\ since + timer = clk * k
          <6>1. NextTrigger(mtimecmp, mtime) = clk * k
            BY <5>1
          <6> HIDE DEF k
          <6>2. clk * k # Never
            BY <5>3 DEF Never
          <6> QED
            BY <3>9, <3>11, <6>1, <6>2
        <5>5. since' \div clk < k
          <6> HIDE DEF k
          <6> QED
            BY <3>6, <3>7, <5>2, <5>4
        <5> QED
          BY <2>1, <3>5, <3>8, <4>1, <5>5
      <4> QED
        BY <4>3, <4>4
    <3> QED
      BY <3>10, <3>11
  <2> QED
    BY <1>1, <2>2, <2>3, <2>4, <2>5, StepKinds
<1>2. TypeOK /\ TypeOK' /\ ArmedForTheEarliest /\ ArmedForTheEarliest' /\ [Next]_vars =>
        [\A i \in Harts : ~Missed(i) /\ Missed(i)' =>
           \/ ~steady'
           \/ ~bound /\ \E j \in Harts \ {i} : mtimecmp[j] <= mtime]_vars
  BY <1>1
<1> QED
  BY <1>2, TypeCorrect, ArmedForTheEarliestHolds, PTL DEF Spec, MissedOnlyBehindAnother

-----------------------------------------------------------------------------
(* An update that does not change mtime keeps what a read returns. *)
LEMMA UpdateKeepsTime ==
  ASSUME TypeOK, ArmedForTheEarliest, NEW cmp, update_mtime(mtime, cmp), clk' = clk
  PROVE  mtime' + elapsed_clks' = mtime + elapsed_clks
<1>1. clk \in Nat /\ mtime \in Nat /\ since \in Nat /\ since' = 0
  BY AclintAssumption DEF TypeOK, update_mtime
<1>2. CASE clk = 0
  BY <1>1, <1>2 DEF update_mtime, elapsed_clks
<1>3. CASE clk # 0
  <2>1. clk \in Nat \ {0} /\ clk > 0
    BY <1>1, <1>3
  <2>2. 0 \div clk = 0 /\ since \div clk \in Nat
    BY <1>1, <2>1, Clocks
  <2>3. elapsed_clks' = 0 /\ elapsed_clks = since \div clk
    BY <1>1, <1>3, <2>2 DEF elapsed_clks
  <2>4. CASE started
    <3>1. mtime' = mtime + elapsed_clks
      BY <2>1, <2>4 DEF update_mtime
    <3> QED
      BY <1>1, <2>2, <2>3, <3>1
  <2>5. CASE ~started
    <3>1. since = 0 /\ mtime' = mtime
      BY <2>5 DEF ArmedForTheEarliest, update_mtime
    <3> QED
      BY <2>2, <2>3, <3>1
  <2> QED
    BY <2>4, <2>5
<1> QED
  BY <1>2, <1>3

LEMMA ElapsedType == TypeOK => elapsed_clks \in Nat
<1> SUFFICES ASSUME TypeOK PROVE elapsed_clks \in Nat
  OBVIOUS
<1>1. clk \in Nat /\ since \in Nat
  BY AclintAssumption DEF TypeOK
<1>2. CASE clk = 0
  BY <1>2 DEF elapsed_clks
<1>3. CASE clk # 0
  <2>1. since \div clk \in Nat
    BY <1>1, <1>3, Clocks
  <2> QED
    BY <1>3, <2>1 DEF elapsed_clks
<1> QED
  BY <1>2, <1>3

LEMMA SumLeq ==
  ASSUME NEW a \in Nat, NEW b \in Nat, NEW c \in Nat, b <= c
  PROVE  a + b <= a + c
OBVIOUS

LEMMA SumType == ASSUME NEW a \in Nat, NEW b \in Nat PROVE a + b \in Nat
OBVIOUS

LEMMA GuardedLeq ==
  ASSUME NEW p \in BOOLEAN, NEW q \in BOOLEAN, NEW x \in Nat, NEW y \in Nat,
         x <= y, q => p
  PROVE  ~((IF q THEN 0 ELSE y) < (IF p THEN 0 ELSE x))
OBVIOUS

(* A read of mtime never returns less than an earlier one did, unless mtime *)
(* was written, the registers were reset or the clock changed.              *)
THEOREM ReadsMonotoneHolds == Spec => ReadsMonotone
<1> DEFINE Cause == \/ \E t \in MtimeWrites : MtimeWrite(t)
                    \/ ResetStart
                    \/ clk' # clk
<1>1. ASSUME TypeOK, TypeOK', ArmedForTheEarliest, [Next]_vars, ~Cause
      PROVE  ~(ReadMtime' < ReadMtime)
  <2>1. elapsed_clks \in Nat /\ elapsed_clks' \in Nat
    <3>1. elapsed_clks \in Nat /\ (TypeOK => elapsed_clks \in Nat)'
      BY <1>1, ElapsedType, PTL
    <3> QED
      BY <1>1, <3>1
  <2>2. mtime \in Nat /\ mtime' \in Nat /\ in_reset \in BOOLEAN /\ in_reset' \in BOOLEAN
    BY <1>1 DEF TypeOK
  <2>3. clk' = clk /\ ~ResetStart /\ ~\E t \in MtimeWrites : MtimeWrite(t)
    BY <1>1
  <2>4. ASSUME NEW cmp, update_mtime(mtime, cmp)
        PROVE  mtime' + elapsed_clks' = mtime + elapsed_clks
    BY <1>1, <2>3, <2>4, UpdateKeepsTime
  <2> HIDE DEF Cause
  <2>5. mtime + elapsed_clks <= mtime' + elapsed_clks' /\ (in_reset' => in_reset)
    <3>1. ASSUME mtime' + elapsed_clks' = mtime + elapsed_clks, in_reset' => in_reset
          PROVE  mtime + elapsed_clks <= mtime' + elapsed_clks' /\ (in_reset' => in_reset)
      <4>1. mtime + elapsed_clks \in Nat
        BY <2>1, <2>2, SumType
      <4> QED
        BY <3>1, <4>1
    <3>2. CASE TimerFires \/ set_clock_period \/ ResetStop
      <4>1. update_mtime(mtime, mtimecmp) /\ (in_reset' => in_reset)
        BY <3>2 DEF TimerFires, set_clock_period, ResetStop
      <4> QED
        BY <2>4, <3>1, <4>1
    <3>3. CASE UNCHANGED <<mtime, since, clk, in_reset>>
      <4>1. elapsed_clks' = elapsed_clks /\ mtime' = mtime /\ in_reset' = in_reset
        BY <3>3 DEF elapsed_clks
      <4> QED
        BY <3>1, <4>1
    <3>4. CASE Elapse
      <4>1. elapsed_clks <= elapsed_clks'
        BY <1>1, <3>4, ElapsedGrows
      <4>2. mtime' = mtime /\ in_reset' = in_reset
        BY <3>4 DEF Elapse, regVars
      <4> QED
        <5>1. mtime + elapsed_clks <= mtime + elapsed_clks'
          BY <2>1, <2>2, <4>1, SumLeq
        <5> QED
          BY <4>2, <5>1
    <3>5. CASE \E i \in Harts, t \in CmpWrites : MtimecmpWrite(i, t)
      <4>1. update_mtime(mtime, mtimecmp') /\ in_reset' = in_reset
        BY <3>5 DEF MtimecmpWrite
      <4> QED
        BY <2>4, <3>1, <4>1
    <3> QED
      BY <1>1, <2>3, <3>2, <3>3, <3>4, <3>5
         DEF Next, MsipWrite, write_irq, update_mtime_clk, regVars, timeVars, vars
  <2> QED
    <3>1. ReadMtime = IF in_reset THEN 0 ELSE mtime + elapsed_clks
      BY DEF ReadMtime
    <3>2. ReadMtime' = IF in_reset' THEN 0 ELSE mtime' + elapsed_clks'
      BY DEF ReadMtime
    <3>3. mtime + elapsed_clks \in Nat
      BY <2>1, <2>2, SumType
    <3>4. mtime' + elapsed_clks' \in Nat
      BY <2>1, <2>2, SumType
    <3>5. ~((IF in_reset' THEN 0 ELSE mtime' + elapsed_clks')
              < (IF in_reset THEN 0 ELSE mtime + elapsed_clks))
      BY <2>2, <2>5, <3>3, <3>4, GuardedLeq
    <3> QED
      BY <3>1, <3>2, <3>5
<1>2. TypeOK /\ TypeOK' /\ ArmedForTheEarliest /\ [Next]_vars =>
        [ReadMtime' < ReadMtime =>
           \/ \E t \in MtimeWrites : MtimeWrite(t)
           \/ ResetStart
           \/ clk' # clk]_vars
  BY <1>1
<1> QED
  BY <1>2, TypeCorrect, ArmedForTheEarliestHolds, PTL DEF Spec, ReadsMonotone

-----------------------------------------------------------------------------
Queues == Seq([hart : Harts, level : {0, 1}])

(* What is in flight: an entry at the end overrides those of its hart before. *)
LEMMA LastOfAppend ==
  ASSUME NEW q \in Queues, NEW e \in [hart : Harts, level : {0, 1}],
         NEW i \in Harts, NEW l \in {0, 1}
  PROVE  LastLevel(Append(q, e), i, l) = IF e.hart = i THEN e.level ELSE LastLevel(q, i, l)
<1> DEFINE r == Append(q, e)
           mine == {k \in DOMAIN q : q[k].hart = i}
           longer == {k \in DOMAIN r : r[k].hart = i}
           n == Len(q)
<1>1. /\ n \in Nat /\ DOMAIN q = 1..n /\ DOMAIN r = 1..(n + 1)
      /\ r[n + 1] = e /\ \A k \in 1..n : r[k] = q[k]
  BY DEF Queues
<1> HIDE DEF r, n
<1>2. CASE e.hart = i
  <2>1. n + 1 \in longer /\ \A k \in longer : k <= n + 1 /\ k \in Nat
    BY <1>1, <1>2
  <2>2. (CHOOSE k \in longer : \A m \in longer : m <= k) = n + 1
    <3>1. \A k \in longer : (\A m \in longer : m <= k) => k = n + 1
      BY <1>1, <2>1
    <3> HIDE DEF longer
    <3> QED
      BY <2>1, <3>1
  <2>3. LastLevel(r, i, l) = e.level
    BY <1>1, <2>1, <2>2 DEF LastLevel
  <2> QED
    BY <1>2, <2>3 DEF r
<1>3. CASE e.hart # i
  <2>1. longer = mine
    BY <1>1, <1>3
  <2>2. CASE mine = {}
    BY <1>3, <2>1, <2>2 DEF LastLevel, r
  <2>3. CASE mine # {}
    <3> DEFINE last == CHOOSE k \in mine : \A m \in mine : m <= k
    <3>1. last \in mine
      BY <2>3, LastExists DEF Queues
    <3>2. r[last] = q[last]
      BY <1>1, <3>1
    <3>3. LastLevel(r, i, l) = r[last].level /\ LastLevel(q, i, l) = q[last].level
      <4>1. LastLevel(r, i, l) = r[last].level
        BY <2>1, <2>3 DEF LastLevel
      <4>2. LastLevel(q, i, l) = q[last].level
        BY <2>3 DEF LastLevel
      <4> QED
        BY <4>1, <4>2
    <3> QED
      BY <1>3, <3>2, <3>3 DEF r
  <2> QED
    BY <2>2, <2>3
<1> QED
  BY <1>2, <1>3

LEMMA LastOfEmpty ==
  ASSUME NEW i, NEW l
  PROVE  LastLevel(<<>>, i, l) = l
BY DEF LastLevel

(* A hart's software interrupt follows its msip, unless a reset cleared it. *)
THEOREM MsipStaleOnlyByResetHolds == Spec => MsipStaleOnlyByReset
<1>1. ASSUME TypeOK, [Next]_vars, ~ResetStart, NEW i \in Harts, ~MsipStale(i)
      PROVE  ~MsipStale(i)'
  <2>1. irq_val \in Queues /\ msip_int_o \in [Harts -> {0, 1}] /\ msip \in [Harts -> {0, 1}]
    BY <1>1 DEF TypeOK, Queues
  <2>2. ASSUME NEW j \in Harts, NEW bit \in {0, 1}, MsipWrite(j, bit)
        PROVE  ~MsipStale(i)'
    <3> DEFINE e == [hart |-> j, level |-> bit]
    <3>1. /\ irq_val' = Append(irq_val, e) /\ msip_int_o' = msip_int_o
          /\ msip'[i] = IF j = i THEN bit ELSE msip[i]
      BY <2>1, <2>2 DEF MsipWrite
    <3>2. e \in [hart : Harts, level : {0, 1}] /\ e.hart = j /\ e.level = bit
      OBVIOUS
    <3>3. msip_int_o[i] \in {0, 1}
      BY <2>1
    <3> HIDE DEF e
    <3>4. LastLevel(Append(irq_val, e), i, msip_int_o[i])
            = IF j = i THEN bit ELSE LastLevel(irq_val, i, msip_int_o[i])
      BY <2>1, <3>2, <3>3, LastOfAppend
    <3> QED
      BY <1>1, <3>1, <3>4 DEF MsipStale
  <2>3. CASE write_irq
    <3>1. /\ irq_val' = <<>> /\ msip' = msip
          /\ msip_int_o'[i] = LastLevel(irq_val, i, msip_int_o[i])
      BY <2>3 DEF write_irq, regVars
    <3> QED
      BY <1>1, <3>1, LastOfEmpty DEF MsipStale
  <2>4. CASE UNCHANGED <<msip, irq_val, msip_int_o>>
    BY <1>1, <2>4 DEF MsipStale
  <2> QED
    BY <1>1, <2>2, <2>3, <2>4
       DEF Next, MtimeWrite, MtimecmpWrite, TimerFires, update_mtime_clk, set_clock_period,
           ResetStop, Elapse, regVars, vars
<1>2. TypeOK /\ [Next]_vars =>
        [\A i \in Harts : ~MsipStale(i) /\ MsipStale(i)' => ResetStart]_vars
  BY <1>1
<1> QED
  BY <1>2, TypeCorrect, PTL DEF Spec, MsipStaleOnlyByReset

=============================================================================
