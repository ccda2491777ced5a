----------------------------- MODULE TimersProofs -----------------------------
(***************************************************************************)
(* Theorems of MCTimers: the five timers and the clock generation, for any *)
(* periods, limits, prescalers, scales and widths of a counter.  Each      *)
(* block has a lemma about its steps; a block that rests keeps what it has.*)
(***************************************************************************)
EXTENDS MCTimers, NatLemmas, FiniteSetTheorems, TLAPS

-----------------------------------------------------------------------------
(* Products of times and numbers of periods. *)
LEMMA Product ==
  ASSUME NEW a \in Nat, NEW b \in Nat
  PROVE  /\ a * b \in Nat
         /\ a > 0 /\ b > 0 => a * b > 0 /\ a * b >= b
         /\ \A c \in Nat : c <= b => a * c <= a * b
<1>1. a * b \in Nat
  OBVIOUS
<1>2. ASSUME a > 0, b > 0 PROVE a * b > 0 /\ a * b >= b
  BY <1>2
<1>3. ASSUME NEW c \in Nat, c <= b PROVE a * c <= a * b
  <2>1. b - c \in Nat /\ b = c + (b - c)
    BY <1>3
  <2>2. a * b = a * c + a * (b - c)
    BY <2>1, Distributes
  <2>3. a * (b - c) \in Nat /\ a * c \in Nat
    BY <2>1
  <2> QED
    BY <1>1, <2>2, <2>3
<1> QED
  BY <1>1, <1>2, <1>3

(* What is left of a time when whole periods are taken from it. *)
LEMMA RemainderOf ==
  ASSUME NEW t \in Nat, NEW p \in Nat, p > 0
  PROVE  /\ t % p \in 0..(p - 1) /\ t % p \in Nat
         /\ t \div p \in Nat
         /\ t = p * (t \div p) + (t % p)
OBVIOUS

-----------------------------------------------------------------------------
(* The SiFive CLINT. *)
ClintInv == Clint!TypeOK /\ Clint!EventIsArmed

(* What an update of mtime leaves behind, for a clock that runs. *)
LEMMA ClintUpdates ==
  ASSUME NEW period \in Nat, period > 0, NEW value \in Nat, NEW time \in Nat, NEW passed \in Nat,
         mtime' = time, age' = passed % period, mtime_irq' = (value <= mtime'),
         mtime_evt' = IF value > mtime' THEN period * (value - mtime') ELSE Clint!Never
  PROVE  /\ mtime' \in Nat /\ age' \in Nat /\ mtime_irq' \in BOOLEAN
         /\ mtime_evt' \in Nat \cup {Clint!Never}
         /\ value > mtime' => /\ mtime_evt' # Clint!Never
                            /\ mtime_evt' + age' < period * (value - mtime') + period
         /\ mtime_irq' <=> (value <= mtime')
<1>1. passed % period \in 0..(period - 1)
  BY RemainderOf
<1>2. ASSUME value > time PROVE period * (value - time) \in Nat
  <2>1. value - time \in Nat
    BY <1>2
  <2> QED
    BY <2>1, Product
<1>3. mtime' \in Nat /\ age' \in Nat /\ age' < period
  BY <1>1
<1>4. mtime_irq' \in BOOLEAN /\ (mtime_irq' <=> (value <= mtime'))
  <2>1. mtime_irq' = TRUE \/ mtime_irq' = FALSE
    OBVIOUS
  <2> QED
    BY <2>1
<1>5. ASSUME value > time
      PROVE  /\ mtime_evt' = period * (value - time)
             /\ mtime_evt' \in Nat /\ mtime_evt' # Clint!Never
             /\ mtime_evt' + age' < period * (value - mtime') + period
  <2>1. mtime_evt' = period * (value - time) /\ mtime' = time
    BY <1>5
  <2> QED
    BY <1>2, <1>3, <1>5, <2>1 DEF Clint!Never
<1>6. ~(value > time) => mtime_evt' = Clint!Never
  OBVIOUS
<1> QED
  BY <1>3, <1>4, <1>5, <1>6

LEMMA ClintStep == ASSUME ClintInv, Clint!Next PROVE ClintInv' /\ Clint!StaleOnlyByResetOrStop
<1> USE DEF ClintInv, Clint!TypeOK, Clint!EventIsArmed, Clint!StaleOnlyByResetOrStop, Clint!Stale
<1>1. clk \in Nat /\ mtimecmp \in Nat
  BY TimersAssumption
<1>2. Clint!Elapsed \in Nat
  <2>1. clk > 0 => age \div clk \in Nat
    BY <1>1, RemainderOf
  <2> QED
    BY <2>1 DEF Clint!Elapsed
<1>3. ASSUME NEW time \in Nat, NEW value \in 0..MaxMtime, Clint!update_mtime(time, value),
             mtimecmp' = value, UNCHANGED <<clk, msip, msip_irq, clint_in_reset>>
      PROVE  ClintInv' /\ Clint!StaleOnlyByResetOrStop
  <2>1. CASE clk > 0
    <3>1. time + Clint!Elapsed \in Nat /\ value \in Nat
      BY <1>2, TimersAssumption
    <3>2. /\ mtime' = time + Clint!Elapsed /\ age' = age % clk /\ mtime_irq' = (value <= mtime')
          /\ mtime_evt' = IF value > mtime' THEN clk * (value - mtime') ELSE Clint!Never
      BY <1>3, <2>1 DEF Clint!update_mtime
    <3>3. /\ mtime' \in Nat /\ age' \in Nat /\ mtime_irq' \in BOOLEAN
          /\ mtime_evt' \in Nat \cup {Clint!Never}
          /\ value > mtime' => /\ mtime_evt' # Clint!Never
                             /\ mtime_evt' + age' < clk * (value - mtime') + clk
          /\ mtime_irq' <=> (value <= mtime')
      BY <1>1, <2>1, <3>1, <3>2, ClintUpdates
    <3> QED
      BY <1>3, <2>1, <3>3
  <2>2. CASE ~(clk > 0)
    <3>1. clk = 0 /\ mtime' = time /\ age' = 0 /\ UNCHANGED <<mtime_irq, mtime_evt>>
      BY <1>1, <1>3, <2>2 DEF Clint!update_mtime
    <3> QED
      BY <1>3, <3>1
  <2> QED
    BY <2>1, <2>2
<1>4. ASSUME NEW v \in 0..MaxMtime, Clint!MtimecmpWrite(v) \/ Clint!MtimeWrite(v)
      PROVE  ClintInv' /\ Clint!StaleOnlyByResetOrStop
  <2>1. v \in Nat
    BY TimersAssumption
  <2> QED
    BY <1>3, <1>4, <2>1 DEF Clint!MtimecmpWrite, Clint!MtimeWrite, Clint!Write
<1>5. CASE Clint!MtimeRead
  BY <1>3, <1>5 DEF Clint!MtimeRead
<1>6. ASSUME NEW v \in BOOLEAN, Clint!MsipWrite(v)
      PROVE  ClintInv' /\ Clint!StaleOnlyByResetOrStop
  BY <1>6 DEF Clint!MsipWrite
<1>7. ASSUME NEW period \in Periods, Clint!clock_cb(period)
      PROVE  ClintInv' /\ Clint!StaleOnlyByResetOrStop
  <2> DEFINE time == mtime + Clint!Elapsed
             rest == IF clk > 0 THEN age % clk ELSE 0
  <2>1. period \in Nat /\ time \in Nat /\ rest \in Nat
    BY <1>1, <1>2, TimersAssumption, RemainderOf
  <2>2. clk' = period /\ UNCHANGED <<mtimecmp, msip, msip_irq, clint_in_reset>>
    BY <1>7 DEF Clint!clock_cb
  <2>3. CASE period > 0
    <3>1. /\ mtime' = time + (rest \div period) /\ age' = rest % period
          /\ mtime_irq' = (mtimecmp <= mtime')
          /\ mtime_evt' = IF mtimecmp > mtime' THEN period * (mtimecmp - mtime') ELSE Clint!Never
      BY <1>7, <2>3 DEF Clint!clock_cb
    <3> HIDE DEF time, rest
    <3>2. rest \div period \in Nat
      BY <2>1, <2>3
    <3>3. time + (rest \div period) \in Nat
      BY <2>1, <3>2
    <3>4. /\ mtime' \in Nat /\ age' \in Nat /\ mtime_irq' \in BOOLEAN
          /\ mtime_evt' \in Nat \cup {Clint!Never}
          /\ mtimecmp > mtime' => /\ mtime_evt' # Clint!Never
                                  /\ mtime_evt' + age' < period * (mtimecmp - mtime') + period
          /\ mtime_irq' <=> (mtimecmp <= mtime')
      BY <1>1, <2>1, <2>3, <3>1, <3>3, ClintUpdates
    <3> QED
      BY <2>2, <3>4
  <2>4. CASE ~(period > 0)
    <3>1. period = 0 /\ mtime' = time /\ age' = 0
      BY <1>7, <2>1, <2>4 DEF Clint!clock_cb
    <3>2. CASE clk > 0
      <4>1. /\ mtime_irq' = (mtimecmp <= time)
            /\ mtime_evt' = IF mtimecmp > time THEN clk * (mtimecmp - time) ELSE Clint!Never
        BY <1>7, <2>4, <3>2 DEF Clint!clock_cb
      <4> HIDE DEF time
      <4>2. mtime_evt' \in Nat \cup {Clint!Never}
        <5>1. mtimecmp > time => mtimecmp - time \in Nat
          BY <1>1, <2>1
        <5> QED
          BY <1>1, <4>1, <5>1, Product
      <4> QED
        BY <2>1, <2>2, <3>1, <4>1, <4>2
    <3>3. CASE ~(clk > 0)
      <4>1. clk = 0 /\ UNCHANGED <<mtime_irq, mtime_evt>>
        BY <1>1, <1>7, <2>4, <3>3 DEF Clint!clock_cb
      <4> HIDE DEF time
      <4> QED
        BY <2>1, <2>2, <3>1, <4>1
    <3> QED
      BY <3>2, <3>3
  <2> QED
    BY <2>3, <2>4
<1>8. ASSUME NEW v \in BOOLEAN, Clint!reset_cb(v)
      PROVE  ClintInv' /\ Clint!StaleOnlyByResetOrStop
  <2>1. CASE v
    <3>1. /\ clint_in_reset' = TRUE /\ mtime' = 0 /\ mtimecmp' = 0 /\ msip' = FALSE
          /\ mtime_irq' = FALSE /\ msip_irq' = FALSE /\ UNCHANGED <<clk, age, mtime_evt>>
      BY <1>8, <2>1 DEF Clint!reset_cb
    <3>2. 0 \in 0..MaxMtime
      BY TimersAssumption
    <3>3. Clint!EventIsArmed' /\ Clint!StaleOnlyByResetOrStop
      BY <3>1
    <3>4. Clint!TypeOK'
      BY <3>1, <3>2
    <3> QED
      BY <3>3, <3>4
  <2>2. CASE ~v
    BY <1>8, <2>2 DEF Clint!reset_cb
  <2> QED
    BY <2>1, <2>2
<1>9. CASE Clint!EventFires
  <2>1. CASE clk > 0
    BY <1>3, <1>9, <2>1 DEF Clint!EventFires
  <2>2. CASE ~(clk > 0)
    <3>1. clk = 0
      BY <1>1, <2>2
    <3> QED
      BY <1>9, <2>2, <3>1 DEF Clint!EventFires
  <2> QED
    BY <2>1, <2>2
<1>10. CASE Clint!Tick
  BY <1>1, <1>10 DEF Clint!Tick, Clint!Never
<1> QED
  BY <1>4, <1>5, <1>6, <1>7, <1>8, <1>9, <1>10 DEF Clint!Next

LEMMA ClintRests == ASSUME UNCHANGED clint PROVE (ClintInv => ClintInv') /\ Clint!StaleOnlyByResetOrStop
BY DEF clint, ClintInv, Clint!TypeOK, Clint!EventIsArmed, Clint!StaleOnlyByResetOrStop, Clint!Stale

LEMMA ClintStarts == ASSUME Clint!Init PROVE ClintInv
<1>1. 0 \in 0..MaxMtime
  BY TimersAssumption
<1>2. Clint!TypeOK
  BY <1>1 DEF Clint!Init, Clint!TypeOK
<1> QED
  BY <1>2 DEF Clint!Init, ClintInv, Clint!EventIsArmed

-----------------------------------------------------------------------------
(* The clock generation. *)
PrciInv == /\ Prci!TypeOK /\ Prci!ReadySettles
           /\ hfrosccfg = [en |-> hfrosccfg.en, rdy |-> hfrosccfg.rdy, div |-> hfrosccfg.div]
PrciStepOK == Prci!StaleOnlyByReset /\ Prci!XoscReadyIsWritten

LEMMA PrciNotify ==
  ASSUME NEW evt \in {Prci!Never} \cup 0..Delay, NEW delay \in {0, Delay}
  PROVE  Prci!Notify(evt, delay) \in 0..Delay
BY TimersAssumption DEF Prci!Notify, Prci!Never

LEMMA PrciStep == ASSUME PrciInv, Prci!Next PROVE PrciInv' /\ PrciStepOK
<1> USE DEF PrciInv, PrciStepOK, Prci!TypeOK, Prci!ReadySettles, Prci!StaleOnlyByReset, Prci!Stale,
            Prci!XoscReadyIsWritten
<1>1. \A n \in 0..Delay : n # Prci!Never
  BY TimersAssumption DEF Prci!Never
<1>2. 0 \in {0, Delay} /\ Delay \in {0, Delay} /\ 0 \in Dividers /\ 0 \in 0..Delay
  BY TimersAssumption
<1>3. CASE Prci!HfrosccfgWrite
  <2>1. PICK o \in Prci!Osc, d \in Dividers :
          /\ hfrosccfg' = [en |-> o.en, rdy |-> o.rdy, div |-> d]
          /\ hfrosc_evt' = Prci!Notify(hfrosc_evt, IF hfrosccfg'.en THEN Delay ELSE 0)
    BY <1>3 DEF Prci!HfrosccfgWrite
  <2>2. hfrosc_evt' \in 0..Delay
    BY <1>2, <2>1, PrciNotify
  <2>3. o.en \in BOOLEAN /\ o.rdy \in BOOLEAN
    BY DEF Prci!Osc
  <2>4. hfrosccfg'.en \in BOOLEAN /\ hfrosccfg'.rdy \in BOOLEAN /\ hfrosccfg'.div \in Dividers
    BY <2>1, <2>3
  <2>5. hfrosccfg' = [en |-> hfrosccfg'.en, rdy |-> hfrosccfg'.rdy, div |-> hfrosccfg'.div]
    BY <2>1
  <2> QED
    BY <1>1, <1>3, <2>2, <2>4, <2>5 DEF Prci!HfrosccfgWrite
<1>4. CASE Prci!HfxosccfgWrite
  <2>1. hfxosc_evt' \in 0..Delay
    BY <1>2, <1>4, PrciNotify DEF Prci!HfxosccfgWrite
  <2> QED
    BY <1>4, <2>1 DEF Prci!HfxosccfgWrite, Prci!Selected
<1>5. CASE Prci!PllcfgWrite
  <2>1. pllcfg' \in Prci!Pll
    BY <1>5 DEF Prci!PllcfgWrite, Prci!Pll
  <2>2. hfclk_o' = Prci!Selected(hfrosccfg', pllcfg', plloutdiv')
    BY <1>5 DEF Prci!PllcfgWrite, Prci!Selected
  <2> QED
    BY <1>5, <2>1, <2>2 DEF Prci!PllcfgWrite
<1>6. CASE Prci!PlloutdivWrite
  <2>1. hfclk_o' = Prci!Selected(hfrosccfg', pllcfg', plloutdiv')
    BY <1>6 DEF Prci!PlloutdivWrite, Prci!Selected
  <2> QED
    BY <1>6, <2>1 DEF Prci!PlloutdivWrite
<1>7. CASE Prci!hfrosc_en_cb
  <2>1. hfrosccfg' = [en |-> hfrosccfg.en, rdy |-> hfrosccfg.en, div |-> hfrosccfg.div]
    BY <1>7 DEF Prci!hfrosc_en_cb
  <2>2. hfclk_o' = Prci!Selected(hfrosccfg', pllcfg', plloutdiv')
    BY <1>7, <2>1 DEF Prci!hfrosc_en_cb, Prci!Selected
  <2> QED
    BY <1>7, <2>1, <2>2 DEF Prci!hfrosc_en_cb
<1>8. CASE Prci!HfxoscEvent
  BY <1>8 DEF Prci!HfxoscEvent, Prci!Selected
<1>9. CASE Prci!hfxosc_cb
  <2>1. hfxosc_evt' \in 0..Delay
    BY <1>2, <1>9, PrciNotify DEF Prci!hfxosc_cb
  <2>2. hfxosccfg' \in Prci!Osc /\ hfxosccfg'.rdy = FALSE
    BY <1>9 DEF Prci!hfxosc_cb, Prci!Osc
  <2> QED
    BY <1>9, <2>1, <2>2 DEF Prci!hfxosc_cb, Prci!Selected
<1>10. CASE Prci!reset_cb
  <2>1. CASE prci_rst'
    <3>1. /\ hfrosccfg' = Prci!ResetRosc /\ hfxosccfg' = Prci!ResetXosc /\ pllcfg' = Prci!ResetPll
          /\ plloutdiv' = 0 /\ UNCHANGED <<hfxosc_evt, hfrosc_evt, hfclk_o, erst_n, rst_o>>
          /\ prci_rst' \in BOOLEAN
      BY <1>10, <2>1 DEF Prci!reset_cb
    <3>2. hfxosccfg' \in Prci!Osc /\ hfxosccfg'.rdy = FALSE /\ pllcfg' \in Prci!Pll
      BY <1>2, <3>1 DEF Prci!ResetXosc, Prci!ResetPll, Prci!Osc, Prci!Pll
    <3>3. /\ hfrosccfg'.en = FALSE /\ hfrosccfg'.rdy = FALSE /\ hfrosccfg'.div = 0
          /\ hfrosccfg' = [en |-> hfrosccfg'.en, rdy |-> hfrosccfg'.rdy, div |-> hfrosccfg'.div]
      BY <3>1 DEF Prci!ResetRosc
    <3> QED
      BY <1>2, <2>1, <3>1, <3>2, <3>3
  <2>2. CASE ~prci_rst'
    <3>1. hfxosc_evt' \in 0..Delay
      BY <1>2, <1>10, <2>2, PrciNotify DEF Prci!reset_cb
    <3> QED
      BY <1>10, <2>2, <3>1 DEF Prci!reset_cb, Prci!Selected
  <2> QED
    BY <2>1, <2>2
<1>11. CASE Prci!AonReset
  BY <1>11 DEF Prci!AonReset, Prci!Selected
<1>12. CASE Prci!Tick
  <2>1. ASSUME NEW evt \in {Prci!Never} \cup 0..Delay, evt # 0
        PROVE  LET next == IF evt = Prci!Never THEN Prci!Never ELSE evt - 1
               IN  next \in {Prci!Never} \cup 0..Delay /\ (next = Prci!Never <=> evt = Prci!Never)
    BY <2>1, TimersAssumption DEF Prci!Never
  <2> QED
    BY <1>12, <2>1 DEF Prci!Tick, Prci!Selected
<1> QED
  BY <1>3, <1>4, <1>5, <1>6, <1>7, <1>8, <1>9, <1>10, <1>11, <1>12 DEF Prci!Next

LEMMA PrciRests == ASSUME UNCHANGED prci PROVE (PrciInv => PrciInv') /\ PrciStepOK
BY DEF prci, PrciInv, PrciStepOK, Prci!TypeOK, Prci!ReadySettles, Prci!StaleOnlyByReset, Prci!Stale,
       Prci!Selected, Prci!XoscReadyIsWritten

LEMMA PrciStarts == ASSUME Prci!Init PROVE PrciInv
<1>1. 0 \in Dividers /\ Delay \in 0..Delay
  BY TimersAssumption
<1>2. Prci!ResetXosc \in Prci!Osc /\ Prci!ResetPll \in Prci!Pll
  BY <1>1 DEF Prci!ResetXosc, Prci!ResetPll, Prci!Osc, Prci!Pll
<1> QED
  BY <1>1, <1>2 DEF Prci!Init, PrciInv, Prci!TypeOK, Prci!ReadySettles, Prci!ResetRosc

-----------------------------------------------------------------------------
(* The MINRES timer: its prescaler is not enabled, and no tick is due, at the *)
(* very start, and the answers heard from a counter are its present one.      *)
CountInv ==
  /\ Count!TypeOK /\ Count!PrescalerRuns
  /\ now = 0 => ~presc_enable /\ tick_evt = Count!Never
  /\ tick_evt # Count!Never => tick_evt >= 2 * last_tick
  /\ \A i \in Idx : heard[i] \subseteq {Count!Answer(i)}
  /\ heard \in [Idx -> SUBSET BOOLEAN]
CountStepOK == /\ Count!AsleepOnlyAtStart /\ Count!TicksThinOut /\ Count!AnswersAllTicksAlike
               /\ Count!RepeatsExplained

(* What has been heard from the counters, after a step that keeps them. *)
CountersHeard ==
  /\ \A i \in Idx : heard'[i] \subseteq {Count!Answer(i)'}
  /\ heard' \in [Idx -> SUBSET BOOLEAN]
  /\ interrupt_o' \in [Idx -> BOOLEAN]

LEMMA HeardAlike == ASSUME CountersHeard PROVE Count!AnswersAllTicksAlike
<1> SUFFICES ASSUME NEW i \in Idx, heard'[i] = BOOLEAN PROVE FALSE
  BY DEF Count!AnswersAllTicksAlike
<1>1. TRUE \in heard'[i] /\ FALSE \in heard'[i]
  OBVIOUS
<1>2. TRUE = Count!Answer(i)' /\ FALSE = Count!Answer(i)'
  BY <1>1 DEF CountersHeard
<1> QED
  BY <1>2

LEMMA CountersKept ==
  ASSUME CountInv, UNCHANGED <<counters, overflow, interrupt_o, heard>>
  PROVE  CountersHeard
BY DEF CountInv, CountersHeard, Count!Answer, Count!TypeOK

LEMMA CounterAnswers ==
  ASSUME CountInv, NEW tick, NEW clears, NEW ticks, Count!update_counter(tick, clears, ticks),
         UNCHANGED <<counters, overflow>>
  PROVE  CountersHeard
<1>1. ASSUME NEW i \in Idx PROVE Count!Answer(i) \in BOOLEAN /\ (Count!Answer(i))' = Count!Answer(i)
  BY DEF Count!Answer
<1> DEFINE counts(i) == now > 0 /\ Count!Ticked(i, tick, clears, ticks)
<1>2. /\ interrupt_o' = [i \in Idx |-> IF now = 0 THEN interrupt_o[i] ELSE counts(i) /\ Count!Answer(i)]
      /\ heard' = [i \in Idx |-> IF counts(i) THEN heard[i] \cup {Count!Answer(i)} ELSE heard[i]]
  BY DEF Count!update_counter
<1> HIDE DEF counts
<1>3. interrupt_o \in [Idx -> BOOLEAN] /\ heard \in [Idx -> SUBSET BOOLEAN]
  BY DEF CountInv, Count!TypeOK
<1>4. interrupt_o' \in [Idx -> BOOLEAN]
  <2>1. ASSUME NEW i \in Idx
        PROVE (IF now = 0 THEN interrupt_o[i] ELSE counts(i) /\ Count!Answer(i)) \in BOOLEAN
    <3>1. interrupt_o[i] \in BOOLEAN
      BY <1>3
    <3> QED
      BY <3>1
  <2> QED
    BY <1>2, <2>1
<1>5. heard' \in [Idx -> SUBSET BOOLEAN]
  BY <1>1, <1>2, <1>3
<1>6. ASSUME NEW i \in Idx PROVE heard'[i] \subseteq {(Count!Answer(i))'}
  <2>1. heard[i] \subseteq {Count!Answer(i)}
    BY DEF CountInv
  <2> QED
    BY <1>1, <1>2, <2>1
<1> QED
  BY <1>4, <1>5, <1>6 DEF CountersHeard

(* The clocks that an update counts, and the times it may wait. *)
LEMMA ClocksCounted ==
  ASSUME CountInv
  PROVE  Count!Prescaled \in Nat /\ Count!Rest \in Nat
<1>1. /\ now \in Nat /\ last_update \in 0..now /\ last_clk_period \in Nat /\ clk_remainder \in Nat
      /\ Parts \in Nat /\ presc_counter \in Nat
  BY TimersAssumption DEF CountInv, Count!TypeOK
<1>2. now - last_update \in Nat
  BY <1>1
<1> DEFINE passed == now - last_update
           part   == (passed % last_clk_period) * (Parts \div last_clk_period)
<1>3. CASE last_clk_period > 0
  <2> HIDE DEF passed
  <2>1. /\ passed \div last_clk_period \in Nat /\ passed % last_clk_period \in Nat
        /\ Parts \div last_clk_period \in Nat
    BY <1>1, <1>2, <1>3, RemainderOf DEF passed
  <2>2. part \in Nat
    BY <2>1, Product
  <2> HIDE DEF part
  <2>3. Count!Rest = clk_remainder + part /\ Count!Clocks = passed \div last_clk_period
    BY <1>3 DEF Count!Rest, Count!Clocks, part, passed
  <2>4. Count!Rest \in Nat /\ Count!Clocks \in Nat
    BY <1>1, <2>1, <2>2, <2>3
  <2> QED
    BY <1>1, <2>4 DEF Count!Prescaled, Count!pulses
<1>4. CASE ~(last_clk_period > 0)
  <2>1. Count!Rest \in Nat /\ Count!Clocks \in Nat
    BY <1>1, <1>4 DEF Count!Rest, Count!Clocks
  <2> QED
    BY <1>1, <2>1 DEF Count!Prescaled, Count!pulses
<1> QED
  BY <1>3, <1>4

LEMMA WaitsAreDelays ==
  ASSUME CountInv, NEW count_ \in Nat, NEW next \in Count!Waits(count_)
  PROVE  next \in Nat /\ (next = 0 => clk_period = 0 \/ count_ > limit)
<1>1. clk_period \in Nat /\ limit \in Nat /\ MaxTime \in Nat
  BY TimersAssumption DEF CountInv, Count!TypeOK
<1>2. CASE count_ < limit
  <2> DEFINE n == limit - count_
  <2>1. n \in Nat /\ n > 0 /\ next = n * clk_period
    BY <1>1, <1>2 DEF Count!Waits
  <2> HIDE DEF n
  <2>2. n * clk_period \in Nat /\ (clk_period > 0 => n * clk_period > 0)
    BY <1>1, <2>1, Product
  <2> QED
    BY <1>1, <2>1, <2>2
<1>3. CASE ~(count_ < limit)
  BY <1>1, <1>3 DEF Count!Waits
<1> QED
  BY <1>2, <1>3

LEMMA PrescalerUpdates ==
  ASSUME CountInv, Count!update_prescaler
  PROVE  CountInv' /\ CountStepOK
<1>1. /\ presc_evt = now
      /\ UNCHANGED <<now, clk_period, limit, enable, clear, overflow, counters, interrupt_o, timer_rst,
                     heard>>
  BY DEF Count!update_prescaler, Count!regVars
<1>2. /\ now \in Nat /\ now \in 0..MaxTime /\ last_update \in 0..now /\ last_tick \in 0..now
      /\ clk_period \in Nat /\ last_clk_period \in Nat /\ clk_remainder \in Nat
      /\ limit \in Nat /\ presc_counter \in Nat /\ presc_reset \in BOOLEAN /\ presc_enable \in BOOLEAN
      /\ tick_evt \in Nat \cup {-1} /\ Count!Never = -1
      /\ interrupt_o \in [Idx -> BOOLEAN] /\ timer_rst \in BOOLEAN
  BY TimersAssumption DEF CountInv, Count!TypeOK, Count!Never
<1>3. /\ tick_evt # -1 => tick_evt >= now /\ tick_evt >= 2 * last_tick
      /\ now = 0 => ~presc_enable /\ tick_evt = -1
  BY DEF CountInv, Count!PrescalerRuns, Count!Never
<1>4. CountersHeard /\ Count!AnswersAllTicksAlike
  BY <1>1, CountersKept, HeardAlike
<1>5. ASSUME /\ last_update' \in 0..now /\ last_tick' \in 0..now
             /\ last_clk_period' \in Nat /\ clk_remainder' \in Nat
             /\ presc_counter' \in Nat /\ presc_reset' \in BOOLEAN /\ presc_enable' \in BOOLEAN
             /\ presc_evt' \in Nat \cup {-1} /\ tick_evt' \in Nat \cup {-1}
             /\ presc_evt' # -1 => presc_evt' >= now
             /\ tick_evt' # -1 => tick_evt' >= now /\ tick_evt' >= 2 * last_tick'
             /\ presc_enable' => presc_evt' # -1
             /\ now = 0 => ~presc_enable' /\ tick_evt' = -1
      PROVE  CountInv'
  <2>1. Count!TypeOK'
    BY <1>1, <1>2, <1>5 DEF Count!TypeOK, Count!Never
  <2>2. Count!PrescalerRuns'
    BY <1>1, <1>5 DEF Count!PrescalerRuns, Count!Never
  <2>3. (now = 0 => ~presc_enable /\ tick_evt = Count!Never)'
    BY <1>1, <1>5 DEF Count!Never
  <2>4. (tick_evt # Count!Never => tick_evt >= 2 * last_tick)'
    BY <1>5 DEF Count!Never
  <2> QED
    BY <1>4, <2>1, <2>2, <2>3, <2>4 DEF CountInv, CountersHeard
<1>6. CASE Count!Prescale
  <2>1. Count!Prescaled \in Nat /\ Count!Rest \in Nat /\ Parts \in Nat
    BY ClocksCounted, TimersAssumption
  <2>2. PICK next \in Count!Waits(Count!Prescaled) :
          /\ presc_evt' = now + next
          /\ tick_evt' = IF Count!Prescaled = limit THEN tick_evt
                         ELSE Count!Notify(tick_evt, now + (now + next))
    BY <1>6 DEF Count!Prescale
  <2>3. next \in Nat /\ (next = 0 => clk_period = 0 \/ Count!Prescaled > limit)
    BY <2>1, WaitsAreDelays
  <2>4. /\ now > 0 /\ limit > 0 /\ presc_counter' = Count!Prescaled
        /\ presc_reset' = (Count!Prescaled = limit) /\ presc_enable' = TRUE
        /\ clk_remainder' = IF Count!Rest > Parts THEN Count!Rest - Parts ELSE Count!Rest
        /\ last_update' = now /\ last_clk_period' = clk_period /\ last_tick' = last_tick
    BY <1>6 DEF Count!Prescale
  <2>5. tick_evt' = tick_evt \/ tick_evt' = now + (now + next)
    BY <2>2 DEF Count!Notify
  <2>6. tick_evt' \in Nat \cup {-1} /\ (tick_evt' # -1 => tick_evt' >= now /\ tick_evt' >= 2 * last_tick)
    BY <1>2, <1>3, <2>3, <2>5
  <2>7. presc_evt' \in Nat /\ presc_evt' >= now /\ (presc_evt' = now => next = 0)
    BY <1>2, <2>2, <2>3
  <2>8. clk_remainder' \in Nat
    BY <2>1, <2>4
  <2>9. CountInv'
    BY <1>2, <1>5, <2>1, <2>4, <2>6, <2>7, <2>8
  <2>10. Count!RepeatsExplained
    BY <2>3, <2>4, <2>7 DEF Count!RepeatsExplained
  <2>11. Count!AsleepOnlyAtStart
    BY <1>2, <2>7 DEF Count!AsleepOnlyAtStart, Count!Asleep
  <2>12. Count!TicksThinOut
    BY <1>2, <1>3, <2>5, <2>3 DEF Count!TicksThinOut
  <2> QED
    BY <1>4, <2>9, <2>10, <2>11, <2>12 DEF CountStepOK
<1>7. CASE Count!PassOn
  <2>1. /\ now > 0 /\ limit = 0 /\ tick_evt' = now /\ presc_evt' = -1 /\ presc_enable' = FALSE
        /\ last_update' = now /\ last_clk_period' = clk_period /\ last_tick' = 0
        /\ UNCHANGED <<clk_remainder, presc_counter, presc_reset>>
    BY <1>2, <1>7 DEF Count!PassOn
  <2>2. CountInv'
    <3>1. /\ last_update' \in 0..now /\ last_tick' \in 0..now /\ last_clk_period' \in Nat
          /\ clk_remainder' \in Nat /\ presc_counter' \in Nat
      BY <1>2, <2>1
    <3>2. presc_reset' \in BOOLEAN /\ presc_enable' \in BOOLEAN /\ ~presc_enable'
      BY <1>2, <2>1
    <3>3. /\ presc_evt' = -1 /\ tick_evt' \in Nat /\ tick_evt' >= now /\ tick_evt' >= 2 * last_tick'
          /\ ~(now = 0)
      BY <1>2, <2>1
    <3> QED
      BY <1>5, <3>1, <3>2, <3>3
  <2>3. Count!RepeatsExplained /\ Count!AsleepOnlyAtStart /\ Count!TicksThinOut
    BY <1>1, <1>2, <2>1 DEF Count!RepeatsExplained, Count!AsleepOnlyAtStart, Count!Asleep, Count!TicksThinOut
  <2> QED
    BY <1>4, <2>2, <2>3 DEF CountStepOK
<1>8. CASE Count!ReturnAtStart
  <2>1. /\ now = 0 /\ presc_evt' = -1
        /\ UNCHANGED <<last_update, clk_remainder, last_clk_period, presc_counter, presc_reset,
                       presc_enable, tick_evt, last_tick>>
    BY <1>2, <1>8 DEF Count!ReturnAtStart, Count!tickVars
  <2>2. CountInv'
    BY <1>2, <1>3, <1>5, <2>1
  <2>3. Count!RepeatsExplained /\ Count!AsleepOnlyAtStart /\ Count!TicksThinOut
    BY <1>2, <1>3, <2>1 DEF Count!RepeatsExplained, Count!AsleepOnlyAtStart, Count!TicksThinOut
  <2> QED
    BY <1>4, <2>2, <2>3 DEF CountStepOK
<1> QED
  BY <1>6, <1>7, <1>8 DEF Count!update_prescaler

(* Every other step: nothing is armed for the past, and the ticks are heard. *)
LEMMA CountStep == ASSUME CountInv, Count!Next PROVE CountInv' /\ CountStepOK
<1>1. now \in Nat /\ MaxTime \in Nat /\ Count!Never = -1
  BY TimersAssumption DEF Count!Never, CountInv, Count!TypeOK
<1>2. Count!RepeatsExplained
  BY PrescalerUpdates DEF CountStepOK, Count!RepeatsExplained
<1>3. ASSUME CountersHeard, Count!Asleep' => Count!Asleep,
             (tick_evt = now /\ tick_evt' = -1) => now >= 2 * last_tick
      PROVE  CountStepOK
  BY <1>1, <1>2, <1>3, HeardAlike DEF CountStepOK, Count!AsleepOnlyAtStart, Count!TicksThinOut
<1>4. ASSUME CountersHeard, Count!TypeOK', Count!PrescalerRuns',
             now' = 0 => ~presc_enable' /\ tick_evt' = -1,
             tick_evt' # -1 => tick_evt' >= 2 * last_tick'
      PROVE  CountInv'
  BY <1>1, <1>4 DEF CountInv, CountersHeard, Count!Never
<1>5. ASSUME limit' \in Nat, clk_period' \in Nat, presc_evt' = now,
             UNCHANGED <<now, last_update, last_clk_period, clk_remainder, presc_counter, presc_reset,
                         presc_enable, tick_evt, last_tick, overflow, counters, interrupt_o, timer_rst,
                         heard>>
      PROVE  CountInv' /\ CountStepOK
  <2>1. CountersHeard
    BY <1>5, CountersKept
  <2>2. Count!TypeOK'
    BY <1>1, <1>5 DEF CountInv, Count!TypeOK
  <2>3. Count!PrescalerRuns'
    BY <1>1, <1>5 DEF CountInv, Count!PrescalerRuns
  <2>4. CountInv'
    BY <1>1, <1>4, <1>5, <2>1, <2>2, <2>3 DEF CountInv
  <2>5. CountStepOK
    BY <1>1, <1>3, <1>5, <2>1 DEF CountInv, Count!TypeOK, Count!Asleep
  <2> QED
    BY <2>4, <2>5
<1>6. ASSUME NEW v \in Limits, Count!PrescalerWrite(v) PROVE CountInv' /\ CountStepOK
  <2>1. /\ limit' = v /\ v \in Nat /\ presc_evt' = now /\ clk_period \in Nat
        /\ UNCHANGED <<now, last_update, clk_period, last_clk_period, clk_remainder, presc_counter,
                       presc_reset, presc_enable, tick_evt, last_tick, overflow, counters, interrupt_o,
                       timer_rst, heard>>
    BY <1>6, TimersAssumption
    DEF Count!PrescalerWrite, Count!clkVars, Count!tickVars, Count!regVars, CountInv, Count!TypeOK
  <2> QED
    BY <1>5, <2>1
<1>7. ASSUME NEW period \in ClkPeriods, Count!set_clock_period(period) PROVE CountInv' /\ CountStepOK
  <2>1. /\ clk_period' = period /\ period \in Nat /\ presc_evt' = now /\ limit \in Nat
        /\ UNCHANGED <<now, last_update, limit, last_clk_period, clk_remainder, presc_counter,
                       presc_reset, presc_enable, tick_evt, last_tick, overflow, counters, interrupt_o,
                       timer_rst, heard>>
    BY <1>7, TimersAssumption
    DEF Count!set_clock_period, Count!tickVars, Count!regVars, CountInv, Count!TypeOK
  <2> QED
    BY <1>5, <2>1
<1>8. ASSUME CountersHeard, limit' \in {0, limit}, timer_rst' \in BOOLEAN,
             UNCHANGED <<now, last_update, clk_period, last_clk_period, clk_remainder, presc_counter,
                         presc_reset, presc_enable, presc_evt, tick_evt, last_tick>>
      PROVE  CountInv' /\ CountStepOK
  <2>1. Count!TypeOK'
    BY <1>1, <1>8 DEF CountInv, Count!TypeOK, CountersHeard
  <2>2. Count!PrescalerRuns'
    BY <1>1, <1>8 DEF CountInv, Count!PrescalerRuns
  <2>3. CountInv'
    BY <1>1, <1>4, <1>8, <2>1, <2>2 DEF CountInv
  <2>4. CountStepOK
    BY <1>1, <1>3, <1>8 DEF CountInv, Count!TypeOK, Count!Asleep
  <2> QED
    BY <2>3, <2>4
<1>9. timer_rst \in BOOLEAN /\ interrupt_o \in [Idx -> BOOLEAN] /\ heard \in [Idx -> SUBSET BOOLEAN]
  BY DEF CountInv, Count!TypeOK
<1>10. ASSUME NEW clears, NEW ticks, Count!Tick(clears, ticks) PROVE CountInv' /\ CountStepOK
  <2>1. /\ tick_evt = now /\ tick_evt' = -1 /\ last_tick' = now
        /\ UNCHANGED <<now, last_update, clk_period, last_clk_period, clk_remainder, limit,
                       presc_counter, presc_reset, presc_enable, presc_evt, overflow, counters, timer_rst>>
    BY <1>1, <1>10 DEF Count!Tick, Count!clkVars, Count!prescVars, Count!regVars
  <2>2. CountersHeard
    BY <1>10, <2>1, CounterAnswers DEF Count!Tick
  <2>3. Count!TypeOK'
    BY <1>1, <2>1, <2>2 DEF CountInv, Count!TypeOK, CountersHeard
  <2>4. Count!PrescalerRuns'
    BY <1>1, <2>1 DEF CountInv, Count!PrescalerRuns
  <2>5. CountInv'
    BY <1>1, <1>4, <2>1, <2>2, <2>3, <2>4 DEF CountInv
  <2>6. CountStepOK
    BY <1>1, <1>3, <2>1, <2>2 DEF CountInv, Count!Asleep
  <2> QED
    BY <2>5, <2>6
<1>11. ASSUME NEW clears, NEW ticks, Count!PinsRise(clears, ticks) PROVE CountInv' /\ CountStepOK
  <2>1. UNCHANGED <<now, last_update, clk_period, last_clk_period, clk_remainder, limit,
                    presc_counter, presc_reset, presc_enable, presc_evt, tick_evt, last_tick, overflow,
                    counters, timer_rst>>
    BY <1>11 DEF Count!PinsRise, Count!clkVars, Count!prescVars, Count!tickVars, Count!regVars
  <2>2. CountersHeard
    BY <1>11, <2>1, CounterAnswers DEF Count!PinsRise
  <2> QED
    BY <1>8, <1>9, <2>1, <2>2
<1>12. ASSUME NEW i \in Idx, Count!CounterWrite(i) PROVE CountInv' /\ CountStepOK
  <2>1. /\ UNCHANGED <<now, last_update, clk_period, last_clk_period, clk_remainder, limit,
                       presc_counter, presc_reset, presc_enable, presc_evt, tick_evt, last_tick,
                       counters, timer_rst>>
        /\ interrupt_o' = [interrupt_o EXCEPT ![i] = IF now = 0 THEN @ ELSE FALSE]
    BY <1>12 DEF Count!CounterWrite, Count!clkVars, Count!prescVars, Count!tickVars
  <2>2. interrupt_o' \in [Idx -> BOOLEAN]
    BY <1>9, <2>1
  <2>3. CASE UNCHANGED <<overflow, heard>>
    <3>1. CountersHeard
      BY <2>1, <2>2, <2>3 DEF CountInv, CountersHeard, Count!Answer
    <3> QED
      BY <1>8, <1>9, <2>1, <3>1
  <2>4. CASE /\ overflow' \in {[overflow EXCEPT ![i] = v] : v \in Overflows}
             /\ heard' = [heard EXCEPT ![i] = {}]
    <3>1. ASSUME NEW j \in Idx PROVE heard'[j] \subseteq {(Count!Answer(j))'}
      <4>1. CASE j = i
        BY <1>9, <2>4, <4>1
      <4>2. CASE j # i
        <5>1. PICK v \in Overflows : overflow' = [overflow EXCEPT ![i] = v]
          BY <2>4
        <5>2. overflow'[j] = overflow[j] /\ heard'[j] = heard[j]
          BY <1>9, <2>4, <4>2, <5>1
        <5>3. (Count!Answer(j))' = Count!Answer(j)
          BY <2>1, <5>2 DEF Count!Answer
        <5> QED
          BY <5>2, <5>3 DEF CountInv
      <4> QED
        BY <4>1, <4>2
    <3>2. CountersHeard
      BY <1>9, <2>2, <2>4, <3>1 DEF CountersHeard
    <3> QED
      BY <1>8, <1>9, <2>1, <3>2
  <2> QED
    BY <1>12, <2>3, <2>4 DEF Count!CounterWrite
<1>13. CASE Count!reset_cb
  <2>1. /\ timer_rst' = ~timer_rst /\ interrupt_o' = [i \in Idx |-> FALSE]
        /\ UNCHANGED <<now, last_update, clk_period, last_clk_period, clk_remainder, presc_counter,
                       presc_reset, presc_enable, presc_evt, tick_evt, last_tick, counters>>
        /\ IF timer_rst' THEN limit' = 0 /\ heard' = [i \in Idx |-> {}]
           ELSE UNCHANGED <<limit, overflow, heard>>
    BY <1>13 DEF Count!reset_cb, Count!clkVars, Count!tickVars, Count!regVars
  <2>2. timer_rst' \in BOOLEAN /\ interrupt_o' \in [Idx -> BOOLEAN] /\ limit' \in {0, limit}
    BY <2>1
  <2>3. CASE timer_rst'
    <3>1. heard' = [i \in Idx |-> {}]
      BY <2>1, <2>3
    <3>2. CountersHeard
      BY <2>2, <3>1 DEF CountersHeard
    <3> QED
      BY <1>8, <2>1, <2>2, <3>2
  <2>4. CASE ~timer_rst'
    <3>1. UNCHANGED <<overflow, heard, counters>>
      BY <2>1, <2>4
    <3>2. CountersHeard
      BY <2>2, <3>1 DEF CountInv, CountersHeard, Count!Answer
    <3> QED
      BY <1>8, <2>1, <2>2, <3>2
  <2> QED
    BY <2>3, <2>4
<1>14. CASE Count!Time
  <2>1. /\ now < MaxTime /\ presc_evt # now /\ tick_evt # now /\ now' = now + 1
        /\ UNCHANGED <<last_update, clk_period, last_clk_period, clk_remainder, limit, presc_counter,
                       presc_reset, presc_enable, presc_evt, tick_evt, last_tick, overflow, counters,
                       interrupt_o, timer_rst, heard>>
    BY <1>14 DEF Count!Time, Count!clkVars, Count!prescVars, Count!tickVars, Count!regVars
  <2>2. CountersHeard
    BY <2>1, CountersKept
  <2>3. Count!TypeOK'
    BY <1>1, <2>1 DEF CountInv, Count!TypeOK
  <2>4. Count!PrescalerRuns'
    BY <1>1, <2>1 DEF CountInv, Count!TypeOK, Count!PrescalerRuns
  <2>5. CountInv'
    BY <1>1, <1>4, <2>1, <2>2, <2>3, <2>4 DEF CountInv
  <2>6. CountStepOK
    BY <1>1, <1>3, <2>1, <2>2 DEF Count!Asleep
  <2> QED
    BY <2>5, <2>6
<1> QED
  BY <1>6, <1>7, <1>10, <1>11, <1>12, <1>13, <1>14, PrescalerUpdates DEF Count!Next

LEMMA CountRests == ASSUME UNCHANGED count PROVE CountInv => CountInv' /\ CountStepOK
<1> SUFFICES ASSUME CountInv PROVE CountInv' /\ CountStepOK
  OBVIOUS
<1>1. CountersHeard
  BY CountersKept DEF count
<1>2. CountInv'
  <2>1. Count!TypeOK' /\ Count!PrescalerRuns'
    BY DEF count, CountInv, Count!TypeOK, Count!PrescalerRuns
  <2> QED
    BY <1>1, <2>1 DEF count, CountInv, CountersHeard
<1>3. Count!RepeatsExplained
  BY PrescalerUpdates DEF CountStepOK, Count!RepeatsExplained
<1>4. Count!AsleepOnlyAtStart
  BY DEF count, Count!AsleepOnlyAtStart, Count!Asleep
<1>5. Count!TicksThinOut
  <2>1. tick_evt' = tick_evt /\ now \in Nat /\ Count!Never = -1
    BY TimersAssumption DEF count, CountInv, Count!TypeOK, Count!Never
  <2> QED
    BY <2>1 DEF Count!TicksThinOut
<1> QED
  BY <1>1, <1>2, <1>3, <1>4, <1>5, HeardAlike DEF CountStepOK

LEMMA CountStarts == ASSUME Count!Init PROVE CountInv
<1>1. 0 \in 0..MaxTime /\ 0 \in 0..0
  BY TimersAssumption
<1>2. interrupt_o \in [Idx -> BOOLEAN] /\ heard = [i \in Idx |-> {}]
  BY DEF Count!Init
<1>3. heard \in [Idx -> SUBSET BOOLEAN] /\ \A i \in Idx : heard[i] = {}
  BY <1>2
<1>4. Count!TypeOK
  BY <1>1, <1>2 DEF Count!Init, Count!TypeOK
<1>5. /\ now = 0 /\ ~presc_enable /\ tick_evt = Count!Never /\ presc_evt = Count!Never
  BY DEF Count!Init
<1> QED
  BY <1>3, <1>4, <1>5 DEF CountInv, Count!PrescalerRuns

-----------------------------------------------------------------------------
(* A channel of the Pulpino timer. *)
ChanStepOK == Chan!NeverIsUnderflow /\ Chan!UnheardOnlyByPulse

LEMMA ChanWaits ==
  ASSUME Chan!TypeOK, NEW f \in Nat, NEW n \in Nat
  PROVE  /\ Chan!Duration(n * f - 1) \in Nat \cup {Chan!Never}
         /\ Chan!Duration(n * f - 1) = Chan!Never => n = 0 \/ f = 0
<1>1. n * f \in Nat /\ (n > 0 /\ f > 0 => n * f > 0)
  BY Product
<1> DEFINE t == n * f
<1>2. t \in Nat /\ (n > 0 /\ f > 0 => t > 0)
  BY <1>1
<1> HIDE DEF t
<1>3. Chan!Duration(t - 1) \in Nat \cup {Chan!Never} /\ (Chan!Duration(t - 1) = Chan!Never => t = 0)
  BY <1>2 DEF Chan!Duration, Chan!Never
<1> QED
  BY <1>2, <1>3 DEF t

LEMMA ChanStep == ASSUME Chan!TypeOK, Chan!Next PROVE Chan!TypeOK' /\ ChanStepOK
<1> USE DEF Chan!TypeOK, ChanStepOK, Chan!NeverIsUnderflow, Chan!UnheardOnlyByPulse, Chan!Unheard
<1>1. /\ Chan!Factor \in Nat /\ Chan!Factor > 0 /\ pre \in Nat /\ MaxTimer \in Nat
      /\ Chan!Never = -1 /\ \A p \in Prescalers : p \in Nat
  BY TimersAssumption DEF Chan!Factor, Chan!Never
<1>2. CASE Chan!RegisterWrite
  <2>1. tcmp' \in 0..MaxTimer /\ ten' \in BOOLEAN /\ pre' \in Prescalers /\ event_q' \in 0..QueueBound
    BY <1>2, TimersAssumption DEF Chan!RegisterWrite
  <2>2. (notified' = TRUE /\ pulse = "none") \/ (notified' = FALSE /\ pulse # "none")
    <3>1. notified' = (pulse = "none")
      BY <1>2 DEF Chan!RegisterWrite
    <3>2. notified' = TRUE \/ notified' = FALSE
      BY ONLY <3>1
    <3> QED
      BY ONLY <3>1, <3>2
  <2> QED
    BY <1>2, <2>1, <2>2 DEF Chan!RegisterWrite
<1>3. CASE Chan!TimerWrite
  BY <1>3 DEF Chan!TimerWrite
<1>4. CASE Chan!Update
  <2>1. PICK other \in 0..MaxTimer, otherPre \in Prescalers :
          timer' = (other + t_passed * otherPre) % (MaxTimer + 1)
    BY <1>4 DEF Chan!Update, Chan!get_act_time
  <2>2. timer' \in 0..MaxTimer
    <3>1. otherPre \in Nat /\ t_passed \in Nat /\ other \in Nat
      BY <1>1
    <3>2. t_passed * otherPre \in Nat
      BY <3>1, Product
    <3>3. other + t_passed * otherPre \in Nat
      BY <3>1, <3>2
    <3> DEFINE sum == other + t_passed * otherPre
    <3> HIDE DEF sum
    <3>4. sum % (MaxTimer + 1) \in 0..((MaxTimer + 1) - 1)
      BY <1>1, <3>3, RemainderOf DEF sum
    <3> QED
      BY <1>1, <2>1, <3>4 DEF sum
  <2>3. t_wait' \in Nat
    <3>1. t_wait' = IF timer' >= tcmp THEN 0 ELSE (tcmp - timer') * Chan!Factor
      BY <1>4 DEF Chan!Update
    <3>2. CASE timer' >= tcmp
      BY <3>1, <3>2
    <3>3. CASE ~(timer' >= tcmp)
      <4>1. tcmp - timer' \in Nat
        <5>1. tcmp \in Nat /\ timer' \in Nat
          BY <1>1, <2>2
        <5>2. \A a, b \in Nat : ~(b >= a) => a - b \in Nat
          OBVIOUS
        <5> QED
          BY <3>3, <5>1, <5>2
      <4> DEFINE rest == tcmp - timer'
      <4>2. t_wait' = rest * Chan!Factor
        BY <3>1, <3>3
      <4> HIDE DEF rest
      <4> QED
        BY <1>1, <4>1, <4>2, Product DEF rest
    <3> QED
      BY <3>2, <3>3
  <2>4. /\ event_q' = 0 /\ notified' = FALSE /\ t_passed' = 0 /\ 0 \in 0..MaxTimer /\ 0 \in 0..QueueBound
        /\ UNCHANGED <<ch, tcmp, ten, pre, pulse>>
    BY <1>4, TimersAssumption DEF Chan!Update
  <2>5. Chan!TypeOK'
    BY <2>2, <2>3, <2>4
  <2>6. ChanStepOK
    BY <1>1, <2>3, <2>4
  <2> QED
    BY <2>5, <2>6
<1>5. CASE Chan!TimerEvent
  <2>1. /\ event_q = 0 /\ notified' = FALSE /\ t_passed' = 0 /\ 0 \in 0..MaxTimer
        /\ UNCHANGED <<ch, tcmp, ten, pre, event_q>>
    BY <1>5, TimersAssumption DEF Chan!TimerEvent
  <2>2. CASE timer < tcmp
    <3> DEFINE f == IF ch = "A" THEN pre ELSE Chan!Factor
               n == MaxTimer - tcmp
    <3>1. timer' = tcmp /\ pulse' = "compare" /\ t_wait' = Chan!Duration(n * f - 1)
      BY <1>5, <2>2 DEF Chan!TimerEvent
    <3>2. f \in Nat /\ n \in Nat /\ (f = 0 => ch = "A" /\ pre = 0) /\ (n = 0 => tcmp = MaxTimer)
      BY <1>1
    <3> HIDE DEF f, n
    <3>3. /\ t_wait' \in Nat \cup {Chan!Never}
          /\ t_wait' = Chan!Never => n = 0 \/ f = 0
      BY <3>1, <3>2, ChanWaits
    <3>4. t_wait' = Chan!Never => tcmp = MaxTimer \/ (ch = "A" /\ pre = 0)
      BY <3>2, <3>3
    <3>5. Chan!TypeOK'
      BY <2>1, <3>1, <3>3
    <3>6. ChanStepOK
      BY <2>1, <2>2, <3>4
    <3> QED
      BY <3>5, <3>6
  <2>3. CASE ~(timer < tcmp)
    <3>1. /\ timer' = 0 /\ pulse' = "overflow"
          /\ t_wait' = IF tcmp # 0 THEN Chan!Duration(tcmp * Chan!Factor - 1) ELSE Chan!Factor
      BY <1>5, <2>3 DEF Chan!TimerEvent
    <3>2. tcmp \in Nat
      BY <1>1
    <3>3. t_wait' \in Nat \cup {Chan!Never} /\ t_wait' # Chan!Never
      <4>1. /\ Chan!Duration(tcmp * Chan!Factor - 1) \in Nat \cup {Chan!Never}
            /\ Chan!Duration(tcmp * Chan!Factor - 1) = Chan!Never => tcmp = 0 \/ Chan!Factor = 0
        BY <1>1, <3>2, ChanWaits
      <4> QED
        BY <1>1, <3>1, <4>1
    <3>4. Chan!TypeOK'
      BY <2>1, <3>1, <3>3
    <3>5. ChanStepOK
      BY <2>1, <3>3
    <3> QED
      BY <3>4, <3>5
  <2> QED
    BY <2>2, <2>3
<1>6. CASE Chan!PulseEnds
  BY <1>6 DEF Chan!PulseEnds
<1>7. CASE Chan!Tick
  <2>1. (t_passed + 1) % (MaxTimer + 1) \in 0..MaxTimer
    <3>1. t_passed + 1 \in Nat /\ MaxTimer + 1 \in Nat /\ MaxTimer + 1 > 0
      BY <1>1
    <3>2. (t_passed + 1) % (MaxTimer + 1) \in 0..((MaxTimer + 1) - 1)
      BY <3>1, RemainderOf
    <3> QED
      BY <1>1, <3>2
  <2>2. ten => t_wait # 0
    BY <1>7 DEF Chan!Tick, Chan!Awake
  <2>3. t_wait' \in Nat \cup {Chan!Never} /\ (t_wait' = Chan!Never => t_wait = Chan!Never)
    BY <1>1, <1>7, <2>2 DEF Chan!Tick
  <2> QED
    BY <1>7, <2>1, <2>3 DEF Chan!Tick
<1> QED
  BY <1>2, <1>3, <1>4, <1>5, <1>6, <1>7 DEF Chan!Next

LEMMA ChanRests == ASSUME UNCHANGED chan PROVE (Chan!TypeOK => Chan!TypeOK') /\ ChanStepOK
BY DEF chan, Chan!TypeOK, ChanStepOK, Chan!NeverIsUnderflow, Chan!UnheardOnlyByPulse, Chan!Unheard

LEMMA ChanStarts == ASSUME Chan!Init PROVE Chan!TypeOK
<1>1. 0 \in 0..MaxTimer /\ 0 \in 0..QueueBound /\ 0 \in Prescalers /\ MaxTimer \in Nat
  BY TimersAssumption
<1> QED
  BY <1>1 DEF Chan!Init, Chan!TypeOK

-----------------------------------------------------------------------------
(* The PWM. *)
Configs == [scale : Scales \cup {0}, zerocmp : BOOLEAN, always : BOOLEAN, oneshot : BOOLEAN,
            ip : SUBSET (0..3)]
PwmInv == /\ Pwm!TypeOK /\ cfg \in Configs
          /\ at_zero => update_evt = Pwm!Never /\ cfg.ip = {} /\ cmpip_o = {}
PwmArmed(c) == (c = cfg /\ ~Pwm!Unarmed) \/ ~at_zero => ~Pwm!Unarmed'
PwmStepOK == /\ Pwm!StandsStillExplained /\ Pwm!IpStaleOnlyByReset
             /\ Pwm!UnarmedOnlyAtStart

(* A scale is a factor. *)
LEMMA ScaleFactor ==
  ASSUME NEW scale \in Scales \cup {0}
  PROVE  scale \in Nat /\ 2^scale \in Nat /\ 2^scale > 0
<1>1. 2^scale \in Nat \ {0}
  BY TimersAssumption, Zenon
<1>2. \A n \in Nat \ {0} : n \in Nat /\ n > 0
  OBVIOUS
<1>3. 2^scale \in Nat /\ 2^scale > 0
  BY ONLY <1>1, <1>2, Zenon
<1>4. scale \in Nat
  BY TimersAssumption
<1> QED
  BY ONLY <1>3, <1>4, Zenon

(* What the comparators see of the counter. *)
LEMMA ScaledCount ==
  ASSUME PwmInv, NEW c \in Configs
  PROVE  Pwm!Count \in Nat /\ Pwm!Scaled(c) \in 0..Top
<1>1. Pwm!Count \in Nat
  BY DEF PwmInv, Pwm!TypeOK, Pwm!Count
<1>2. 2^c.scale \in Nat /\ 2^c.scale > 0
  BY ScaleFactor DEF Configs
<1>3. Pwm!Count \div 2^c.scale \in Nat
  BY <1>1, <1>2, RemainderOf
<1>4. (Pwm!Count \div 2^c.scale) % (Top + 1) \in 0..((Top + 1) - 1)
  BY <1>3, TimersAssumption, RemainderOf
<1> QED
  BY <1>1, <1>4, TimersAssumption DEF Pwm!Scaled

(* The candidates for the next update are delays, and one of them is 0 only  *)
(* where the counter is just at comparator 0 or a scale of 0 is a factor.    *)
LEMMA DistancesAreDelays ==
  ASSUME PwmInv, NEW c \in Configs, NEW vals \in [0..3 -> 0..Top]
  PROVE  /\ Pwm!Least(Pwm!Distances(c, vals)) \in Nat
         /\ Pwm!Least(Pwm!Distances(c, vals)) = 0 =>
              \/ c.scale = 0 /\ Pwm!Scaled(c) < vals[2] /\ Pwm!Scaled(c) <= vals[0]
              \/ Pwm!Scaled(c) = vals[0] /\ \E i \in 1..3 : Pwm!Scaled(c) < vals[i]
<1> DEFINE s == Pwm!Scaled(c)
           hits == Pwm!Hits(c, vals)
           first == IF s = Top \/ (0 \in hits /\ c.zerocmp) THEN 1 ELSE (Top - s) * 2^c.scale
           factor(i) == IF i = 2 THEN c.scale ELSE 2^c.scale
           ahead == IF s <= vals[0] THEN (0..3) \ hits ELSE {}
           D == {first} \cup {(vals[0] - s) * factor(i) : i \in ahead}
           Still == \/ c.scale = 0 /\ s < vals[2] /\ s <= vals[0]
                    \/ s = vals[0] /\ \E i \in 1..3 : s < vals[i]
<1>1. s \in 0..Top /\ Top \in Nat /\ c.scale \in Nat /\ 2^c.scale \in Nat /\ 2^c.scale > 0
  BY ScaledCount, ScaleFactor, TimersAssumption DEF Configs
<1>2. hits = {i \in 0..3 : s >= vals[i]}
  BY DEF Pwm!Hits, Pwm!Cmps
<1>3. Pwm!Distances(c, vals) = D
  BY DEF Pwm!Distances, Pwm!Cmps
<1> HIDE DEF s, hits
<1>4. first \in Nat /\ first # 0
  <2>1. CASE s = Top \/ (0 \in hits /\ c.zerocmp)
    BY <2>1
  <2>2. CASE ~(s = Top \/ (0 \in hits /\ c.zerocmp))
    <3> DEFINE n == Top - s
    <3>1. n \in Nat /\ n > 0
      BY <1>1, <2>2
    <3>2. first = n * 2^c.scale
      BY <2>2
    <3> HIDE DEF n, first
    <3> QED
      BY <1>1, <3>1, <3>2, Product
  <2> QED
    BY <2>1, <2>2
<1>5. ASSUME NEW i \in ahead
      PROVE  /\ (vals[0] - s) * factor(i) \in Nat
             /\ (vals[0] - s) * factor(i) = 0 => Still
  <2> DEFINE n == vals[0] - s
             f == factor(i)
  <2>1. s <= vals[0] /\ i \in 0..3 /\ i \notin hits
    <3>1. s <= vals[0]
      BY <1>5
    <3> QED
      BY <3>1
  <2>2. ~(s >= vals[i]) /\ vals[i] \in 0..Top /\ vals[0] \in 0..Top
    BY <1>2, <2>1
  <2>3. n \in Nat /\ f \in Nat /\ s < vals[i]
    BY <1>1, <2>1, <2>2
  <2>4. n = 0 => s = vals[0] /\ i \in 1..3
    BY <1>1, <2>1, <2>2, <2>3
  <2>5. f = 0 => i = 2 /\ c.scale = 0
    BY <1>1
  <2>6. n = 0 \/ f = 0 => Still
    BY <2>1, <2>3, <2>4, <2>5
  <2> HIDE DEF n, f, Still
  <2>7. n * f \in Nat /\ (n * f = 0 => n = 0 \/ f = 0)
    BY <2>3, Product
  <2>8. n * f \in Nat /\ (n * f = 0 => Still)
    BY <2>6, <2>7
  <2> QED
    BY <2>8 DEF n, f
<1> HIDE DEF first, factor, ahead
<1>6. \A d \in D : d \in Nat /\ (d = 0 => Still)
  BY <1>4, <1>5
<1>7. Pwm!Least(D) \in D
  <2>1. D \in SUBSET Nat /\ D # {}
    BY <1>6
  <2> HIDE DEF D
  <2> QED
    BY <2>1, LeastNatural DEF Pwm!Least
<1> QED
  BY <1>3, <1>6, <1>7 DEF s

(* What an update leaves behind at the start of the simulation. *)
LEMMA PwmStartUpdates ==
  ASSUME PwmInv, NEW c \in Configs, NEW vals \in [0..3 -> 0..Top], Pwm!update_outputs(c, vals),
         current_cnt' \in Nat, running' \in BOOLEAN, at_zero, c.ip = {} \/ c.ip = cfg.ip
  PROVE  PwmInv' /\ Pwm!IpStaleOnlyByReset /\ PwmArmed(c)
<1>1. /\ cfg' = c /\ cmp_reg' = vals
      /\ UNCHANGED <<at_zero, since, last_running, last_enable, reset_cnt, gpio_o, pwmcmp_ip,
                     update_evt, cmpip_o>>
  BY DEF Pwm!update_outputs
<1>2. cfg'.scale \in Scales \cup {0} /\ cfg'.ip \subseteq 0..3
  BY <1>1 DEF Configs
<1>3. Pwm!TypeOK'
  BY <1>1, <1>2 DEF PwmInv, Pwm!TypeOK, Pwm!Cmps, Pwm!Never
<1>4. PwmArmed(c)
  BY <1>1 DEF PwmArmed, Pwm!Unarmed, Pwm!Enabled
<1>5. cfg'.ip = {} /\ cmpip_o' = {}
  BY <1>1 DEF PwmInv
<1> QED
  BY <1>1, <1>3, <1>4, <1>5 DEF PwmInv, Pwm!Never, Pwm!IpStaleOnlyByReset

(* What an update leaves behind afterwards. *)
LEMMA PwmUpdates ==
  ASSUME PwmInv, NEW c \in Configs, NEW vals \in [0..3 -> 0..Top], Pwm!update_outputs(c, vals),
         current_cnt' \in Nat, running' \in BOOLEAN, ~at_zero
  PROVE  PwmInv' /\ Pwm!IpStaleOnlyByReset /\ PwmArmed(c)
<1> DEFINE hits == Pwm!Hits(c, vals)
           top  == Pwm!Scaled(c) = Top
<1>1. hits \subseteq 0..3
  BY DEF Pwm!Hits, Pwm!Cmps
<1>2. /\ cmp_reg' = vals /\ since' = 0 /\ last_running' = running /\ last_enable' = Pwm!Enabled(c)
      /\ cmpip_o' = cfg'.ip /\ UNCHANGED at_zero
  BY DEF Pwm!update_outputs
<1>3. Pwm!Enabled(c) \in BOOLEAN /\ running \in BOOLEAN
  BY DEF Configs, Pwm!Enabled, PwmInv, Pwm!TypeOK
<1>4. /\ cfg' \in Configs /\ reset_cnt' \in BOOLEAN /\ gpio_o' \subseteq 0..3
      /\ pwmcmp_ip' \subseteq 0..3 /\ update_evt' \in Nat \cup {-1}
      /\ Pwm!Enabled(cfg') => update_evt' # -1
  <2>1. CASE Pwm!Enabled(c)
    <3>1. /\ reset_cnt' = (top \/ (0 \in hits /\ c.zerocmp))
          /\ cfg' = [c EXCEPT !.oneshot = c.oneshot /\ ~(top \/ 0 \in hits),
                              !.ip = c.ip \cup (hits \ pwmcmp_ip)]
          /\ gpio_o' = IF c.scale % 2 = 1 THEN {i \in hits : (i + 1) % 4 \notin hits} ELSE hits
          /\ pwmcmp_ip' = hits
          /\ update_evt' = IF running THEN Pwm!Least(Pwm!Distances(c, vals)) ELSE 0
      BY <2>1 DEF Pwm!update_outputs
    <3> HIDE DEF hits, top
    <3>2. update_evt' \in Nat
      BY <3>1, DistancesAreDelays
    <3>3. cfg' \in Configs
      BY <1>1, <3>1 DEF Configs
    <3>4. gpio_o' \subseteq 0..3 /\ pwmcmp_ip' \subseteq 0..3
      BY <1>1, <3>1
    <3>5. reset_cnt' \in BOOLEAN
      BY <3>1
    <3> QED
      BY <3>2, <3>3, <3>4, <3>5
  <2>2. CASE ~Pwm!Enabled(c)
    BY <2>2 DEF Pwm!update_outputs, PwmInv, Pwm!TypeOK, Pwm!Cmps, Pwm!Never
  <2> QED
    BY <2>1, <2>2
<1>5. cfg'.scale \in Scales \cup {0} /\ cfg'.ip \subseteq 0..3
  BY <1>4 DEF Configs
<1>9. at_zero' \in BOOLEAN
  BY <1>2 DEF PwmInv, Pwm!TypeOK
<1>6. Pwm!TypeOK'
  BY <1>2, <1>3, <1>4, <1>5, <1>9 DEF Pwm!TypeOK, Pwm!Cmps, Pwm!Never
<1>7. PwmArmed(c)
  BY <1>4 DEF PwmArmed, Pwm!Unarmed, Pwm!Never, Pwm!Enabled
<1>8. Pwm!IpStaleOnlyByReset
  BY <1>2 DEF Pwm!IpStaleOnlyByReset
<1> QED
  BY <1>2, <1>4, <1>6, <1>7, <1>8 DEF PwmInv

(* An update by the event that asks for the next one at once. *)
LEMMA PwmStands ==
  ASSUME PwmInv
  PROVE  Pwm!StandsStillExplained
<1> SUFFICES ASSUME Pwm!UpdateEvent, update_evt' = 0, running
             PROVE  \/ cfg.scale = 0 /\ Pwm!Scaled(cfg) < cmp_reg[2] /\ Pwm!Scaled(cfg) <= cmp_reg[0]
                    \/ Pwm!Scaled(cfg) = cmp_reg[0] /\ \E i \in 1..3 : Pwm!Scaled(cfg) < cmp_reg[i]
  BY DEF Pwm!StandsStillExplained
<1>1. Pwm!update_outputs(cfg, cmp_reg) /\ ~at_zero
  BY DEF Pwm!UpdateEvent, Pwm!update_counter, PwmInv, Pwm!Never
<1>2. cfg \in Configs /\ cmp_reg \in [0..3 -> 0..Top]
  BY DEF PwmInv, Pwm!TypeOK, Pwm!Cmps
<1>3. Pwm!Enabled(cfg)
  <2>1. ~Pwm!Enabled(cfg) => update_evt' = Pwm!Never
    BY <1>1 DEF Pwm!update_outputs
  <2> QED
    BY <2>1 DEF Pwm!Never
<1>4. Pwm!Least(Pwm!Distances(cfg, cmp_reg)) = 0
  BY <1>1, <1>3 DEF Pwm!update_outputs
<1> QED
  BY <1>2, <1>4, DistancesAreDelays

LEMMA PwmStep == ASSUME PwmInv, Pwm!Next PROVE PwmInv' /\ PwmStepOK
<1>1. /\ cfg \in Configs /\ cmp_reg \in [0..3 -> 0..Top] /\ running \in BOOLEAN /\ current_cnt \in Nat
      /\ cfg.ip \subseteq 0..3
  BY DEF PwmInv, Pwm!TypeOK, Pwm!Cmps
<1>2. ASSUME NEW c \in Configs, NEW vals \in [0..3 -> 0..Top], Pwm!update_counter(c, vals),
             running' \in BOOLEAN, c.ip = {} \/ c.ip = cfg.ip
      PROVE  PwmInv' /\ Pwm!StandsStillExplained /\ Pwm!IpStaleOnlyByReset /\ PwmArmed(c)
  <2>1. current_cnt' \in Nat
    BY <1>1, <1>2, ScaledCount DEF Pwm!update_counter
  <2>2. Pwm!update_outputs(c, vals)
    BY <1>2 DEF Pwm!update_counter
  <2>3. PwmInv' /\ Pwm!IpStaleOnlyByReset /\ PwmArmed(c)
    BY <1>2, <2>1, <2>2, PwmUpdates, PwmStartUpdates
  <2> QED
    BY <2>3, PwmStands
<1>10. ASSUME PwmArmed(cfg) PROVE Pwm!UnarmedOnlyAtStart
  BY <1>10 DEF PwmArmed, Pwm!UnarmedOnlyAtStart
<1>3. CASE Pwm!PwmcfgWrite
  <2>1. PICK s \in Scales, z \in BOOLEAN, a \in BOOLEAN, o \in BOOLEAN, ip \in {{}, cfg.ip} :
          Pwm!update_counter([scale |-> s, zerocmp |-> z, always |-> a, oneshot |-> o, ip |-> ip], cmp_reg)
    BY <1>3 DEF Pwm!PwmcfgWrite
  <2> DEFINE c == [scale |-> s, zerocmp |-> z, always |-> a, oneshot |-> o, ip |-> ip]
  <2>2. c \in Configs /\ (c.ip = {} \/ c.ip = cfg.ip)
    BY <1>1 DEF Configs
  <2>3. Pwm!update_counter(c, cmp_reg) /\ running' \in BOOLEAN
    BY <1>1, <1>3, <2>1 DEF Pwm!PwmcfgWrite
  <2> HIDE DEF c
  <2>4. PwmInv' /\ Pwm!StandsStillExplained /\ Pwm!IpStaleOnlyByReset /\ PwmArmed(c)
    BY <1>1, <1>2, <2>2, <2>3
  <2>5. Pwm!UnarmedOnlyAtStart
    BY <1>3, <2>4 DEF PwmArmed, Pwm!UnarmedOnlyAtStart
  <2> QED
    BY <2>4, <2>5 DEF PwmStepOK
<1>4. ASSUME NEW w \in CmpWrites, Pwm!PwmcmpWrite(w[1], w[2]) PROVE PwmInv' /\ PwmStepOK
  <2>1. w[1] \in 0..3 /\ w[2] \in 0..Top
    BY TimersAssumption
  <2>2. [cmp_reg EXCEPT ![w[1]] = w[2]] \in [0..3 -> 0..Top]
    BY <1>1, <2>1
  <2>3. Pwm!update_counter(cfg, [cmp_reg EXCEPT ![w[1]] = w[2]]) /\ running' \in BOOLEAN
    BY <1>1, <1>4 DEF Pwm!PwmcmpWrite
  <2> QED
    BY <1>1, <1>2, <1>10, <2>2, <2>3 DEF PwmStepOK
<1>5. ASSUME NEW v \in 0..MaxCount, Pwm!PwmcountWrite(v) PROVE PwmInv' /\ PwmStepOK
  <2>1. v \in Nat
    BY TimersAssumption
  <2> QED
    BY <1>1, <1>5, <1>10, <2>1, PwmUpdates, PwmStartUpdates, PwmStands DEF Pwm!PwmcountWrite, PwmStepOK
<1>6. CASE Pwm!UpdateEvent
  BY <1>1, <1>2, <1>6, <1>10 DEF Pwm!UpdateEvent, PwmStepOK
<1>7. ASSUME NEW r \in BOOLEAN, Pwm!clock_cb(r) PROVE PwmInv' /\ PwmStepOK
  BY <1>1, <1>2, <1>7, <1>10 DEF Pwm!clock_cb, PwmStepOK
<1>8. CASE Pwm!Reset
  <2>1. cfg' = Pwm!ResetCfg /\ cmp_reg' = [i \in 0..3 |-> 0] /\ 0 \in 0..Top
    BY <1>8, TimersAssumption DEF Pwm!Reset, Pwm!Cmps
  <2>2. cfg' \in Configs /\ cfg'.scale = 0 /\ cfg'.ip = {} /\ ~Pwm!Enabled(cfg')
    BY <2>1 DEF Pwm!ResetCfg, Configs, Pwm!Enabled
  <2>3. cmp_reg' \in [0..3 -> 0..Top]
    BY <2>1
  <2>4. Pwm!TypeOK'
    BY <1>8, <2>2, <2>3 DEF Pwm!Reset, PwmInv, Pwm!TypeOK, Pwm!Cmps
  <2>5. Pwm!UnarmedOnlyAtStart /\ Pwm!IpStaleOnlyByReset
    BY <2>1, <2>2 DEF Pwm!UnarmedOnlyAtStart, Pwm!Unarmed, Pwm!IpStaleOnlyByReset, Pwm!Enabled
  <2>6. at_zero' => update_evt' = Pwm!Never /\ cmpip_o' = {}
    BY <1>8 DEF Pwm!Reset, PwmInv, Pwm!Never
  <2> QED
    BY <2>2, <2>4, <2>5, <2>6, PwmStands DEF PwmInv, PwmStepOK
<1>9. CASE Pwm!Tick
  <2>1. /\ update_evt # 0 /\ update_evt \in Nat \cup {-1}
        /\ update_evt' = IF update_evt = -1 THEN -1 ELSE update_evt - 1
    BY <1>9 DEF Pwm!Tick, PwmInv, Pwm!TypeOK, Pwm!Never
  <2>2. update_evt' \in Nat \cup {-1} /\ (update_evt' = -1 => update_evt = -1)
    BY <2>1
  <2>3. since' \in Nat
    BY <1>9 DEF Pwm!Tick, PwmInv, Pwm!TypeOK
  <2>4. UNCHANGED <<running, last_running, cfg, cmp_reg, current_cnt, reset_cnt, last_enable, pwmcmp_ip,
                    gpio_o, cmpip_o>> /\ at_zero' = FALSE
    BY <1>9 DEF Pwm!Tick
  <2>5. Pwm!TypeOK'
    BY <2>2, <2>3, <2>4 DEF PwmInv, Pwm!TypeOK, Pwm!Never
  <2>6. Pwm!UnarmedOnlyAtStart /\ Pwm!IpStaleOnlyByReset
    BY <2>2, <2>4 DEF Pwm!UnarmedOnlyAtStart, Pwm!Unarmed, Pwm!IpStaleOnlyByReset, Pwm!Enabled, Pwm!Never
  <2> QED
    BY <1>1, <2>4, <2>5, <2>6, PwmStands DEF PwmInv, PwmStepOK
<1> QED
  BY <1>3, <1>4, <1>5, <1>6, <1>7, <1>8, <1>9 DEF Pwm!Next

LEMMA PwmRests == ASSUME UNCHANGED pwm PROVE PwmInv => PwmInv' /\ PwmStepOK
<1>1. PwmInv => PwmInv'
  BY DEF pwm, PwmInv, Pwm!TypeOK, Pwm!Never
<1>2. Pwm!IpStaleOnlyByReset /\ Pwm!UnarmedOnlyAtStart
  BY DEF pwm, Pwm!IpStaleOnlyByReset, Pwm!UnarmedOnlyAtStart, Pwm!Unarmed, Pwm!Enabled
<1> QED
  BY <1>1, <1>2, PwmStands DEF PwmStepOK

LEMMA PwmStarts == ASSUME Pwm!Init PROVE PwmInv
<1>1. 0 \in 0..Top /\ \A g \in IpGarbage : g \subseteq 0..3
  BY TimersAssumption
<1>2. cfg \in Configs /\ cfg.scale = 0 /\ cfg.ip = {} /\ ~Pwm!Enabled(cfg)
  BY DEF Pwm!Init, Pwm!ResetCfg, Configs, Pwm!Enabled
<1>3. Pwm!TypeOK
  BY <1>1, <1>2 DEF Pwm!Init, Pwm!TypeOK, Pwm!Cmps
<1> QED
  BY <1>2, <1>3 DEF Pwm!Init, PwmInv, Pwm!Never

-----------------------------------------------------------------------------
(* The Pulpino CLINT. *)

(* Whole periods in a time that is bounded by a number of periods. *)
LEMMA PeriodsIn ==
  ASSUME NEW n \in Nat, NEW p \in Nat, p > 0
  PROVE  /\ n \div p \in Nat
         /\ \A k \in Nat : (n < k * p => n \div p < k) /\ (n <= k * p => n \div p <= k)
         /\ n \div p <= (n + 1) \div p
<1> DEFINE q == n \div p
           r == n % p
           q2 == (n + 1) \div p
           r2 == (n + 1) % p
<1>1. q \in Nat /\ r \in 0..(p - 1) /\ n = p * q + r
  BY RemainderOf
<1>2. q2 \in Nat /\ r2 \in 0..(p - 1) /\ n + 1 = p * q2 + r2
  <2>1. n + 1 \in Nat
    OBVIOUS
  <2> QED
    BY <2>1, RemainderOf
<1> HIDE DEF q, r, q2, r2
<1>3. ASSUME NEW a \in Nat, NEW b \in Nat, a < b PROVE p * a + p <= p * b
  <2>1. a + 1 <= b /\ a + 1 \in Nat
    BY <1>3
  <2>2. p * (a + 1) <= p * b
    BY <2>1, Product
  <2>3. p * (a + 1) = p * a + p
    OBVIOUS
  <2> QED
    BY <2>2, <2>3
<1>4. ASSUME NEW k \in Nat PROVE (n < k * p => q < k) /\ (n <= k * p => q <= k)
  <2>1. k * p = p * k /\ p * k \in Nat /\ p * q \in Nat
    BY <1>1
  <2>2. q >= k => p * k <= p * q
    BY <1>1, Product
  <2>3. k < q => p * k + p <= p * q
    BY <1>1, <1>3
  <2> QED
    BY <1>1, <2>1, <2>2, <2>3
<1>5. q <= q2
  <2>1. p * q \in Nat /\ p * q2 \in Nat
    BY <1>1, <1>2
  <2>2. q2 < q => p * q2 + p <= p * q
    BY <1>1, <1>2, <1>3
  <2> QED
    BY <1>1, <1>2, <2>1, <2>2
<1> QED
  BY <1>1, <1>4, <1>5 DEF q, q2

(* The part of a wait of k periods that has passed, while w of it is left. *)
LEMMA PartOfWait ==
  ASSUME NEW w \in Nat, NEW n \in Nat, NEW p \in Nat, p > 0, NEW k \in Nat, w + n <= k * p
  PROVE  n \div p <= k /\ (w > 0 => n \div p < k)
<1> DEFINE top == k * p
<1>1. top \in Nat /\ w + n <= top
  BY Product
<1> HIDE DEF top
<1>2. n <= top /\ (w > 0 => n < top)
  BY <1>1
<1> QED
  BY <1>2, PeriodsIn DEF top

LEMMA PlusZero == ASSUME NEW a \in Nat, NEW b, b = 0 PROVE a + b = a
OBVIOUS

LEMMA WhatIsLeft == ASSUME NEW a \in Nat, NEW b \in 0..a PROVE a - b \in Nat
OBVIOUS

(* A count that goes around once at most. *)
LEMMA Wraps ==
  ASSUME NEW n \in Nat, NEW m \in Nat, m > 0
  PROVE  /\ n % m \in 0..(m - 1)
         /\ n < m => n % m = n
         /\ m <= n /\ n < 2 * m => n % m = n - m
<1>1. n < m => (m * 0 + n) % m = n
  BY ModUnique
<1>2. m <= n /\ n < 2 * m => (m * 1 + (n - m)) % m = n - m
  BY ModUnique
<1> QED
  BY <1>1, <1>2, RemainderOf

(* What the process relies on: the queue ends with what the registers say,   *)
(* and before it wakes by itself the timer neither overflows, with the       *)
(* interrupt high, nor goes around up to the compare value, with it low.     *)
RtcInv ==
  /\ Rtc!TypeOK
  /\ rtc_event_q_ # <<>> =>
       /\ Len(rtc_event_q_) >= 2
       /\ rtc_event_q_[Len(rtc_event_q_) - 1] = IF ctr >= cmp THEN "SET_INT" ELSE "RESET_INT"
  /\ rtc_event_q_ \in Seq({"SET_INT", "RESET_INT", "UPDATE_TIME"})
  /\ rtc_wait + rtc_passed <= Rtc!OVERFLOW * RtcPeriod
  /\ (rtc_event_q_ = <<>> /\ timer_irq = 1) => rtc_wait + rtc_passed <= (Rtc!OVERFLOW - ctr) * RtcPeriod
  /\ (rtc_event_q_ = <<>> /\ timer_irq = 0 /\ ctr >= cmp) =>
       rtc_wait + rtc_passed <= (cmp + Rtc!OVERFLOW + 1 - ctr) * RtcPeriod

(* The numbers of RtcInv. *)
LEMMA RtcNumbers ==
  ASSUME RtcInv
  PROVE  /\ Rtc!OVERFLOW \in Nat /\ Rtc!OVERFLOW >= 1 /\ RtcPeriod \in Nat /\ RtcPeriod > 0
         /\ Rtc!OVERFLOW * RtcPeriod \in Nat
         /\ ctr \in 0..Rtc!OVERFLOW /\ cmp \in 0..Rtc!OVERFLOW
         /\ rtc_wait \in Nat /\ rtc_passed \in Nat /\ timer_irq \in {0, 1}
         /\ Rtc!Now = (ctr + (rtc_passed \div RtcPeriod)) % (Rtc!OVERFLOW + 1)
<1>1. Base \in Nat /\ Base > 1 /\ RtcPeriod \in Nat /\ RtcPeriod > 0
  BY TimersAssumption
<1>2. Base * Base \in Nat /\ Base * Base >= Base
  BY <1>1, Product
<1>3. Rtc!OVERFLOW \in Nat /\ Rtc!OVERFLOW >= 1
  BY <1>1, <1>2 DEF Rtc!OVERFLOW
<1>4. Rtc!OVERFLOW * RtcPeriod \in Nat
  BY <1>1, <1>3, Product
<1>5. /\ ctr \in 0..Rtc!OVERFLOW /\ cmp \in 0..Rtc!OVERFLOW /\ timer_irq \in {0, 1}
      /\ rtc_wait \in 0..(Rtc!OVERFLOW * RtcPeriod) /\ rtc_passed \in 0..(Rtc!OVERFLOW * RtcPeriod)
  BY DEF RtcInv, Rtc!TypeOK, Rtc!Words
<1>6. rtc_wait \in Nat /\ rtc_passed \in Nat
  BY <1>4, <1>5
<1> QED
  BY <1>1, <1>3, <1>4, <1>5, <1>6 DEF Rtc!Now, Rtc!get_act_mtime

(* Time passes. *)
LEMMA RtcTicks == ASSUME RtcInv, Rtc!Tick PROVE RtcInv' /\ Rtc!MissedOnlyByRewrite
<1> DEFINE O == Rtc!OVERFLOW
           d == rtc_passed \div RtcPeriod
           d2 == rtc_passed' \div RtcPeriod
<1>1. /\ O \in Nat /\ O >= 1 /\ RtcPeriod \in Nat /\ RtcPeriod > 0 /\ O * RtcPeriod \in Nat
      /\ ctr \in 0..O /\ cmp \in 0..O /\ rtc_wait \in Nat /\ rtc_passed \in Nat /\ timer_irq \in {0, 1}
      /\ Rtc!Now = (ctr + d) % (O + 1)
  BY RtcNumbers
<1>2. /\ rtc_event_q_ = <<>> /\ rtc_wait > 0 /\ rtc_wait' = rtc_wait - 1 /\ rtc_passed' = rtc_passed + 1
      /\ UNCHANGED <<ctr, cmp, clint_msip, soft_irq, timer_irq, rtc_event_q_>>
  BY DEF Rtc!Tick
<1>3. /\ rtc_wait' \in Nat /\ rtc_passed' \in Nat /\ rtc_wait' + rtc_passed' = rtc_wait + rtc_passed
      /\ rtc_wait + rtc_passed <= O * RtcPeriod
  BY <1>1, <1>2 DEF RtcInv
<1>4. Rtc!Now' = (ctr + d2) % (O + 1)
  <2>1. Rtc!OVERFLOW' = Rtc!OVERFLOW /\ RtcPeriod' = RtcPeriod
    BY DEF Rtc!OVERFLOW
  <2> QED
    BY <1>2, <2>1 DEF Rtc!Now, Rtc!get_act_mtime
<1>5. RtcInv'
  <2>1. Rtc!TypeOK'
    <3>1. rtc_wait' \in 0..(O * RtcPeriod) /\ rtc_passed' \in 0..(O * RtcPeriod)
      <4> DEFINE top == O * RtcPeriod
      <4>1. top \in Nat /\ rtc_wait + rtc_passed <= top
        BY <1>1, <1>3
      <4> HIDE DEF top
      <4>2. rtc_wait' \in 0..top /\ rtc_passed' \in 0..top
        BY <1>2, <1>3, <4>1
      <4> QED
        BY <4>2 DEF top
    <3> QED
      BY <1>2, <3>1 DEF RtcInv, Rtc!TypeOK, Rtc!Words, Rtc!OVERFLOW
  <2> QED
    BY <1>2, <1>3, <2>1 DEF RtcInv, Rtc!OVERFLOW
<1>6. d \in Nat /\ d2 \in Nat /\ d <= d2
  <2>1. d2 = (rtc_passed + 1) \div RtcPeriod /\ rtc_passed + 1 \in Nat
    BY <1>1, <1>2
  <2> QED
    BY <1>1, <2>1, PeriodsIn
<1>7. ASSUME NEW k \in Nat, rtc_wait + rtc_passed <= k * RtcPeriod
      PROVE  d2 <= k /\ (rtc_wait' > 0 => d2 < k)
  <2>1. rtc_wait' + rtc_passed' <= k * RtcPeriod
    BY <1>3, <1>7
  <2> QED
    BY <1>1, <1>3, <2>1, PartOfWait
<1> HIDE DEF d, d2
<1>8. Rtc!Late' => Rtc!Late
  BY <1>2, <1>3 DEF Rtc!Late
<1>9. ASSUME Rtc!Missed', ~Rtc!Missed, ~Rtc!Late PROVE FALSE
  <2>1. timer_irq = 0 /\ rtc_wait' > 0 /\ Rtc!Now' >= cmp /\ ~(Rtc!Now >= cmp)
    BY <1>2, <1>9 DEF Rtc!Missed
  <2>2. CASE ctr < cmp
    <3> DEFINE k == cmp - ctr
    <3>1. k \in Nat /\ rtc_wait + rtc_passed <= k * RtcPeriod
      <4>1. k \in Nat
        BY <1>1, <2>2
      <4>2. ~(rtc_wait + rtc_passed > k * RtcPeriod)
        BY <1>2, <1>9, <2>2 DEF Rtc!Late
      <4>3. k * RtcPeriod \in Nat
        BY <1>1, <4>1, Product
      <4> HIDE DEF k
      <4> QED
        BY <1>1, <4>1, <4>2, <4>3
    <3> HIDE DEF k
    <3>2. d2 < k
      BY <1>7, <2>1, <3>1
    <3>3. ctr + d2 < cmp /\ ctr + d2 \in Nat
      BY <1>1, <1>6, <3>2 DEF k
    <3>4. Rtc!Now' = ctr + d2
      BY <1>1, <1>4, <3>3, Wraps
    <3> QED
      BY <1>1, <2>1, <3>3, <3>4
  <2>3. CASE ctr >= cmp
    <3> DEFINE k == cmp + O + 1 - ctr
    <3>1. k \in Nat /\ rtc_wait + rtc_passed <= k * RtcPeriod
      BY <1>1, <1>2, <2>1, <2>3 DEF RtcInv
    <3> HIDE DEF k
    <3>2. d2 < k
      BY <1>7, <2>1, <3>1
    <3>3. ctr + d2 < cmp + O + 1 /\ ctr + d2 \in Nat /\ ctr + d \in Nat /\ cmp < O + 1
      BY <1>1, <1>6, <3>2 DEF k
    <3>4. CASE ctr + d2 < O + 1
      <4>1. Rtc!Now = ctr + d
        BY <1>1, <1>4, <1>6, <3>3, <3>4, Wraps
      <4> QED
        BY <1>1, <1>6, <2>1, <2>3, <4>1
    <3>5. CASE ~(ctr + d2 < O + 1)
      <4> DEFINE n == ctr + d2
                 m == O + 1
      <4>1. n \in Nat /\ m \in Nat /\ m > 0 /\ m <= n /\ n < 2 * m
        BY <1>1, <3>3, <3>5
      <4>2. Rtc!Now' = n % m
        BY <1>4
      <4> HIDE DEF n, m
      <4>3. Rtc!Now' = n - m
        BY <4>1, <4>2, Wraps
      <4> QED
        BY <1>1, <1>6, <2>1, <3>3, <4>3 DEF n, m
    <3> QED
      BY <3>4, <3>5
  <2> QED
    BY <1>1, <2>2, <2>3
<1>10. ASSUME Rtc!Early', ~Rtc!Early PROVE FALSE
  <2>1. timer_irq = 1 /\ Rtc!Now' < cmp /\ ~(Rtc!Now < cmp)
    BY <1>2, <1>10 DEF Rtc!Early
  <2> DEFINE k == O - ctr
  <2>2. k \in Nat /\ rtc_wait + rtc_passed <= k * RtcPeriod
    BY <1>1, <1>2, <2>1 DEF RtcInv
  <2> HIDE DEF k
  <2>4. d2 <= k
    BY <1>7, <2>2
  <2>5. ctr + d2 < O + 1 /\ ctr + d < O + 1 /\ ctr + d2 \in Nat /\ ctr + d \in Nat
    BY <1>1, <1>6, <2>4 DEF k
  <2>6. Rtc!Now = ctr + d /\ Rtc!Now' = ctr + d2
    BY <1>1, <1>4, <2>5, Wraps
  <2> QED
    BY <1>1, <1>6, <2>1, <2>6
<1> QED
  BY <1>5, <1>8, <1>9, <1>10 DEF Rtc!MissedOnlyByRewrite

(* The wait is over: nothing is late, missed or early afterwards but the     *)
(* interrupt of a compare value of 0.                                        *)
LEMMA RtcWakes == ASSUME RtcInv, Rtc!TimerEvent PROVE RtcInv' /\ Rtc!MissedOnlyByRewrite
<1> DEFINE O == Rtc!OVERFLOW
           top == O * RtcPeriod
<1>1. /\ O \in Nat /\ O >= 1 /\ RtcPeriod \in Nat /\ RtcPeriod > 0 /\ O * RtcPeriod \in Nat
      /\ ctr \in 0..O /\ cmp \in 0..O
  BY RtcNumbers
<1>2. /\ rtc_event_q_ = <<>> /\ rtc_event_q_' = <<>> /\ rtc_passed' = 0
      /\ UNCHANGED <<cmp, clint_msip, soft_irq, rtc_event_q_>>
  BY DEF Rtc!TimerEvent
<1>3. ASSUME NEW k \in Nat, k <= O PROVE k * RtcPeriod \in Nat /\ k * RtcPeriod <= top
  <2>1. RtcPeriod * k <= RtcPeriod * O /\ RtcPeriod * k \in Nat
    BY <1>1, <1>3, Product
  <2>2. RtcPeriod * k = k * RtcPeriod /\ RtcPeriod * O = O * RtcPeriod
    BY <1>1, <1>3
  <2> QED
    BY <2>1, <2>2
<1>4. top \in Nat
  BY <1>1
<1>5. Rtc!Now' = ctr' % (O + 1) \/ ctr' \notin Nat
  <2>1. rtc_passed' \div RtcPeriod = 0
    BY <1>1, <1>2
  <2> QED
    BY <1>2, <2>1 DEF Rtc!Now, Rtc!get_act_mtime, Rtc!OVERFLOW
<1>6. CASE ctr < cmp
  <2> DEFINE k == O - cmp
  <2>1. ctr' = cmp /\ timer_irq' = 1 /\ rtc_wait' = k * RtcPeriod
    BY <1>6 DEF Rtc!TimerEvent
  <2>2. k \in Nat /\ k <= O
    BY <1>1
  <2>3. rtc_wait' \in Nat /\ rtc_wait' <= top
    BY <1>3, <2>1, <2>2
  <2>4. rtc_wait' + rtc_passed' = (O - ctr') * RtcPeriod
    BY <1>2, <2>1, <2>3
  <2>5. RtcInv'
    <3>1. rtc_wait' + rtc_passed' <= top /\ rtc_wait' + rtc_passed' \in Nat
      <4>1. rtc_passed' = 0
        BY <1>2
      <4> HIDE DEF top, k
      <4>2. rtc_wait' + rtc_passed' = rtc_wait'
        BY <2>3, <4>1, PlusZero
      <4> QED
        BY <2>3, <4>2
    <3>2. rtc_wait' \in 0..top /\ rtc_passed' \in 0..top
      <4> HIDE DEF top, k
      <4> QED
        BY <1>2, <1>4, <2>3
    <3>3. Rtc!TypeOK'
      BY <1>1, <1>2, <2>1, <3>2 DEF RtcInv, Rtc!TypeOK, Rtc!Words, Rtc!OVERFLOW
    <3>4. rtc_wait' + rtc_passed' <= (O - ctr') * RtcPeriod
      <4>1. k * RtcPeriod \in Nat
        BY <1>3, <2>2
      <4>2. rtc_wait' + rtc_passed' = k * RtcPeriod /\ (O - ctr') * RtcPeriod = k * RtcPeriod
        BY <2>1, <2>4
      <4> HIDE DEF k
      <4>3. rtc_wait' + rtc_passed' <= k * RtcPeriod
        BY <4>1, <4>2
      <4> QED
        BY <4>2, <4>3
    <3> QED
      BY <1>2, <2>1, <3>1, <3>3, <3>4 DEF RtcInv, Rtc!OVERFLOW
  <2>6. Rtc!Now' = cmp
    <3>1. cmp \in Nat /\ cmp < O + 1 /\ O + 1 \in Nat
      BY <1>1
    <3> QED
      BY <1>1, <1>5, <2>1, <3>1, Wraps
  <2> QED
    BY <1>1, <1>2, <2>1, <2>5, <2>6 DEF Rtc!MissedOnlyByRewrite, Rtc!Late, Rtc!Missed, Rtc!Early
<1>7. CASE ~(ctr < cmp)
  <2> DEFINE k == IF cmp # 0 THEN cmp ELSE 1
             k2 == cmp + O + 1
  <2>1. ctr' = 0 /\ timer_irq' = 0 /\ rtc_wait' = RtcPeriod * k
    BY <1>7 DEF Rtc!TimerEvent
  <2>2. k \in Nat /\ k <= O /\ k2 \in Nat /\ k <= k2 /\ (cmp > 0 => k = cmp)
    BY <1>1
  <2>3. rtc_wait' = k * RtcPeriod
    BY <1>1, <2>1, <2>2
  <2>4. rtc_wait' \in Nat /\ rtc_wait' <= top
    BY <1>3, <2>2, <2>3
  <2>5. rtc_wait' <= k2 * RtcPeriod
    <3>1. RtcPeriod * k <= RtcPeriod * k2
      BY <1>1, <2>2, Product
    <3>2. RtcPeriod * k2 = k2 * RtcPeriod
      BY <1>1, <2>2
    <3> QED
      BY <2>1, <3>1, <3>2
  <2>6. RtcInv'
    <3>1. rtc_wait' + rtc_passed' = rtc_wait'
      <4>1. rtc_passed' = 0
        BY <1>2
      <4>2. rtc_wait' \in Nat
        BY <2>4
      <4> QED
        BY <4>1, <4>2, PlusZero
    <3>2. rtc_wait' \in 0..top /\ rtc_passed' \in 0..top
      <4> HIDE DEF top, k
      <4> QED
        BY <1>2, <1>4, <2>4
    <3>3. Rtc!TypeOK'
      <4>1. ctr' \in 0..O
        BY <1>1, <2>1
      <4> QED
        BY <1>1, <1>2, <2>1, <3>2, <4>1 DEF RtcInv, Rtc!TypeOK, Rtc!Words, Rtc!OVERFLOW
    <3>4. rtc_wait' + rtc_passed' <= (cmp' + O + 1 - ctr') * RtcPeriod
      <4>1. cmp' + O + 1 - ctr' = k2
        BY <1>1, <1>2, <2>1
      <4> HIDE DEF k2
      <4> QED
        BY <2>5, <3>1, <4>1
    <3>5. rtc_wait' + rtc_passed' <= top
      BY <2>4, <3>1
    <3> QED
      BY <1>2, <2>1, <3>3, <3>4, <3>5 DEF RtcInv, Rtc!OVERFLOW
  <2>7. Rtc!Now' = 0
    <3>1. 0 \in Nat /\ 0 < O + 1 /\ O + 1 \in Nat
      BY <1>1
    <3> QED
      BY <1>1, <1>5, <2>1, <3>1, Wraps
  <2>8. ~Rtc!Late'
    <3>1. cmp > 0 => rtc_wait' + rtc_passed' = (cmp' - ctr') * RtcPeriod /\ rtc_wait' + rtc_passed' \in Nat
      BY <1>1, <1>2, <2>1, <2>2, <2>3, <2>4
    <3>2. cmp > 0 => ~(rtc_wait' + rtc_passed' > (cmp' - ctr') * RtcPeriod)
      <4> DEFINE x == rtc_wait' + rtc_passed'
                 y == (cmp' - ctr') * RtcPeriod
      <4>1. cmp > 0 => x = y /\ x \in Nat
        BY <3>1
      <4> HIDE DEF x, y
      <4>2. cmp > 0 => ~(x > y)
        BY <4>1
      <4> QED
        BY <4>2 DEF x, y
    <3> QED
      BY <1>1, <1>2, <2>1, <3>2 DEF Rtc!Late
  <2>9. Rtc!Missed' => cmp = 0
    BY <1>1, <1>2, <2>7 DEF Rtc!Missed
  <2>10. ~Rtc!Early'
    BY <2>1 DEF Rtc!Early
  <2> QED
    BY <2>6, <2>8, <2>9, <2>10 DEF Rtc!MissedOnlyByRewrite
<1> QED
  BY <1>6, <1>7

(* The queue is worked off: the wait is that of the compare value, and short *)
(* of it only when the time added moves the timer.                           *)
LEMMA RtcWorksOff == ASSUME RtcInv, Rtc!QueueEvent PROVE RtcInv' /\ Rtc!MissedOnlyByRewrite
<1> DEFINE O == Rtc!OVERFLOW
           d == rtc_passed \div RtcPeriod
           n == Rtc!Count(rtc_event_q_, "UPDATE_TIME")
           top == O * RtcPeriod
<1>1. /\ O \in Nat /\ O >= 1 /\ RtcPeriod \in Nat /\ RtcPeriod > 0 /\ top \in Nat
      /\ ctr \in 0..O /\ cmp \in 0..O /\ rtc_passed \in Nat
  BY RtcNumbers
<1>2. /\ rtc_event_q_ # <<>> /\ rtc_event_q_' = <<>> /\ rtc_passed' = 0
      /\ ctr' = (ctr + n * d) % (O + 1)
      /\ rtc_wait' = IF ctr >= cmp THEN 0 ELSE (cmp - ctr) * RtcPeriod
      /\ UNCHANGED <<cmp, clint_msip, soft_irq>>
  BY DEF Rtc!QueueEvent
<1>3. timer_irq' = IF ctr >= cmp THEN 1 ELSE 0
  <2>1. timer_irq' = IF rtc_event_q_[Len(rtc_event_q_) - 1] = "SET_INT" THEN 1 ELSE 0
    BY DEF Rtc!QueueEvent
  <2>2. rtc_event_q_[Len(rtc_event_q_) - 1] = IF ctr >= cmp THEN "SET_INT" ELSE "RESET_INT"
    BY <1>2 DEF RtcInv
  <2> QED
    BY <2>1, <2>2
<1>4. n \in Nat
  <2> DEFINE S == {i \in DOMAIN rtc_event_q_ : rtc_event_q_[i] = "UPDATE_TIME"}
  <2>1. DOMAIN rtc_event_q_ = 1..Len(rtc_event_q_) /\ Len(rtc_event_q_) \in Nat
    BY DEF RtcInv
  <2>2. IsFiniteSet(1..Len(rtc_event_q_))
    BY <2>1, FS_Interval
  <2>3. IsFiniteSet(S)
    BY <2>1, <2>2, FS_Subset
  <2>4. Cardinality(S) \in Nat
    BY <2>3, FS_CardinalityType
  <2> QED
    BY <2>4 DEF Rtc!Count, Rtc!Cardinality, Cardinality
<1>5. d \in Nat /\ (rtc_passed < RtcPeriod => d = 0)
  <2>1. rtc_passed < 1 * RtcPeriod => d < 1
    BY <1>1, PeriodsIn
  <2> QED
    BY <1>1, <2>1, PeriodsIn
<1> HIDE DEF n, d
<1>6. ctr' \in 0..O /\ (rtc_passed < RtcPeriod => ctr' = ctr)
  <2> DEFINE x == n * d
  <2>1. x \in Nat /\ (d = 0 => x = 0)
    BY <1>4, <1>5
  <2> HIDE DEF x
  <2>2. ctr' = (ctr + x) % (O + 1) /\ ctr + x \in Nat /\ O + 1 \in Nat /\ O + 1 > 0 /\ ctr < O + 1
    BY <1>1, <1>2, <2>1 DEF x
  <2>3. ctr' \in 0..((O + 1) - 1) /\ (ctr + x < O + 1 => ctr' = ctr + x)
    <3> DEFINE a == ctr + x
               m == O + 1
    <3>1. a \in Nat /\ m \in Nat /\ m > 0 /\ ctr' = a % m
      BY <2>2
    <3> HIDE DEF a, m
    <3>2. ctr' \in 0..(m - 1) /\ (a < m => ctr' = a)
      BY <3>1, Wraps
    <3> QED
      BY <3>2 DEF a, m
  <2> QED
    BY <1>1, <1>5, <2>1, <2>2, <2>3
<1>7. ASSUME NEW k \in Nat, k <= O PROVE k * RtcPeriod \in Nat /\ k * RtcPeriod <= top
  <2>1. RtcPeriod * k <= RtcPeriod * O /\ RtcPeriod * k \in Nat
    BY <1>1, <1>7, Product
  <2>2. RtcPeriod * k = k * RtcPeriod /\ RtcPeriod * O = O * RtcPeriod
    BY <1>1, <1>7
  <2> QED
    BY <2>1, <2>2
<1>8. rtc_wait' \in Nat /\ rtc_wait' <= top /\ rtc_wait' + rtc_passed' = rtc_wait'
  <2>1. CASE ctr >= cmp
    <3> HIDE DEF top
    <3> QED
      BY <1>1, <1>2, <2>1
  <2>2. CASE ~(ctr >= cmp)
    <3> DEFINE k == cmp - ctr
    <3>1. k \in Nat /\ k <= O /\ rtc_wait' = k * RtcPeriod
      BY <1>1, <1>2, <2>2
    <3> HIDE DEF k, top
    <3>2. rtc_wait' \in Nat /\ rtc_wait' <= top
      BY <1>7, <3>1
    <3> QED
      BY <1>2, <3>2
  <2> QED
    BY <2>1, <2>2
<1>9. Rtc!Now' = ctr'
  <2>1. rtc_passed' \div RtcPeriod = 0
    BY <1>1, <1>2
  <2>2. Rtc!Now' = ctr' % (O + 1)
    BY <1>6, <2>1 DEF Rtc!Now, Rtc!get_act_mtime, Rtc!OVERFLOW
  <2>3. ctr' \in Nat /\ O + 1 \in Nat /\ O + 1 > 0 /\ ctr' < O + 1
    BY <1>1, <1>6
  <2> QED
    BY <2>2, <2>3, Wraps
<1>10. RtcInv'
  <2>1. rtc_wait' \in 0..top /\ rtc_passed' \in 0..top
    <3> HIDE DEF top
    <3> QED
      BY <1>1, <1>2, <1>8
  <2>2. Rtc!TypeOK'
    <3>1. timer_irq' \in {0, 1}
      BY <1>3
    <3>2. Len(rtc_event_q_') <= QueueBound + 1
      BY <1>2, TimersAssumption
    <3> QED
      BY <1>1, <1>2, <1>6, <2>1, <3>1, <3>2 DEF RtcInv, Rtc!TypeOK, Rtc!Words, Rtc!OVERFLOW
  <2>3. timer_irq' = 1 => rtc_wait' + rtc_passed' <= (O - ctr') * RtcPeriod
    <3> DEFINE k == O - ctr'
    <3>1. k \in Nat
      <4>1. O \in Nat /\ ctr' \in 0..O
        BY <1>1, <1>6
      <4> HIDE DEF O
      <4>2. O - ctr' \in Nat
        BY <4>1, WhatIsLeft
      <4> QED
        BY <4>2
    <3> HIDE DEF k
    <3>2. k * RtcPeriod \in Nat
      BY <1>1, <3>1, Product
    <3>3. timer_irq' = 1 => rtc_wait' = 0
      BY <1>2, <1>3
    <3>4. timer_irq' = 1 => rtc_wait' + rtc_passed' <= k * RtcPeriod
      BY <1>8, <3>2, <3>3
    <3> QED
      BY <3>4 DEF k
  <2>4. timer_irq' = 0 => rtc_wait' + rtc_passed' <= (cmp' + O + 1 - ctr') * RtcPeriod
    <3> SUFFICES ASSUME timer_irq' = 0
                 PROVE  rtc_wait' + rtc_passed' <= (cmp' + O + 1 - ctr') * RtcPeriod
      OBVIOUS
    <3> DEFINE k == cmp - ctr
               k2 == cmp' + O + 1 - ctr'
    <3>1. ctr < cmp /\ rtc_wait' = k * RtcPeriod
      BY <1>1, <1>2, <1>3
    <3>2. k \in Nat /\ k2 \in Nat /\ k <= k2
      BY <1>1, <1>2, <1>6, <3>1
    <3> HIDE DEF k, k2
    <3>3. RtcPeriod * k <= RtcPeriod * k2
      BY <1>1, <3>2, Product
    <3>4. RtcPeriod * k = k * RtcPeriod /\ RtcPeriod * k2 = k2 * RtcPeriod
      BY <1>1, <3>2
    <3>5. rtc_wait' <= k2 * RtcPeriod
      BY <3>1, <3>3, <3>4
    <3>6. rtc_wait' + rtc_passed' <= k2 * RtcPeriod
      BY <1>8, <3>5
    <3> QED
      BY <3>6 DEF k2
  <2>5. rtc_wait' + rtc_passed' <= top
    BY <1>8
  <2> QED
    BY <1>2, <2>2, <2>3, <2>4, <2>5 DEF RtcInv, Rtc!OVERFLOW
<1>11. ASSUME Rtc!Late' PROVE Rtc!Rewritten
  <2> SUFFICES ASSUME rtc_passed < RtcPeriod PROVE FALSE
    BY <1>1, <1>2 DEF Rtc!Rewritten
  <2>1. ctr < cmp /\ rtc_wait' > (cmp - ctr) * RtcPeriod /\ rtc_wait' = (cmp - ctr) * RtcPeriod
    BY <1>1, <1>2, <1>6, <1>8, <1>11 DEF Rtc!Late
  <2> DEFINE x == (cmp - ctr) * RtcPeriod
  <2>2. rtc_wait' > x /\ rtc_wait' = x
    BY <2>1
  <2> HIDE DEF x
  <2> QED
    BY <1>8, <2>2
<1>12. ASSUME Rtc!Missed' PROVE Rtc!Rewritten
  <2>1. timer_irq' = 0 /\ ctr' >= cmp /\ ctr < cmp
    BY <1>1, <1>2, <1>3, <1>9, <1>12 DEF Rtc!Missed
  <2> QED
    BY <1>1, <1>2, <1>6, <2>1 DEF Rtc!Rewritten
<1>13. ASSUME Rtc!Early' PROVE Rtc!Rewritten /\ ctr' < ctr
  <2>1. ctr' < cmp /\ ctr >= cmp
    BY <1>1, <1>2, <1>3, <1>9, <1>13 DEF Rtc!Early
  <2> QED
    BY <1>1, <1>2, <1>6, <2>1 DEF Rtc!Rewritten
<1> QED
  BY <1>10, <1>11, <1>12, <1>13 DEF Rtc!MissedOnlyByRewrite

(* A pair is put at the end of a queue. *)
LEMMA PairAtTheEnd ==
  ASSUME NEW S, NEW q \in Seq(S), NEW a \in S, NEW b \in S
  PROVE  /\ q \o <<a, b>> \in Seq(S)
         /\ Len(q \o <<a, b>>) = Len(q) + 2 /\ Len(q) \in Nat
         /\ (q \o <<a, b>>)[Len(q) + 1] = a
OBVIOUS

(* A half is written: the queue ends with what the registers say then. *)
LEMMA RtcIsWritten == ASSUME RtcInv, Rtc!HalfWrite PROVE RtcInv' /\ Rtc!MissedOnlyByRewrite
<1> DEFINE Events == {"SET_INT", "RESET_INT", "UPDATE_TIME"}
           last == IF ctr' >= cmp' THEN "SET_INT" ELSE "RESET_INT"
<1>1. /\ rtc_event_q_' = rtc_event_q_ \o <<last, "UPDATE_TIME">>
      /\ Len(rtc_event_q_) < QueueBound
      /\ UNCHANGED <<clint_msip, soft_irq, timer_irq, rtc_wait, rtc_passed>>
      /\ ctr' \in Rtc!Words /\ cmp' \in Rtc!Words
  BY DEF Rtc!HalfWrite, RtcInv, Rtc!TypeOK
<1>2. rtc_event_q_ \in Seq(Events) /\ QueueBound \in Nat
  BY TimersAssumption DEF RtcInv
<1>3. last \in Events /\ "UPDATE_TIME" \in Events
  OBVIOUS
<1> HIDE DEF last, Events
<1>4. /\ rtc_event_q_' \in Seq(Events)
      /\ Len(rtc_event_q_') = Len(rtc_event_q_) + 2 /\ Len(rtc_event_q_) \in Nat
      /\ rtc_event_q_'[Len(rtc_event_q_) + 1] = last
  BY <1>1, <1>2, <1>3, PairAtTheEnd
<1>5. rtc_event_q_'[Len(rtc_event_q_') - 1] = last
  <2>1. Len(rtc_event_q_') - 1 = Len(rtc_event_q_) + 1
    BY <1>4
  <2> QED
    BY <1>4, <2>1
<1>6. rtc_event_q_' # <<>>
  BY <1>4
<1>7. Rtc!TypeOK'
  BY <1>1, <1>2, <1>4 DEF RtcInv, Rtc!TypeOK, Rtc!Words, Rtc!OVERFLOW
<1>8. rtc_wait' + rtc_passed' <= Rtc!OVERFLOW' * RtcPeriod
  BY <1>1 DEF RtcInv, Rtc!OVERFLOW
<1>9. Len(rtc_event_q_') >= 2
  BY <1>4
<1> QED
  BY <1>4, <1>5, <1>6, <1>7, <1>8, <1>9
  DEF RtcInv, Rtc!MissedOnlyByRewrite, Rtc!Late, Rtc!Missed, Rtc!Early, last, Events

(* Nothing but the software interrupt changes, or nothing at all. *)
LEMMA RtcStands ==
  ASSUME RtcInv, UNCHANGED <<ctr, cmp, timer_irq, rtc_event_q_, rtc_wait, rtc_passed>>,
         clint_msip' \in 0..3, soft_irq' = clint_msip' % 2
  PROVE  RtcInv' /\ Rtc!MissedOnlyByRewrite
<1>1. Rtc!TypeOK'
  BY DEF RtcInv, Rtc!TypeOK, Rtc!Words, Rtc!OVERFLOW
<1>2. (Rtc!Late' <=> Rtc!Late) /\ (Rtc!Missed' <=> Rtc!Missed) /\ (Rtc!Early' <=> Rtc!Early)
  BY DEF Rtc!Late, Rtc!Missed, Rtc!Early, Rtc!Now, Rtc!get_act_mtime, Rtc!OVERFLOW
<1>3. RtcInv'
  BY <1>1 DEF RtcInv, Rtc!OVERFLOW
<1> QED
  BY <1>2, <1>3 DEF Rtc!MissedOnlyByRewrite

LEMMA RtcStep == ASSUME RtcInv, Rtc!Next PROVE RtcInv' /\ Rtc!MissedOnlyByRewrite
<1>1. CASE Rtc!MsipWrite
  BY <1>1, RtcStands DEF Rtc!MsipWrite
<1> QED
  BY <1>1, RtcIsWritten, RtcWakes, RtcWorksOff, RtcTicks DEF Rtc!Next

LEMMA RtcRests == ASSUME UNCHANGED rtc PROVE RtcInv => RtcInv' /\ Rtc!MissedOnlyByRewrite
<1>1. RtcInv => clint_msip \in 0..3 /\ soft_irq = clint_msip % 2
  BY DEF RtcInv, Rtc!TypeOK
<1> QED
  BY <1>1, RtcStands DEF rtc

LEMMA RtcStarts == ASSUME Rtc!Init PROVE RtcInv
<1> DEFINE O == Rtc!OVERFLOW
           top == O * RtcPeriod
<1>1. O \in Nat /\ O >= 1 /\ RtcPeriod \in Nat /\ top \in Nat
  <2>1. Base \in Nat /\ Base > 1 /\ RtcPeriod \in Nat
    BY TimersAssumption
  <2>2. Base * Base \in Nat /\ Base * Base >= Base
    BY <2>1, Product
  <2>3. O \in Nat /\ O >= 1
    BY <2>1, <2>2 DEF Rtc!OVERFLOW
  <2> QED
    BY <2>1, <2>3, Product
<1>2. /\ ctr = 0 /\ cmp = O /\ clint_msip = 0 /\ soft_irq = 0 /\ timer_irq = 0
      /\ rtc_event_q_ = <<>> /\ rtc_wait = top /\ rtc_passed = 0
  BY DEF Rtc!Init
<1> HIDE DEF top
<1>3. rtc_wait \in 0..top /\ rtc_passed \in 0..top /\ rtc_wait + rtc_passed <= top
  BY <1>1, <1>2
<1>4. Rtc!TypeOK
  <2>1. Len(rtc_event_q_) <= QueueBound + 1
    BY <1>2, TimersAssumption
  <2> HIDE DEF O
  <2>2. ctr \in 0..O /\ cmp \in 0..O /\ 0 = 0 % 2
    BY <1>1, <1>2
  <2> QED
    BY <1>2, <1>3, <2>1, <2>2 DEF Rtc!TypeOK, Rtc!Words, O, top
<1>5. ~(ctr >= cmp)
  BY <1>1, <1>2
<1> QED
  BY <1>2, <1>3, <1>4, <1>5 DEF RtcInv, top

-----------------------------------------------------------------------------
(* The blocks together. *)
TimersInv == ClintInv /\ RtcInv /\ Chan!TypeOK /\ CountInv /\ PwmInv /\ PrciInv

LEMMA TimersStart == Init => TimersInv
BY ClintStarts, RtcStarts, ChanStarts, CountStarts, PwmStarts, PrciStarts DEF Init, TimersInv

(* A step moves one block and leaves the others where they are. *)
LEMMA OneRuns ==
  ASSUME [Next]_vars
  PROVE  /\ Clint!Next \/ UNCHANGED clint
         /\ Rtc!Next \/ UNCHANGED rtc
         /\ Chan!Next \/ UNCHANGED chan
         /\ Count!Next \/ UNCHANGED count
         /\ Pwm!Next \/ UNCHANGED pwm
         /\ Prci!Next \/ UNCHANGED prci
BY DEF Next, vars

LEMMA TimersStep ==
  ASSUME TimersInv, [Next]_vars
  PROVE  /\ TimersInv' /\ Clint!StaleOnlyByResetOrStop /\ Rtc!MissedOnlyByRewrite
         /\ ChanStepOK /\ CountStepOK /\ PwmStepOK /\ PrciStepOK
<1> USE DEF TimersInv
<1>1. ClintInv' /\ Clint!StaleOnlyByResetOrStop
  BY OneRuns, ClintStep, ClintRests
<1>2. RtcInv' /\ Rtc!MissedOnlyByRewrite
  BY OneRuns, RtcStep, RtcRests
<1>3. Chan!TypeOK' /\ ChanStepOK
  BY OneRuns, ChanStep, ChanRests
<1>4. CountInv' /\ CountStepOK
  BY OneRuns, CountStep, CountRests
<1>5. PwmInv' /\ PwmStepOK
  BY OneRuns, PwmStep, PwmRests
<1>6. PrciInv' /\ PrciStepOK
  BY OneRuns, PrciStep, PrciRests
<1> QED
  BY <1>1, <1>2, <1>3, <1>4, <1>5, <1>6

(* The inductive invariant of the timers holds, with the bounds on the wait  *)
(* and the passed time of the Pulpino CLINT that no run could vary.          *)
THEOREM TimersInvHolds == Spec => []TimersInv
<1>1. TimersInv /\ [Next]_vars => TimersInv'
  BY TimersStep
<1> QED
  BY <1>1, TimersStart, PTL DEF Spec

(* A timer that runs has its next event before it, for any period, limit and *)
(* width, and the ready bit of the oscillator follows its enable.            *)
THEOREM RunningIsArmedHolds == Spec => []RunningIsArmed
<1>1. TimersInv => RunningIsArmed
  BY DEF TimersInv, RunningIsArmed, ClintInv, RtcInv, CountInv, PwmInv, PrciInv
<1> QED
  BY <1>1, TimersInvHolds, PTL

(* No interrupt and no clock lapses but for the causes the modules name: for *)
(* the Pulpino CLINT a rewrite a period into a wait, or a compare value of 0, *)
(* for the MINRES prescaler and the PWM a start at time 0.                    *)
THEOREM LapsesAreExplainedHolds == Spec => LapsesAreExplained
<1>1. TimersInv /\ [Next]_vars =>
        [/\ Clint!StaleOnlyByResetOrStop
         /\ Rtc!MissedOnlyByRewrite
         /\ Chan!NeverIsUnderflow /\ Chan!UnheardOnlyByPulse
         /\ Count!AsleepOnlyAtStart
         /\ Pwm!UnarmedOnlyAtStart /\ Pwm!IpStaleOnlyByReset
         /\ Prci!StaleOnlyByReset /\ Prci!XoscReadyIsWritten]_vars
  BY TimersStep DEF ChanStepOK, CountStepOK, PwmStepOK, PrciStepOK
<1> QED
  BY <1>1, TimersInvHolds, PTL DEF Spec, LapsesAreExplained

(* The ticks of a prescaler thin out while it runs, a counter answers every  *)
(* tick alike, and time never stands still at the prescaler or the PWM but   *)
(* for the causes named, for any periods of the clock, zero among them.      *)
THEOREM PaceIsExplainedHolds == Spec => PaceIsExplained
<1>1. TimersInv /\ [Next]_vars =>
        [/\ Count!TicksThinOut /\ Count!AnswersAllTicksAlike /\ Count!RepeatsExplained
         /\ Pwm!StandsStillExplained]_vars
  BY TimersStep DEF CountStepOK, PwmStepOK
<1> QED
  BY <1>1, TimersInvHolds, PTL DEF Spec, PaceIsExplained
=============================================================================
