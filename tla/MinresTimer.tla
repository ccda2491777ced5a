------------------------------- MODULE MinresTimer -------------------------------
(***************************************************************************)
(* The prescaler and the two counters of src/minres/timer.cpp.  Time runs  *)
(* from the start of the simulation; the clock has a period of several     *)
(* units of it, or of zero while it is not set or stopped.  The counters   *)
(* are never initialised, and never written either: update_counter counts  *)
(* in a copy.                                                              *)
(***************************************************************************)
EXTENDS Integers

CONSTANTS
  Idx,         \* the counters; {0, 1} in the code
  ClkPeriods,  \* periods of the clock
  Parts,       \* what a fraction of a clock is counted in: Parts of them are a clock
  Limits,      \* values of the prescaler register
  Clears,      \* values of the clear fields, as sets of bits
  Overflows,   \* values of the overflow registers
  PinEdges,    \* clear and tick pins that rise together, as pairs of sets
  Garbage,     \* values memory may hold before it is written
  MaxTime      \* bound on simulated time

VARIABLES
  now, last_update,
  clk_period, last_clk_period, clk_remainder,
  limit, presc_counter, presc_reset, presc_enable,
  presc_evt, tick_evt,         \* moment of the next prescaler update and tick, or Never
  enable, clear, overflow,     \* registers of counters 0 and 1
  counters, interrupt_o,
  timer_rst,                   \* the level of rst_i
  last_tick,                   \* moment of the last tick that a prescaler was set for
  heard                        \* what a counter answered to ticks since its overflow was written

clkVars   == <<clk_period, last_clk_period, clk_remainder>>
prescVars == <<limit, presc_counter, presc_reset, presc_enable, presc_evt>>
tickVars  == <<tick_evt, last_tick>>
regVars   == <<enable, clear, overflow>>
mtimerVars == <<now, last_update, clkVars, prescVars, tickVars, regVars, counters, interrupt_o,
                timer_rst, heard>>

Never == -1

Init ==
  /\ now = 0 /\ last_update = 0
  /\ clk_period = 0 /\ last_clk_period = 0 /\ clk_remainder = 0
  /\ limit = 0 /\ presc_counter = 0 /\ presc_reset = FALSE /\ presc_enable = FALSE
  /\ presc_evt = Never /\ tick_evt = Never
  /\ enable = [i \in Idx |-> FALSE] /\ clear = [i \in Idx |-> {}] /\ overflow = [i \in Idx |-> 0]
  /\ counters \in [Idx -> Garbage]
  /\ interrupt_o = [i \in Idx |-> FALSE] /\ timer_rst = FALSE
  /\ last_tick = 0 /\ heard = [i \in Idx |-> {}]

(* An earlier notification of an event stands; a later one gives way. *)
Notify(evt, moment) == IF evt # Never /\ evt <= moment THEN evt ELSE moment

(* get_pulses: clocks since the last update, in the period of that time, and  *)
(* the fractions of a clock that are left over, this time's and those before. *)
Clocks == IF last_clk_period > 0 THEN (now - last_update) \div last_clk_period ELSE 0
Rest   == clk_remainder + IF last_clk_period > 0
                          THEN ((now - last_update) % last_clk_period) * (Parts \div last_clk_period)
                          ELSE 0
pulses == IF Rest > Parts THEN Clocks + 1 ELSE Clocks

(* The counter after these clocks. *)
Prescaled ==
  IF presc_reset THEN 0 ELSE IF presc_enable THEN presc_counter + pulses ELSE presc_counter

(* Times to the next update.  Above its limit the counter is a huge unsigned  *)
(* number of clocks away from it, too many for a time: the conversion then is *)
(* undefined and gives no time at all or one beyond any simulation.           *)
Waits(count) ==
  IF count = limit THEN {clk_period}
  ELSE IF count < limit THEN {(limit - count) * clk_period}
  ELSE IF clk_period = 0 THEN {0} ELSE {0, MaxTime + 1}

(* update_prescaler with a limit.  The tick is notified with a point in time  *)
(* where a delay is expected: it comes at twice the present time and more.    *)
Prescale ==
  /\ now > 0 /\ limit > 0
  /\ presc_counter' = Prescaled /\ presc_reset' = (Prescaled = limit) /\ presc_enable' = TRUE
  /\ clk_remainder' = IF Rest > Parts THEN Rest - Parts ELSE Rest
  /\ \E next \in Waits(Prescaled) :
       /\ presc_evt' = now + next
       /\ tick_evt' = IF Prescaled = limit THEN tick_evt ELSE Notify(tick_evt, now + (now + next))
  /\ last_update' = now /\ last_clk_period' = clk_period
  /\ UNCHANGED last_tick

(* Without one every update of the prescaler is a tick. *)
PassOn ==
  /\ now > 0 /\ limit = 0
  /\ tick_evt' = now /\ presc_evt' = Never /\ presc_enable' = FALSE
  /\ last_update' = now /\ last_clk_period' = clk_period
  /\ last_tick' = 0
  /\ UNCHANGED <<clk_remainder, presc_counter, presc_reset>>

(* At time 0 the update returns at once, and its event is gone. *)
ReturnAtStart ==
  /\ now = 0 /\ presc_evt' = Never
  /\ UNCHANGED <<last_update, clk_remainder, last_clk_period, presc_counter, presc_reset,
                 presc_enable, tickVars>>

update_prescaler ==
  /\ presc_evt = now
  /\ Prescale \/ PassOn \/ ReturnAtStart
  /\ UNCHANGED <<now, clk_period, limit, regVars, counters, interrupt_o, timer_rst, heard>>

PrescalerWrite(v) ==
  /\ limit' = v /\ presc_evt' = now
  /\ UNCHANGED <<now, last_update, clkVars, presc_counter, presc_reset, presc_enable, tickVars, regVars,
                 counters, interrupt_o, timer_rst, heard>>

set_clock_period(period) ==
  /\ clk_period' = period /\ presc_evt' = now
  /\ UNCHANGED <<now, last_update, last_clk_period, clk_remainder, limit, presc_counter, presc_reset,
                 presc_enable, tickVars, regVars, counters, interrupt_o, timer_rst, heard>>

(* Whether a counter gets a tick and no clear.  The tick pins are masked with *)
(* the two bits of the clear field, one further up: bit 1 is for pin 0, and   *)
(* pin 1 has none.                                                            *)
Ticked(i, tick, clears, ticks) ==
  clears \cap clear[i] = {} /\ ((enable[i] /\ tick) \/ (0 \in ticks /\ 1 \in clear[i]))
Answer(i) == counters[i] + 1 >= overflow[i]

(* update_counter, and the answers it gives to ticks. *)
update_counter(tick, clears, ticks) ==
  LET Counts(i) == now > 0 /\ Ticked(i, tick, clears, ticks)
  IN  /\ interrupt_o' = [i \in Idx |-> IF now = 0 THEN interrupt_o[i] ELSE Counts(i) /\ Answer(i)]
      /\ heard' = [i \in Idx |-> IF Counts(i) THEN heard[i] \cup {Answer(i)} ELSE heard[i]]

(* A tick of the prescaler, with or without edges on the pins. *)
Tick(clears, ticks) ==
  /\ tick_evt = now
  /\ tick_evt' = Never /\ last_tick' = now
  /\ update_counter(TRUE, clears, ticks)
  /\ UNCHANGED <<now, last_update, clkVars, prescVars, regVars, counters, timer_rst>>

PinsRise(clears, ticks) ==
  /\ clears \cup ticks # {}
  /\ update_counter(FALSE, clears, ticks)
  /\ UNCHANGED <<now, last_update, clkVars, prescVars, tickVars, regVars, counters, timer_rst>>

(* A write of a control or overflow register, and the update it asks for,     *)
(* which finds no tick and lowers the output.                                 *)
CounterWrite(i) ==
  /\ \/ /\ \/ enable' \in {[enable EXCEPT ![i] = e] : e \in BOOLEAN} /\ UNCHANGED clear
           \/ clear' \in {[clear EXCEPT ![i] = c] : c \in Clears} /\ UNCHANGED enable
        /\ UNCHANGED <<overflow, heard>>
     \/ /\ overflow' \in {[overflow EXCEPT ![i] = v] : v \in Overflows}
        /\ heard' = [heard EXCEPT ![i] = {}] /\ UNCHANGED <<enable, clear>>
  /\ interrupt_o' = [interrupt_o EXCEPT ![i] = IF now = 0 THEN @ ELSE FALSE]
  /\ UNCHANGED <<now, last_update, clkVars, prescVars, tickVars, counters, timer_rst>>

(* reset_cb: outputs at both edges, registers when the reset begins; the      *)
(* prescaler keeps running.                                                   *)
reset_cb ==
  /\ timer_rst' = ~timer_rst
  /\ interrupt_o' = [i \in Idx |-> FALSE]
  /\ IF timer_rst' THEN /\ limit' = 0 /\ enable' = [i \in Idx |-> FALSE]
                        /\ clear' = [i \in Idx |-> {}] /\ overflow' = [i \in Idx |-> 0]
                        /\ heard' = [i \in Idx |-> {}]
     ELSE UNCHANGED <<limit, regVars, heard>>
  /\ UNCHANGED <<now, last_update, clkVars, presc_counter, presc_reset, presc_enable, presc_evt,
                 tickVars, counters>>

Time ==
  /\ now < MaxTime /\ presc_evt # now /\ tick_evt # now
  /\ now' = now + 1
  /\ UNCHANGED <<last_update, clkVars, prescVars, tickVars, regVars, counters, interrupt_o, timer_rst, heard>>

Next ==
  \/ update_prescaler \/ Time \/ reset_cb
  \/ \E v \in Limits : PrescalerWrite(v)
  \/ \E period \in ClkPeriods : set_clock_period(period)
  \/ \E e \in PinEdges : Tick(e[1], e[2]) \/ PinsRise(e[1], e[2])
  \/ \E i \in Idx : CounterWrite(i)

Spec == Init /\ [][Next]_mtimerVars

-----------------------------------------------------------------------------
TypeOK ==
  /\ now \in 0..MaxTime /\ last_update \in 0..now /\ last_tick \in 0..now
  /\ clk_period \in Nat /\ last_clk_period \in Nat /\ clk_remainder \in Nat
  /\ limit \in Nat /\ presc_counter \in Nat /\ presc_reset \in BOOLEAN /\ presc_enable \in BOOLEAN
  /\ presc_evt \in Nat \cup {Never} /\ tick_evt \in Nat \cup {Never}
  /\ interrupt_o \in [Idx -> BOOLEAN] /\ timer_rst \in BOOLEAN

(* The prescaler is never late for itself: an update that is due has not been *)
(* passed, and a running prescaler always has its next update before it.      *)
PrescalerRuns ==
  /\ presc_evt # Never => presc_evt >= now
  /\ tick_evt # Never => tick_evt >= now
  /\ presc_enable => presc_evt # Never

(* A limit without an update before it gives no ticks.  It is left so only by *)
(* an update at time 0: whatever was written by then is not looked at again,  *)
(* but no clock, write or reset later on takes a prescaler its update.        *)
Asleep == limit > 0 /\ presc_evt = Never
AsleepOnlyAtStart == (Asleep' /\ ~Asleep) => update_prescaler /\ now = 0

(* The ticks of a prescaler, periodic by its intent, thin out, whatever its   *)
(* clock and limit: each comes at twice the time of the one before or later,  *)
(* as long as the limit was not 0 in between.                                 *)
TicksThinOut == (tick_evt = now /\ tick_evt' = Never) => now >= 2 * last_tick

(* The counters do not count: until its overflow register is written, a       *)
(* counter answers every tick that reaches it, by the prescaler or by a pin,  *)
(* with an interrupt, or none of them.                                        *)
AnswersAllTicksAlike == \A i \in Idx : heard'[i] # BOOLEAN

(* The update asks for itself again at once, so that time stands still, only  *)
(* without a clock, or where the limit was set to less than was counted.      *)
RepeatsExplained == (update_prescaler /\ presc_evt' = now) => clk_period = 0 \/ presc_counter' > limit
=============================================================================
