------------------------------ MODULE MCTimers ------------------------------
(***************************************************************************)
(* The timers and the clock generation.  None of them is connected to      *)
(* another, so one runs while the others rest; `which' names it.           *)
(***************************************************************************)
EXTENDS Integers, Sequences

CONSTANTS Periods, MaxMtime, Base, RtcPeriod, QueueBound, MaxTimer, Prescalers,
          Idx, ClkPeriods, Parts, Limits, Clears, Overflows, PinEdges, Garbage, MaxTime, Top, MaxCount, Scales, CmpWrites, IpGarbage,
          Delay, Dividers

(* Periods, limits and bounds are numbers, a half of a register has more than *)
(* one value, and the powers of two by which the PWM scales are factors.      *)
ASSUME TimersAssumption ==
  /\ Periods \subseteq Nat /\ MaxMtime \in Nat
  /\ Base \in Nat /\ Base > 1 /\ RtcPeriod \in Nat \ {0} /\ QueueBound \in Nat
  /\ MaxTimer \in Nat /\ Prescalers \subseteq Nat /\ 0 \in Prescalers
  /\ Limits \subseteq Nat /\ MaxTime \in Nat /\ ClkPeriods \subseteq Nat /\ Parts \in Nat
  /\ \A period \in ClkPeriods \ {0} : Parts % period = 0
  /\ Top \in Nat /\ MaxCount \in Nat /\ Scales \subseteq Nat
  /\ \A scale \in Scales \cup {0} : 2^scale \in Nat \ {0}
  /\ \A w \in CmpWrites : w[1] \in 0..3 /\ w[2] \in 0..Top
  /\ IpGarbage \subseteq SUBSET (0..3)
  /\ Delay \in Nat /\ 0 \in Dividers

VARIABLES
  which,
  clk, age, mtime, mtimecmp, mtime_irq, msip, msip_irq, mtime_evt, clint_in_reset,
  ctr, cmp, clint_msip, soft_irq, timer_irq, rtc_event_q_, rtc_wait, rtc_passed,
  ch, timer, tcmp, ten, pre, event_q, notified, t_wait, t_passed, pulse,
  now, last_update, clk_period, last_clk_period, clk_remainder, limit, presc_counter, presc_reset,
  presc_enable, presc_evt, tick_evt, enable, clear, overflow, counters, interrupt_o, timer_rst,
  last_tick, heard,
  running, last_running, cfg, cmp_reg, current_cnt, since, reset_cnt, last_enable, pwmcmp_ip,
  update_evt, gpio_o, cmpip_o, at_zero,
  hfrosccfg, hfxosccfg, pllcfg, plloutdiv, hfrosc_evt, hfxosc_evt, prci_rst, hfclk_o, erst_n, rst_o

clint == <<clk, age, mtime, mtimecmp, mtime_irq, msip, msip_irq, mtime_evt, clint_in_reset>>
rtc   == <<ctr, cmp, clint_msip, soft_irq, timer_irq, rtc_event_q_, rtc_wait, rtc_passed>>
chan  == <<ch, timer, tcmp, ten, pre, event_q, notified, t_wait, t_passed, pulse>>
count == <<now, last_update, clk_period, last_clk_period, clk_remainder, limit, presc_counter,
           presc_reset, presc_enable, presc_evt, tick_evt, enable, clear, overflow, counters,
           interrupt_o, timer_rst, last_tick, heard>>
pwm   == <<running, last_running, cfg, cmp_reg, current_cnt, since, reset_cnt, last_enable,
           pwmcmp_ip, update_evt, gpio_o, cmpip_o, at_zero>>
prci  == <<hfrosccfg, hfxosccfg, pllcfg, plloutdiv, hfrosc_evt, hfxosc_evt, prci_rst, hfclk_o,
           erst_n, rst_o>>
vars  == <<which, clint, rtc, chan, count, pwm, prci>>

Clint == INSTANCE SifiveClint
Rtc   == INSTANCE PulpinoClint
Chan  == INSTANCE PulpinoTimer
Count == INSTANCE MinresTimer
Pwm   == INSTANCE SifivePwm
Prci  == INSTANCE SifivePrci

Init ==
  /\ which \in {"clint", "rtc", "chan", "count", "pwm", "prci"}
  /\ Clint!Init /\ Rtc!Init /\ Chan!Init /\ Count!Init /\ Pwm!Init /\ Prci!Init
  /\ which # "chan" => ch = "A"
  /\ which # "count" => \A i, j \in Idx : counters[i] = 0

Next ==
  /\ UNCHANGED which
  /\ \/ which = "clint" /\ Clint!Next /\ UNCHANGED <<rtc, chan, count, pwm, prci>>
     \/ which = "rtc"   /\ Rtc!Next   /\ UNCHANGED <<clint, chan, count, pwm, prci>>
     \/ which = "chan"  /\ Chan!Next  /\ UNCHANGED <<clint, rtc, count, pwm, prci>>
     \/ which = "count" /\ Count!Next /\ UNCHANGED <<clint, rtc, chan, pwm, prci>>
     \/ which = "pwm"   /\ Pwm!Next   /\ UNCHANGED <<clint, rtc, chan, count, prci>>
     \/ which = "prci"  /\ Prci!Next  /\ UNCHANGED <<clint, rtc, chan, count, pwm>>

Spec == Init /\ [][Next]_vars

-----------------------------------------------------------------------------
(* Comparator 0 gets two values, the one with the factor of its own another. *)
MCCmpWrites == {<<0, 1>>, <<0, 2>>, <<2, 2>>}
MCIpGarbage == {{}}

(* No edge, one, or a tick and the clear that overrules it. *)
MCPinEdges == {<<{}, {}>>, <<{0}, {}>>, <<{}, {0}>>, <<{}, {1}>>, <<{0}, {0}>>}

(* A timer that runs and has not reached its goal has an event before it, in *)
(* time: the MTIME event of the SiFive CLINT within a period of the moment   *)
(* it is for, the next update of an enabled prescaler at all.  The ready bit *)
(* of the oscillator ends where its enable bit is.                           *)
RunningIsArmed ==
  /\ Clint!TypeOK /\ Clint!EventIsArmed
  /\ Rtc!TypeOK
  /\ Chan!TypeOK
  /\ Count!TypeOK /\ Count!PrescalerRuns
  /\ Pwm!TypeOK
  /\ Prci!TypeOK /\ Prci!ReadySettles

(* An interrupt that does not come, comes early or stays, a prescaler or PWM *)
(* that was started and does not run, and a clock that is not the one        *)
(* selected: each has one of the causes the module names.                    *)
LapsesAreExplained ==
  [][/\ Clint!StaleOnlyByResetOrStop
     /\ Rtc!MissedOnlyByRewrite
     /\ Chan!NeverIsUnderflow /\ Chan!UnheardOnlyByPulse
     /\ Count!AsleepOnlyAtStart
     /\ Pwm!UnarmedOnlyAtStart /\ Pwm!IpStaleOnlyByReset
     /\ Prci!StaleOnlyByReset /\ Prci!XoscReadyIsWritten]_vars

(* The distance between two things a timer does: ticks of the prescaler thin *)
(* out, counters that count nothing answer every tick alike, and prescaler   *)
(* and PWM ask for an update in no time only for the causes they name.       *)
PaceIsExplained ==
  [][/\ Count!TicksThinOut /\ Count!AnswersAllTicksAlike /\ Count!RepeatsExplained
     /\ Pwm!StandsStillExplained]_vars
=============================================================================
