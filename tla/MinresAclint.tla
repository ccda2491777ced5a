----------------------------- MODULE MinresAclint -----------------------------
(***************************************************************************)
(* The advanced core-local interruptor of src/minres/aclint.cpp: one time  *)
(* counter, and per hart a compare register and a software interrupt.      *)
(*                                                                         *)
(* mtime is only brought up to date by update_mtime, which register writes,*)
(* resets and the event mtime_evt call.  Time is kept relative to now: how *)
(* long ago the last update was and when the event is due.  A callback     *)
(* that waits for the delay of its transaction does so before it reads or  *)
(* changes anything, so it is one action at the end of that delay.         *)
(***************************************************************************)
EXTENDS Integers, Sequences

CONSTANTS
  NumCpus,      \* num_cpus
  NoCompare,    \* the reset value of mtimecmp, 2^64 - 1
  ClkPeriods,   \* the values of mtime_clk_i; 0 is a clock that stands still
  CmpWrites,    \* values software writes to mtimecmp
  MtimeWrites,  \* values software writes to mtime
  Bindings,     \* whether the optional port mtime_o may be bound
  MaxSince,     \* bound on the time without an update
  MaxMtime,     \* bound on mtime
  MaxQueue      \* bound on the software interrupts in flight

Harts == 0..(NumCpus - 1)

ASSUME AclintAssumption ==
  /\ NumCpus \in Nat \ {0}
  /\ NoCompare \in Nat /\ MaxSince \in Nat /\ MaxMtime \in Nat /\ MaxQueue \in Nat
  /\ NoCompare > MaxMtime + MaxSince
  /\ ClkPeriods \subseteq Nat
  /\ CmpWrites \subseteq 0..NoCompare
  /\ MtimeWrites \subseteq 0..MaxMtime
  /\ Bindings \subseteq BOOLEAN

VARIABLES
  msip, mtimecmp, mtime,  \* the registers
  in_reset,               \* between reset_start and reset_stop
  clk,                    \* mtime_clk_period
  started,                \* sc_time_stamp() > SC_ZERO_TIME
  since,                  \* sc_time_stamp() - last_updt
  timer,                  \* time until mtime_evt is due, or Never
  irq_val,                \* software interrupts on their way to the outputs
  msip_int_o, mtime_int_o,
  mtime_o, bound,         \* the optional output of mtime, and whether it is bound
  steady                  \* history: the clock has not changed since the registers were
                          \* last evaluated

regVars == <<msip, mtimecmp, mtime, in_reset>>
timeVars == <<since, timer, mtime_int_o, mtime_o, steady>>
vars == <<msip, mtimecmp, mtime, in_reset, clk, started, since, timer, irq_val,
          msip_int_o, mtime_int_o, mtime_o, bound, steady>>

Never == -1

(* The port clocks are read when the simulation starts; the evaluation at    *)
(* time zero does nothing.                                                   *)
Init ==
  /\ msip = [i \in Harts |-> 0]
  /\ mtimecmp = [i \in Harts |-> NoCompare]
  /\ mtime = 0
  /\ in_reset = FALSE
  /\ clk \in ClkPeriods
  /\ started = FALSE
  /\ since = 0 /\ timer = Never
  /\ irq_val = <<>>
  /\ msip_int_o = [i \in Harts |-> 0]
  /\ mtime_int_o = [i \in Harts |-> FALSE]
  /\ mtime_o = 0 /\ bound \in Bindings
  /\ steady = FALSE

-----------------------------------------------------------------------------
elapsed_clks == IF clk = 0 THEN 0 ELSE since \div clk

(* mtimecmp_min over all harts *)
Earliest(cmp) == CHOOSE t \in {cmp[i] : i \in Harts} : \A i \in Harts : t <= cmp[i]

(* When mtime_evt is due after an evaluation at mtime = t: every clock if    *)
(* mtime_o is bound, else at the earliest compare of all harts, unless that  *)
(* is reached already.  The time to NoCompare is beyond the range of sc_time *)
(* and of any simulation.                                                    *)
NextTrigger(cmp, t) ==
  IF bound THEN clk
  ELSE IF Earliest(cmp) = NoCompare \/ Earliest(cmp) <= t THEN Never
  ELSE clk * (Earliest(cmp) - t)

(* Mutant of update_mtime: the elapsed clocks are not added.                 *)
MutForgetsElapsed(base, cmp) ==
  /\ IF started /\ clk > 0
     THEN /\ mtime' = base
          /\ mtime_o' = mtime_o
          /\ mtime_int_o' = [i \in Harts |-> cmp[i] <= mtime']
          /\ timer' = NextTrigger(cmp, mtime')
          /\ steady' = TRUE
     ELSE /\ mtime' = base
          /\ timer' = IF timer = 0 THEN Never ELSE timer
          /\ UNCHANGED <<mtime_o, mtime_int_o, steady>>
  /\ since' = 0

(* update_mtime, with the registers as the caller leaves them: mtime at      *)
(* `base' and mtimecmp at `cmp'.  The fraction of a clock that has passed is *)
(* dropped, since last_updt becomes now.  An event that is due is spent.     *)
update_mtime(base, cmp) ==
  /\ IF started /\ clk > 0
     THEN /\ mtime' = base + elapsed_clks
          /\ mtime_o' = IF bound /\ elapsed_clks > 0 THEN mtime' ELSE mtime_o
          /\ mtime_int_o' = [i \in Harts |-> cmp[i] <= mtime']
          /\ timer' = NextTrigger(cmp, mtime')
          /\ steady' = TRUE
     ELSE /\ mtime' = base
          /\ timer' = IF timer = 0 THEN Never ELSE timer
          /\ UNCHANGED <<mtime_o, mtime_int_o, steady>>
  /\ since' = 0

-----------------------------------------------------------------------------
(* Mutant of MtimeWrite: the value is stored and nothing evaluated. *)
MutMtimeOnlyStored(t) ==
  /\ ~in_reset
  /\ mtime' = t
  /\ UNCHANGED <<msip, mtimecmp, in_reset, clk, started, irq_val, msip_int_o, bound, timeVars>>

(* A write of mtime: the clocks since the last update are added to the value *)
(* written.                                                                  *)
MtimeWrite(t) ==
  /\ ~in_reset
  /\ update_mtime(t, mtimecmp)
  /\ UNCHANGED <<msip, mtimecmp, in_reset, clk, started, irq_val, msip_int_o, bound>>

(* Mutant of MtimecmpWrite: likewise. *)
MutCompareOnlyStored(i, t) ==
  /\ ~in_reset
  /\ mtimecmp' = [mtimecmp EXCEPT ![i] = t]
  /\ UNCHANGED <<msip, mtime, in_reset, clk, started, irq_val, msip_int_o, bound, timeVars>>

MtimecmpWrite(i, t) ==
  /\ ~in_reset
  /\ mtimecmp' = [mtimecmp EXCEPT ![i] = t]
  /\ update_mtime(mtime, mtimecmp')
  /\ UNCHANGED <<msip, in_reset, clk, started, irq_val, msip_int_o, bound>>

MsipWrite(i, bit) ==
  /\ ~in_reset
  /\ Len(irq_val) < MaxQueue
  /\ msip' = [msip EXCEPT ![i] = bit]
  /\ irq_val' = Append(irq_val, [hart |-> i, level |-> bit])
  /\ UNCHANGED <<mtimecmp, mtime, in_reset, clk, started, msip_int_o, bound, timeVars>>

(* The level the queue leaves at the output of hart i. *)
LastLevel(queue, i, level) ==
  LET mine == {k \in DOMAIN queue : queue[k].hart = i}
  IN  IF mine = {} THEN level
      ELSE queue[CHOOSE k \in mine : \A l \in mine : l <= k].level

(* Mutant of write_irq: only the first entry is taken. *)
MutTakesOne ==
  /\ irq_val # <<>>
  /\ irq_val' = <<>>
  /\ msip_int_o' = [msip_int_o EXCEPT ![irq_val[1].hart] = irq_val[1].level]
  /\ UNCHANGED <<regVars, clk, started, bound, timeVars>>

(* write_irq in the next delta cycle: all queued levels, in order. *)
write_irq ==
  /\ irq_val # <<>>
  /\ irq_val' = <<>>
  /\ msip_int_o' = [i \in Harts |-> LastLevel(irq_val, i, msip_int_o[i])]
  /\ UNCHANGED <<regVars, clk, started, bound, timeVars>>

(* The event mtime_evt calls update_mtime, which arms it again or not. *)
TimerFires ==
  /\ timer = 0
  /\ update_mtime(mtime, mtimecmp)
  /\ UNCHANGED <<msip, mtimecmp, in_reset, clk, started, irq_val, msip_int_o, bound>>

(* update_mtime_clk stores the period and brings nothing up to date. *)
update_mtime_clk(period) ==
  /\ period # clk
  /\ clk' = period
  /\ steady' = FALSE
  /\ UNCHANGED <<regVars, started, since, timer, irq_val, msip_int_o, mtime_int_o,
                 mtime_o, bound>>

(* The clock of the bus changes: set_clock_period brackets it by updates. *)
set_clock_period ==
  /\ update_mtime(mtime, mtimecmp)
  /\ UNCHANGED <<msip, mtimecmp, in_reset, clk, started, irq_val, msip_int_o, bound>>

(* reset_cb: the registers are reset, neither msip_int_o nor the queue is. *)
ResetStart ==
  /\ ~in_reset
  /\ in_reset' = TRUE
  /\ msip' = [i \in Harts |-> 0]
  /\ mtimecmp' = [i \in Harts |-> NoCompare]
  /\ update_mtime(0, mtimecmp')
  /\ UNCHANGED <<clk, started, irq_val, msip_int_o, bound>>

ResetStop ==
  /\ in_reset
  /\ in_reset' = FALSE
  /\ update_mtime(mtime, mtimecmp)
  /\ UNCHANGED <<msip, mtimecmp, clk, started, irq_val, msip_int_o, bound>>

(* Time passes once everything due now has run. *)
Elapse ==
  /\ timer # 0 /\ irq_val = <<>>
  /\ since < MaxSince /\ mtime < MaxMtime
  /\ started' = TRUE
  /\ since' = since + 1
  /\ timer' = IF timer = Never THEN Never ELSE timer - 1
  /\ UNCHANGED <<regVars, clk, irq_val, msip_int_o, mtime_int_o, mtime_o, bound, steady>>

Next ==
  \/ \E t \in MtimeWrites : MtimeWrite(t)
  \/ \E i \in Harts, t \in CmpWrites : MtimecmpWrite(i, t)
  \/ \E i \in Harts, bit \in {0, 1} : MsipWrite(i, bit)
  \/ write_irq
  \/ TimerFires
  \/ \E period \in ClkPeriods : update_mtime_clk(period)
  \/ set_clock_period
  \/ ResetStart \/ ResetStop
  \/ Elapse

Spec == Init /\ [][Next]_vars

-----------------------------------------------------------------------------
TypeOK ==
  /\ msip \in [Harts -> {0, 1}]
  /\ mtimecmp \in [Harts -> 0..NoCompare]
  /\ mtime \in Nat
  /\ in_reset \in BOOLEAN
  /\ clk \in ClkPeriods
  /\ started \in BOOLEAN
  /\ since \in 0..MaxSince
  /\ timer \in Nat \cup {Never}
  /\ irq_val \in Seq([hart : Harts, level : {0, 1}])
  /\ msip_int_o \in [Harts -> {0, 1}]
  /\ mtime_int_o \in [Harts -> BOOLEAN]
  /\ mtime_o \in Nat /\ bound \in BOOLEAN /\ steady \in BOOLEAN

(* What a read of mtime returns now. *)
ReadMtime == IF in_reset THEN 0 ELSE mtime + elapsed_clks

Reached(i) == clk > 0 /\ mtimecmp[i] <= mtime + elapsed_clks
Missed(i) == Reached(i) /\ timer # 0 /\ ~mtime_int_o[i]
Early(i) == clk > 0 /\ ~Reached(i) /\ mtime_int_o[i]

(* A hart's timer interrupt is missed, with its compare register reached, the *)
(* output low and no evaluation due, only if the clock changed since the last   *)
(* evaluation, or behind another hart: the next trigger is computed   *)
(* from the earliest compare of all harts, and none is set once that one is   *)
(* reached.                                                                   *)
MissedOnlyBehindAnother ==
  [][\A i \in Harts : ~Missed(i) /\ Missed(i)' =>
       \/ ~steady'
       \/ ~bound /\ \E j \in Harts \ {i} : mtimecmp[j] <= mtime]_vars

(* aclint.cpp:104: "check all mtimecmp register if there is an interrupt".    *)
(* While the clock stands no hart's interrupt is missed.                      *)
AllComparesAreChecked ==
  [][\A i \in Harts : ~Missed(i) /\ Missed(i)' => ~steady']_vars

(* An interrupt is signalled before its time only by a change of the clock.   *)
EarlyOnlyByClock ==
  [][\A i \in Harts : ~Early(i) /\ Early(i)' => clk' # clk]_vars

(* The event stands for what it was armed for: in an undisturbed clock it is  *)
(* due when the earliest compare of all harts is reached, counting what has   *)
(* passed of the current clock, or at the next clock if mtime_o is bound; and *)
(* no output is high before the first evaluation.                             *)
ArmedForTheEarliest ==
  /\ steady =>
       /\ started /\ clk > 0
       /\ IF bound THEN timer # Never /\ since + timer = clk
          ELSE IF NextTrigger(mtimecmp, mtime) = Never THEN timer = Never
          ELSE timer # Never /\ since + timer = NextTrigger(mtimecmp, mtime)
  /\ ~started => since = 0 /\ \A i \in Harts : ~mtime_int_o[i]

(* mtime loses a fraction of a clock by accesses and resets, each of which    *)
(* sets last_updt to now, but never by the event: unless the clock changed    *)
(* since, that one is due at a whole number of clocks.                        *)
EventOnClock ==
  timer # Never /\ steady /\ clk > 0 => (since + timer) % clk = 0

(* A read of mtime never returns less than an earlier one did, unless mtime   *)
(* was written, the registers were reset or the clock changed.                *)
ReadsMonotone ==
  [][ReadMtime' < ReadMtime =>
       \/ \E t \in MtimeWrites : MtimeWrite(t)
       \/ ResetStart
       \/ clk' # clk]_vars

(* A hart's software interrupt is, or will be once what is in flight arrives, *)
(* what was last written to its msip, however writes to several harts         *)
(* interleave, unless a reset cleared the register: it leaves the output and  *)
(* what is in flight alone.                                                   *)
MsipStale(i) == LastLevel(irq_val, i, msip_int_o[i]) # msip[i]

MsipStaleOnlyByReset ==
  [][\A i \in Harts : ~MsipStale(i) /\ MsipStale(i)' => ResetStart]_vars

=============================================================================
