------------------------------ MODULE SifiveClint ------------------------------
(***************************************************************************)
(* The core local interruptor of src/sifive/clint.cpp, one hart.  mtime is *)
(* brought up to date when somebody looks; between two updates an event is *)
(* to fire when mtime reaches mtimecmp.  Time is discrete.                 *)
(***************************************************************************)
EXTENDS Integers

CONSTANTS
  Periods,   \* values of lfclk_i; 0 is a stopped clock
  MaxMtime   \* bound of the timer and of the compare values

VARIABLES
  clk, age,                   \* the period in use, and the time since last_updt
  mtime, mtimecmp, mtime_irq,
  msip, msip_irq,
  mtime_evt,                  \* time until the event fires, or Never
  clint_in_reset

clintVars == <<clk, age, mtime, mtimecmp, mtime_irq, msip, msip_irq, mtime_evt, clint_in_reset>>

Never == -1

Init ==
  /\ clk = 0 /\ age = 0 /\ mtime = 0 /\ mtimecmp = 0
  /\ mtime_irq = FALSE /\ msip = FALSE /\ msip_irq = FALSE
  /\ mtime_evt = Never /\ clint_in_reset = FALSE

(* Clock periods that have passed unnoticed. *)
Elapsed == IF clk > 0 THEN age \div clk ELSE 0

(* Mutant of update_mtime: the fraction of a period is dropped. *)
MutDropsFraction(time, cmp) ==
  IF clk > 0
  THEN /\ mtime' = time + Elapsed
       /\ age' = 0
       /\ mtime_irq' = (cmp <= mtime')
       /\ mtime_evt' = IF cmp > mtime' THEN clk * (cmp - mtime') + age ELSE Never
  ELSE mtime' = time /\ age' = 0 /\ UNCHANGED <<mtime_irq, mtime_evt>>

(* update_mtime, with mtime and mtimecmp as just written.  The event counts  *)
(* whole periods from now, not from the last edge of the clock.              *)
update_mtime(time, cmp) ==
  IF clk > 0
  THEN /\ mtime' = time + Elapsed
       /\ age' = age % clk
       /\ mtime_irq' = (cmp <= mtime')
       /\ mtime_evt' = IF cmp > mtime' THEN clk * (cmp - mtime') ELSE Never
  ELSE mtime' = time /\ age' = 0 /\ UNCHANGED <<mtime_irq, mtime_evt>>

Write(time, cmp) ==
  /\ ~clint_in_reset
  /\ mtimecmp' = cmp
  /\ update_mtime(time, cmp)
  /\ UNCHANGED <<clk, msip, msip_irq, clint_in_reset>>

MtimecmpWrite(v) == Write(mtime, v)
MtimeWrite(v)    == Write(v, mtimecmp)

(* A read of mtime, also during a reset. *)
MtimeRead ==
  /\ update_mtime(mtime, mtimecmp)
  /\ UNCHANGED <<clk, mtimecmp, msip, msip_irq, clint_in_reset>>

MsipWrite(v) ==
  /\ msip' = v /\ msip_irq' = v
  /\ UNCHANGED <<clk, age, mtime, mtimecmp, mtime_irq, mtime_evt, clint_in_reset>>

(* clock_cb: an update with the old period and one with the new. *)
clock_cb(period) ==
  LET time == mtime + Elapsed
      rest == IF clk > 0 THEN age % clk ELSE 0
  IN  /\ clk' = period
      /\ IF period > 0
         THEN /\ mtime' = time + (rest \div period)
              /\ age' = rest % period
              /\ mtime_irq' = (mtimecmp <= mtime')
              /\ mtime_evt' = IF mtimecmp > mtime' THEN period * (mtimecmp - mtime') ELSE Never
         ELSE /\ mtime' = time /\ age' = 0
              /\ IF clk > 0
                 THEN /\ mtime_irq' = (mtimecmp <= time)
                      /\ mtime_evt' = IF mtimecmp > time THEN clk * (mtimecmp - time) ELSE Never
                 ELSE UNCHANGED <<mtime_irq, mtime_evt>>
      /\ UNCHANGED <<mtimecmp, msip, msip_irq, clint_in_reset>>

reset_cb(active) ==
  /\ clint_in_reset' = active
  /\ IF active
     THEN /\ mtime' = 0 /\ mtimecmp' = 0 /\ msip' = FALSE
          /\ mtime_irq' = FALSE /\ msip_irq' = FALSE
     ELSE UNCHANGED <<mtime, mtimecmp, msip, mtime_irq, msip_irq>>
  /\ UNCHANGED <<clk, age, mtime_evt>>

EventFires ==
  /\ mtime_evt = 0
  /\ IF clk > 0 THEN update_mtime(mtime, mtimecmp)
     ELSE mtime_evt' = Never /\ age' = 0 /\ UNCHANGED <<mtime, mtime_irq>>
  /\ UNCHANGED <<clk, mtimecmp, msip, msip_irq, clint_in_reset>>

(* Time passes, but not past an event; without a clock the time passed will  *)
(* be forgotten by the next update.                                          *)
Tick ==
  /\ mtime_evt # 0 /\ mtime + Elapsed < MaxMtime
  /\ age' = IF clk > 0 THEN age + 1 ELSE 0
  /\ mtime_evt' = IF mtime_evt = Never THEN Never ELSE mtime_evt - 1
  /\ UNCHANGED <<clk, mtime, mtimecmp, mtime_irq, msip, msip_irq, clint_in_reset>>

Next ==
  \/ \E v \in 0..MaxMtime : MtimecmpWrite(v) \/ MtimeWrite(v)
  \/ MtimeRead \/ EventFires \/ Tick
  \/ \E v \in BOOLEAN : MsipWrite(v) \/ reset_cb(v)
  \/ \E period \in Periods : clock_cb(period)

Spec == Init /\ [][Next]_clintVars

-----------------------------------------------------------------------------
TypeOK ==
  /\ clk \in Periods \cup {0} /\ age \in Nat /\ mtime \in Nat /\ mtimecmp \in 0..MaxMtime
  /\ mtime_irq \in BOOLEAN /\ msip \in BOOLEAN /\ msip_irq \in BOOLEAN
  /\ mtime_evt \in Nat \cup {Never} /\ clint_in_reset \in BOOLEAN

(* While the clock runs and mtime is behind the compare value, the event is  *)
(* armed, and for less than one period after the moment it is reached: the   *)
(* fraction of a period that update_mtime ignores makes the interrupt late,  *)
(* but never by a whole period, whatever is rewritten while it is armed.     *)
EventIsArmed ==
  (clk > 0 /\ mtimecmp > mtime) =>
    (mtime_evt # Never /\ mtime_evt + age < clk * (mtimecmp - mtime) + clk)

(* The interrupt tells whether the compare value has been reached by the     *)
(* mtime last computed, unless the clock stood still when the registers were *)
(* written or a reset cleared them.                                          *)
Stale == mtime_irq # (mtimecmp <= mtime)

StaleOnlyByResetOrStop ==
  (Stale' /\ ~Stale) => (clk = 0 \/ clint_in_reset')
=============================================================================
