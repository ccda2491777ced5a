------------------------------ MODULE PulpinoClint ------------------------------
(***************************************************************************)
(* The core local interruptor of src/pulpino/clint.h: registers written by *)
(* halves, a queue of events from the callbacks to the timer process, and  *)
(* one process that sleeps until the compare value or the overflow.        *)
(***************************************************************************)
EXTENDS Integers, Sequences, FiniteSets

CONSTANTS
  Base,         \* 2^32: a half is 0..Base - 1
  RtcPeriod,    \* units of time in a period of the clock
  QueueBound    \* bound on the events queued within one instant

VARIABLES
  ctr, cmp,             \* mtimehi/lo and mtimecmphi/lo
  clint_msip, soft_irq, \* msip_ and irq_out[0]
  timer_irq,            \* irq_out[1]
  rtc_event_q_,
  rtc_wait, rtc_passed  \* what is left of the wait, and the time since its entry

pclintVars == <<ctr, cmp, clint_msip, soft_irq, timer_irq, rtc_event_q_, rtc_wait, rtc_passed>>

OVERFLOW == Base * Base - 1
Words    == 0..OVERFLOW
SameLow(a, b)  == a % Base = b % Base
SameHigh(a, b) == a \div Base = b \div Base

(* reset(), which only the constructor calls, and the entry of the process. *)
Init ==
  /\ ctr = 0 /\ cmp = OVERFLOW /\ clint_msip = 0 /\ soft_irq = 0 /\ timer_irq = 0
  /\ rtc_event_q_ = <<>>
  /\ rtc_wait = OVERFLOW * RtcPeriod /\ rtc_passed = 0

MsipWrite ==
  /\ clint_msip' \in 0..3 /\ soft_irq' = clint_msip' % 2
  /\ UNCHANGED <<ctr, cmp, timer_irq, rtc_event_q_, rtc_wait, rtc_passed>>

(* A write of one half of the timer or of the compare value; the process is  *)
(* woken within the instant, and another write may come first.               *)
HalfWrite ==
  /\ Len(rtc_event_q_) < QueueBound
  /\ \/ ctr' \in {w \in Words : SameLow(w, ctr) \/ SameHigh(w, ctr)} /\ cmp' = cmp
     \/ cmp' \in {w \in Words : SameLow(w, cmp) \/ SameHigh(w, cmp)} /\ ctr' = ctr
  /\ rtc_event_q_' = rtc_event_q_ \o <<IF ctr' >= cmp' THEN "SET_INT" ELSE "RESET_INT", "UPDATE_TIME">>
  /\ UNCHANGED <<clint_msip, soft_irq, timer_irq, rtc_wait, rtc_passed>>

(* get_act_mtime: what a read of mtime shows. *)
get_act_mtime(time, passed) == (time + (passed \div RtcPeriod)) % (OVERFLOW + 1)

(* The wait is over: the compare value is reached, or the timer overflows. *)
TimerEvent ==
  /\ rtc_event_q_ = <<>> /\ rtc_wait = 0
  /\ IF ctr < cmp
     THEN ctr' = cmp /\ timer_irq' = 1 /\ rtc_wait' = (OVERFLOW - cmp) * RtcPeriod
     ELSE ctr' = 0 /\ timer_irq' = 0 /\ rtc_wait' = RtcPeriod * (IF cmp # 0 THEN cmp ELSE 1)
  /\ rtc_passed' = 0
  /\ UNCHANGED <<cmp, clint_msip, soft_irq, rtc_event_q_>>

Count(q, e) == Cardinality({i \in DOMAIN q : q[i] = e})

(* Mutant of QueueEvent: the rest of the wait is kept as it was. *)
MutKeepsWaiting ==
  /\ rtc_event_q_ # <<>> /\ rtc_event_q_' = <<>>
  /\ ctr' = (ctr + Count(rtc_event_q_, "UPDATE_TIME") * (rtc_passed \div RtcPeriod)) % (OVERFLOW + 1)
  /\ timer_irq' = IF rtc_event_q_[Len(rtc_event_q_) - 1] = "SET_INT" THEN 1 ELSE 0
  /\ rtc_passed' = 0
  /\ UNCHANGED <<cmp, clint_msip, soft_irq, rtc_wait>>

(* The queue is worked off: every UPDATE_TIME adds the time passed once more, *)
(* the last SET_INT or RESET_INT stays, and the next wait is computed from    *)
(* the timer as it was before the additions.                                  *)
QueueEvent ==
  /\ rtc_event_q_ # <<>> /\ rtc_event_q_' = <<>>
  /\ ctr' = (ctr + Count(rtc_event_q_, "UPDATE_TIME") * (rtc_passed \div RtcPeriod)) % (OVERFLOW + 1)
  /\ timer_irq' = IF rtc_event_q_[Len(rtc_event_q_) - 1] = "SET_INT" THEN 1 ELSE 0
  /\ rtc_wait' = IF ctr >= cmp THEN 0 ELSE (cmp - ctr) * RtcPeriod
  /\ rtc_passed' = 0
  /\ UNCHANGED <<cmp, clint_msip, soft_irq>>

(* Time passes only when the process has nothing to do. *)
Tick ==
  /\ rtc_event_q_ = <<>> /\ rtc_wait > 0
  /\ rtc_wait' = rtc_wait - 1 /\ rtc_passed' = rtc_passed + 1
  /\ UNCHANGED <<ctr, cmp, clint_msip, soft_irq, timer_irq, rtc_event_q_>>

Next == MsipWrite \/ HalfWrite \/ TimerEvent \/ QueueEvent \/ Tick

Spec == Init /\ [][Next]_pclintVars

-----------------------------------------------------------------------------
TypeOK ==
  /\ ctr \in Words /\ cmp \in Words /\ clint_msip \in 0..3 /\ soft_irq = clint_msip % 2
  /\ timer_irq \in {0, 1} /\ Len(rtc_event_q_) <= QueueBound + 1
  /\ rtc_wait \in 0..(OVERFLOW * RtcPeriod) /\ rtc_passed \in 0..(OVERFLOW * RtcPeriod)

Now == get_act_mtime(ctr, rtc_passed)

(* The process will wake after the timer has reached the compare value. *)
Late == /\ rtc_event_q_ = <<>> /\ ctr < cmp
        /\ rtc_wait + rtc_passed > (cmp - ctr) * RtcPeriod

(* The timer shows a value at or past the compare value, for at least one     *)
(* whole unit of time, and there is no interrupt.                             *)
Missed == timer_irq = 0 /\ rtc_event_q_ = <<>> /\ rtc_wait > 0 /\ Now >= cmp

(* A high interrupt with the timer below the compare value. *)
Early == timer_irq = 1 /\ rtc_event_q_ = <<>> /\ Now < cmp

Rewritten == rtc_event_q_ # <<>> /\ rtc_passed >= RtcPeriod

(* An interrupt is missed only when a register was rewritten a period or more *)
(* into a wait, which makes the process late, or when the compare value is 0; *)
(* and it is early only if the time added then took the timer past its end.   *)
MissedOnlyByRewrite ==
  /\ (Late' /\ ~Late) => Rewritten
  /\ (Missed' /\ ~Missed) => Late \/ Rewritten \/ cmp = 0
  /\ (Early' /\ ~Early) => Rewritten /\ ctr' < ctr
=============================================================================
