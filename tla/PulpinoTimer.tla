------------------------------ MODULE PulpinoTimer ------------------------------
(***************************************************************************)
(* One channel of the timer of src/pulpino/timer.h.  The two channels are  *)
(* alike but for one expression (the wait after a compare), and for taking *)
(* each other's value and prescaler when the time is computed: what the    *)
(* other channel holds is an input here.  Time is counted in periods of    *)
(* the bus clock.                                                          *)
(***************************************************************************)
EXTENDS Integers

CONSTANTS
  MaxTimer,      \* _OVERFLOW_, 2^32 - 1 in the code
  Prescalers,    \* 0..7 in the code
  QueueBound     \* bound on the UPDATE_TIME entries of the queue

VARIABLES
  ch,                       \* which of the two channels this is
  timer, tcmp, ten, pre,    \* the registers
  event_q, notified,        \* queued updates; the event has reached the process
  t_wait, t_passed,         \* rest of the wait (or Never), and time since its entry
  pulse                     \* the interrupt that is high for one clock, or "none"

timerVars == <<ch, timer, tcmp, ten, pre, event_q, notified, t_wait, t_passed, pulse>>

Never == -1

Init ==
  /\ ch \in {"A", "B"}
  /\ timer = 0 /\ tcmp = 0 /\ ten = FALSE /\ pre = 0
  /\ event_q = 0 /\ notified = FALSE
  /\ t_wait = MaxTimer /\ t_passed = 0 /\ pulse = "none"

Factor == IF pre # 0 THEN pre ELSE 1

(* A duration is an unsigned 64 bit number: below zero it is practically endless. *)
Duration(t) == IF t < 0 THEN Never ELSE t

(* cmp, en and pre queue an update; the process hears of it unless it is in  *)
(* the middle of a pulse.  The timer register itself is written silently.    *)
RegisterWrite ==
  /\ event_q < QueueBound
  /\ \/ tcmp' \in 0..MaxTimer /\ UNCHANGED <<ten, pre>>
     \/ ten' \in BOOLEAN      /\ UNCHANGED <<tcmp, pre>>
     \/ pre' \in Prescalers   /\ UNCHANGED <<tcmp, ten>>
  /\ event_q' = event_q + 1
  /\ notified' = (pulse = "none")
  /\ UNCHANGED <<ch, timer, t_wait, t_passed, pulse>>

TimerWrite ==
  /\ timer' \in 0..MaxTimer
  /\ UNCHANGED <<ch, tcmp, ten, pre, event_q, notified, t_wait, t_passed, pulse>>

Awake == pulse = "none" /\ (notified \/ (ten /\ t_wait = 0))

(* get_act_time: from the value and the prescaler of the other channel. *)
get_act_time(other, otherPre) == (other + t_passed * otherPre) % (MaxTimer + 1)

(* The queue is worked off; every update computes the same wait. *)
Update ==
  /\ Awake /\ event_q > 0
  /\ \E other \in 0..MaxTimer, otherPre \in Prescalers : timer' = get_act_time(other, otherPre)
  /\ t_wait' = IF timer' >= tcmp THEN 0 ELSE (tcmp - timer') * Factor
  /\ event_q' = 0 /\ notified' = FALSE /\ t_passed' = 0
  /\ UNCHANGED <<ch, tcmp, ten, pre, pulse>>

(* The wait ran out: the next one is computed, and the interrupt goes high. *)
TimerEvent ==
  /\ Awake /\ event_q = 0
  /\ IF timer < tcmp
     THEN /\ timer' = tcmp /\ pulse' = "compare"
          /\ t_wait' = Duration((MaxTimer - tcmp) * (IF ch = "A" THEN pre ELSE Factor) - 1)
     ELSE /\ timer' = 0 /\ pulse' = "overflow"
          /\ t_wait' = IF tcmp # 0 THEN Duration(tcmp * Factor - 1) ELSE Factor
  /\ notified' = FALSE /\ t_passed' = 0
  /\ UNCHANGED <<ch, tcmp, ten, pre, event_q>>

(* One clock later the interrupt goes low and the process waits again. *)
PulseEnds ==
  /\ pulse # "none" /\ pulse' = "none"
  /\ UNCHANGED <<ch, timer, tcmp, ten, pre, event_q, notified, t_wait, t_passed>>

(* The time since the entry counts for a disabled timer, too; only its        *)
(* remainder matters to the 32 bits it is added to.                           *)
Tick ==
  /\ pulse = "none" /\ ~Awake
  /\ t_wait' = IF ten /\ t_wait # Never THEN t_wait - 1 ELSE t_wait
  /\ t_passed' = (t_passed + 1) % (MaxTimer + 1)
  /\ UNCHANGED <<ch, timer, tcmp, ten, pre, event_q, notified, pulse>>

Next == RegisterWrite \/ TimerWrite \/ Update \/ TimerEvent \/ PulseEnds \/ Tick

Spec == Init /\ [][Next]_timerVars

-----------------------------------------------------------------------------
TypeOK ==
  /\ ch \in {"A", "B"} /\ timer \in 0..MaxTimer /\ tcmp \in 0..MaxTimer
  /\ ten \in BOOLEAN /\ pre \in Prescalers /\ event_q \in 0..QueueBound /\ notified \in BOOLEAN
  /\ t_wait \in Nat \cup {Never} /\ t_passed \in 0..MaxTimer /\ pulse \in {"none", "compare", "overflow"}

(* An enabled timer that will never wake by itself: only after a compare with  *)
(* the largest value, or, on channel A, with the prescaler left at 0 (the one  *)
(* place that forgets to read it as 1).                                        *)
NeverIsUnderflow ==
  (t_wait' = Never /\ t_wait # Never) => (timer < tcmp /\ (tcmp = MaxTimer \/ (ch = "A" /\ pre = 0)))

(* A write during a pulse is heard only with the next one, or when the wait    *)
(* runs out, whose interrupt it then replaces; any other write is heard        *)
(* within the instant.                                                         *)
Unheard == event_q > 0 /\ ~notified

UnheardOnlyByPulse == (Unheard' /\ ~Unheard) => pulse # "none"
=============================================================================
