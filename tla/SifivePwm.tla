-------------------------------- MODULE SifivePwm --------------------------------
(***************************************************************************)
(* The pulse width modulator of src/sifive/pwm.cpp: a counter brought up   *)
(* to date when something happens, four comparators, and one event for the *)
(* next moment at which something may happen.  Time is counted in periods  *)
(* of the clock, which runs or stands still.                               *)
(***************************************************************************)
EXTENDS Integers

CONSTANTS
  Top,         \* 0xffff, where the scaled counter wraps
  MaxCount,    \* bound on the values written to the counter
  Scales,      \* values of pwmscale
  CmpWrites,   \* pairs of a comparator and a value software writes to it
  IpGarbage    \* what pwmcmp_ip, never initialised, may hold

VARIABLES
  running, last_running, \* clk and last_clk: whether the clock runs
  cfg,                  \* pwmcfg: scale, zerocmp, always, oneshot and the ip bits
  cmp_reg,              \* pwmcmp0..3
  current_cnt, since,   \* the counter, and the time since it was updated
  reset_cnt, last_enable,
  pwmcmp_ip,            \* comparators that were reached at the last update
  update_evt,           \* time until the next update, or Never
  gpio_o, cmpip_o,      \* outputs that are high
  at_zero               \* simulated time has not advanced yet

pwmVars == <<running, last_running, cfg, cmp_reg, current_cnt, since, reset_cnt, last_enable,
             pwmcmp_ip, update_evt, gpio_o, cmpip_o, at_zero>>

Never == -1
Cmps  == 0..3
ResetCfg == [scale |-> 0, zerocmp |-> FALSE, always |-> FALSE, oneshot |-> FALSE, ip |-> {}]

Init ==
  /\ running = FALSE /\ last_running = FALSE /\ cfg = ResetCfg /\ cmp_reg = [i \in Cmps |-> 0]
  /\ current_cnt = 0 /\ since = 0 /\ reset_cnt = FALSE /\ last_enable = FALSE
  /\ pwmcmp_ip \in IpGarbage
  /\ update_evt = Never /\ gpio_o = {} /\ cmpip_o = {}
  /\ at_zero = TRUE

(* The counter now, and the part of it the comparators see. *)
Count == IF reset_cnt THEN 0
         ELSE IF last_enable /\ last_running THEN current_cnt + since ELSE current_cnt
Scaled(c) == (Count \div 2^c.scale) % (Top + 1)
Hits(c, cmp) == {i \in Cmps : Scaled(c) >= cmp[i]}
Enabled(c) == c.always \/ c.oneshot

(* Mutant of Distances: the counter at its end gets no clock to wrap in. *)
MutNoWrapClock(c, cmp) ==
  LET s    == Scaled(c)
      hits == Hits(c, cmp)
  IN  {IF 0 \in hits /\ c.zerocmp THEN 1 ELSE (Top - s) * 2^c.scale}
        \cup {(cmp[0] - s) * (IF i = 2 THEN c.scale ELSE 2^c.scale)
                : i \in IF s <= cmp[0] THEN Cmps \ hits ELSE {}}

(* The candidates for the next update.  Every comparator that is not reached  *)
(* proposes the distance to comparator 0 (which, once that is passed, is a    *)
(* huge unsigned number), the third one with a factor of its own.             *)
Distances(c, cmp) ==
  LET s    == Scaled(c)
      hits == Hits(c, cmp)
  IN  {IF s = Top \/ (0 \in hits /\ c.zerocmp) THEN 1 ELSE (Top - s) * 2^c.scale}
        \cup {(cmp[0] - s) * (IF i = 2 THEN c.scale ELSE 2^c.scale)
                : i \in IF s <= cmp[0] THEN Cmps \ hits ELSE {}}

Least(S) == CHOOSE x \in S : \A y \in S : x <= y

(* update_counter with the registers c and cmp, but for the counter: at the   *)
(* start of the simulation it returns before anything but them is changed.    *)
(* The gang bits are tested with a comparison in place of a shift, which      *)
(* reads the low bit of scale.                                                *)
update_outputs(c, cmp) ==
  LET hits == Hits(c, cmp)
      top  == Scaled(c) = Top
  IN  /\ cmp_reg' = cmp /\ UNCHANGED at_zero
      /\ \/ /\ at_zero /\ cfg' = c
            /\ UNCHANGED <<since, last_running, last_enable, reset_cnt, gpio_o, pwmcmp_ip,
                           update_evt, cmpip_o>>
         \/ /\ ~at_zero /\ since' = 0 /\ last_running' = running
            /\ last_enable' = Enabled(c)
            /\ IF Enabled(c)
               THEN /\ reset_cnt' = (top \/ (0 \in hits /\ c.zerocmp))
                    /\ cfg' = [c EXCEPT !.oneshot = c.oneshot /\ ~(top \/ 0 \in hits),
                                        !.ip = c.ip \cup (hits \ pwmcmp_ip)]
                    /\ gpio_o' = IF c.scale % 2 = 1 THEN {i \in hits : (i + 1) % 4 \notin hits}
                                                    ELSE hits
                    /\ pwmcmp_ip' = hits
                    /\ update_evt' = IF running THEN Least(Distances(c, cmp)) ELSE 0
               ELSE cfg' = c /\ update_evt' = Never /\ UNCHANGED <<reset_cnt, gpio_o, pwmcmp_ip>>
            /\ cmpip_o' = cfg'.ip

update_counter(c, cmp) ==
  /\ update_outputs(c, cmp)
  /\ current_cnt' = IF Enabled(c) /\ ~at_zero THEN Count ELSE current_cnt

(* A write of pwmcfg; the ip bits are written too, to 0 or to what was read. *)
PwmcfgWrite ==
  /\ \E s \in Scales, z, a, o \in BOOLEAN, ip \in {{}, cfg.ip} :
       update_counter([scale |-> s, zerocmp |-> z, always |-> a, oneshot |-> o, ip |-> ip], cmp_reg)
  /\ UNCHANGED running

PwmcmpWrite(i, v) ==
  /\ update_counter(cfg, [cmp_reg EXCEPT ![i] = v])
  /\ UNCHANGED running

(* The counter is updated with its old value before it gets the new one. *)
PwmcountWrite(v) ==
  /\ update_outputs(cfg, cmp_reg) /\ current_cnt' = v
  /\ UNCHANGED running

UpdateEvent == update_evt = 0 /\ update_counter(cfg, cmp_reg) /\ UNCHANGED running

(* clock_cb: an update with the old period, and then the new one, which the  *)
(* next update does not yet count with.                                      *)
clock_cb(r) == update_counter(cfg, cmp_reg) /\ running' = r

(* The registers only; the counter and the event stay. *)
Reset ==
  /\ cfg' = ResetCfg /\ cmp_reg' = [i \in Cmps |-> 0]
  /\ UNCHANGED <<running, last_running, current_cnt, since, reset_cnt, last_enable, pwmcmp_ip,
                 update_evt, gpio_o, cmpip_o, at_zero>>

Tick ==
  /\ update_evt # 0 /\ at_zero' = FALSE
  /\ update_evt' = IF update_evt = Never THEN Never ELSE update_evt - 1
  /\ since' = IF last_enable THEN since + 1 ELSE 0
  /\ UNCHANGED <<running, last_running, cfg, cmp_reg, current_cnt, reset_cnt, last_enable, pwmcmp_ip,
                 gpio_o, cmpip_o>>

Next ==
  \/ PwmcfgWrite \/ UpdateEvent \/ Reset \/ Tick
  \/ \E w \in CmpWrites : PwmcmpWrite(w[1], w[2])
  \/ \E v \in 0..MaxCount : PwmcountWrite(v)
  \/ \E r \in BOOLEAN : clock_cb(r)

Spec == Init /\ [][Next]_pwmVars

-----------------------------------------------------------------------------
TypeOK ==
  /\ running \in BOOLEAN /\ last_running \in BOOLEAN /\ cfg.scale \in Scales \cup {0} /\ cfg.ip \subseteq Cmps
  /\ cmp_reg \in [Cmps -> 0..Top] /\ current_cnt \in Nat /\ since \in Nat
  /\ reset_cnt \in BOOLEAN /\ last_enable \in BOOLEAN /\ pwmcmp_ip \subseteq Cmps
  /\ update_evt \in Nat \cup {Never} /\ gpio_o \subseteq Cmps /\ cmpip_o \subseteq Cmps
  /\ at_zero \in BOOLEAN

(* A counter that is enabled without an update before it does not move.  It   *)
(* is left so only by a write of pwmcfg at the start of the simulation, for   *)
(* which no update runs: neither a reset, a stop of the clock, a write of the *)
(* counter nor the end of a one-shot takes a running counter its update.      *)
Unarmed == Enabled(cfg) /\ update_evt = Never

UnarmedOnlyAtStart == (Unarmed' /\ ~Unarmed) => PwmcfgWrite /\ at_zero

(* The update that asks for itself again at once, so that time stands still:  *)
(* without a clock, with comparator 2 ahead and a scale of 0, or at the very  *)
(* value of comparator 0 with another comparator still ahead.                 *)
StandsStillExplained ==
  (UpdateEvent /\ update_evt' = 0) =>
    \/ ~running
    \/ cfg.scale = 0 /\ Scaled(cfg) < cmp_reg[2] /\ Scaled(cfg) <= cmp_reg[0]
    \/ Scaled(cfg) = cmp_reg[0] /\ \E i \in 1..3 : Scaled(cfg) < cmp_reg[i]

(* The interrupt outputs show the ip bits, but for a reset, after which they  *)
(* stay as they are until the next update.                                    *)
IpStaleOnlyByReset == (cmpip_o' # cfg'.ip /\ cmpip_o = cfg.ip) => cfg' = ResetCfg
=============================================================================
