------------------------------- MODULE SifivePrci -------------------------------
(***************************************************************************)
(* The clock generation of src/sifive/prci.cpp and, beside it, the reset   *)
(* output of src/sifive/aon.cpp.  A clock is named by what it is computed  *)
(* from, not by its period.                                                *)
(***************************************************************************)
EXTENDS Integers

CONSTANTS
  Delay,      \* one microsecond, in units of time
  Dividers    \* values of the fields that set a ratio; 0 is in it

VARIABLES
  hfrosccfg, hfxosccfg, pllcfg, plloutdiv,   \* registers
  hfrosc_evt, hfxosc_evt,                    \* time until the event, or Never
  prci_rst, hfclk_o,
  erst_n, rst_o                              \* aon

prciVars == <<hfrosccfg, hfxosccfg, pllcfg, plloutdiv, hfrosc_evt, hfxosc_evt, prci_rst, hfclk_o,
              erst_n, rst_o>>

Never == -1
Osc   == [en : BOOLEAN, rdy : BOOLEAN]
Pll   == [sel : BOOLEAN, refsel : BOOLEAN, bypass : BOOLEAN, q : Dividers, lock : BOOLEAN]

ResetRosc == [en |-> FALSE, rdy |-> FALSE, div |-> 0]
ResetXosc == [en |-> TRUE, rdy |-> FALSE]
ResetPll  == [sel |-> FALSE, refsel |-> FALSE, bypass |-> FALSE, q |-> 0, lock |-> FALSE]

(* hfxosc_cb has run once, for its notification. *)
Init ==
  /\ hfrosccfg = ResetRosc /\ hfxosccfg = ResetXosc /\ pllcfg = ResetPll /\ plloutdiv = 0
  /\ hfrosc_evt = Never /\ hfxosc_evt = Delay
  /\ prci_rst = FALSE /\ hfclk_o = <<"none">>
  /\ erst_n = FALSE /\ rst_o = TRUE

(* update_hfclk: the clock that the registers select. *)
Selected(rosc, pll, outdiv) ==
  LET hfrosc == <<"hfrosc", rosc.div>>
      ref    == IF pll.refsel THEN <<"hfxosc">> ELSE hfrosc
  IN  IF pll.sel
      THEN <<"pll", ref, IF pll.bypass \/ ~pll.lock THEN "unlocked" ELSE pll.q, outdiv>>
      ELSE hfrosc

(* An earlier notification of an event stands; a later one gives way. *)
Notify(evt, delay) == IF evt # Never /\ evt <= delay THEN evt ELSE delay

(* The new clock is driven by the event, not by the write. *)
HfrosccfgWrite ==
  /\ \E o \in Osc, d \in Dividers : hfrosccfg' = [en |-> o.en, rdy |-> o.rdy, div |-> d]
  /\ hfrosc_evt' = Notify(hfrosc_evt, IF hfrosccfg'.en THEN Delay ELSE 0)
  /\ UNCHANGED <<hfxosccfg, pllcfg, plloutdiv, hfxosc_evt, prci_rst, hfclk_o, erst_n, rst_o>>

HfxosccfgWrite ==
  /\ hfxosccfg' \in Osc
  /\ hfxosc_evt' = Notify(hfxosc_evt, IF hfxosccfg'.en THEN Delay ELSE 0)
  /\ UNCHANGED <<hfrosccfg, pllcfg, plloutdiv, hfrosc_evt, prci_rst, hfclk_o, erst_n, rst_o>>

(* The lock follows from the selection, or is what software writes. *)
PllcfgWrite ==
  /\ \E p \in Pll : pllcfg' = [p EXCEPT !.lock = p.lock \/ (~p.bypass /\ p.q # 0)]
  /\ hfclk_o' = Selected(hfrosccfg, pllcfg', plloutdiv)
  /\ UNCHANGED <<hfrosccfg, hfxosccfg, plloutdiv, hfrosc_evt, hfxosc_evt, prci_rst, erst_n, rst_o>>

PlloutdivWrite ==
  /\ plloutdiv' \in Dividers
  /\ hfclk_o' = Selected(hfrosccfg, pllcfg, plloutdiv')
  /\ UNCHANGED <<hfrosccfg, hfxosccfg, pllcfg, hfrosc_evt, hfxosc_evt, prci_rst, erst_n, rst_o>>

hfrosc_en_cb ==
  /\ hfrosc_evt = 0 /\ hfrosc_evt' = Never
  /\ hfclk_o' = Selected(hfrosccfg, pllcfg, plloutdiv)
  /\ hfrosccfg' = [hfrosccfg EXCEPT !.rdy = hfrosccfg.en]
  /\ UNCHANGED <<hfxosccfg, pllcfg, plloutdiv, hfxosc_evt, prci_rst, erst_n, rst_o>>

(* hfxosc_en_evt: no process is sensitive to it. *)
HfxoscEvent ==
  /\ hfxosc_evt = 0 /\ hfxosc_evt' = Never
  /\ UNCHANGED <<hfrosccfg, hfxosccfg, pllcfg, plloutdiv, hfrosc_evt, prci_rst, hfclk_o, erst_n, rst_o>>

(* hfxosc_cb: the crystal clock changes. *)
hfxosc_cb ==
  /\ hfxosccfg' = [hfxosccfg EXCEPT !.rdy = FALSE]
  /\ hfxosc_evt' = Notify(hfxosc_evt, Delay)
  /\ UNCHANGED <<hfrosccfg, pllcfg, plloutdiv, hfrosc_evt, prci_rst, hfclk_o, erst_n, rst_o>>

(* reset_cb: the registers only; the output keeps the clock it has. *)
reset_cb ==
  /\ prci_rst' = ~prci_rst
  /\ IF prci_rst'
     THEN /\ hfrosccfg' = ResetRosc /\ hfxosccfg' = ResetXosc /\ pllcfg' = ResetPll /\ plloutdiv' = 0
          /\ UNCHANGED hfxosc_evt
     ELSE /\ hfxosc_evt' = Notify(hfxosc_evt, Delay)
          /\ UNCHANGED <<hfrosccfg, hfxosccfg, pllcfg, plloutdiv>>
  /\ UNCHANGED <<hfrosc_evt, hfclk_o, erst_n, rst_o>>

(* aon::reset_cb, for a change of erst_n_i. *)
AonReset ==
  /\ erst_n' = ~erst_n /\ rst_o' = erst_n
  /\ UNCHANGED <<hfrosccfg, hfxosccfg, pllcfg, plloutdiv, hfrosc_evt, hfxosc_evt, prci_rst, hfclk_o>>

Tick ==
  /\ hfrosc_evt # 0 /\ hfxosc_evt # 0
  /\ hfrosc_evt' = IF hfrosc_evt = Never THEN Never ELSE hfrosc_evt - 1
  /\ hfxosc_evt' = IF hfxosc_evt = Never THEN Never ELSE hfxosc_evt - 1
  /\ UNCHANGED <<hfrosccfg, hfxosccfg, pllcfg, plloutdiv, prci_rst, hfclk_o, erst_n, rst_o>>

Next ==
  \/ HfrosccfgWrite \/ HfxosccfgWrite \/ PllcfgWrite \/ PlloutdivWrite
  \/ hfrosc_en_cb \/ HfxoscEvent \/ hfxosc_cb \/ reset_cb \/ AonReset \/ Tick

Spec == Init /\ [][Next]_prciVars

-----------------------------------------------------------------------------
TypeOK ==
  /\ hfrosccfg.en \in BOOLEAN /\ hfrosccfg.rdy \in BOOLEAN /\ hfrosccfg.div \in Dividers
  /\ hfxosccfg \in Osc /\ pllcfg \in Pll /\ plloutdiv \in Dividers
  /\ hfrosc_evt \in {Never} \cup 0..Delay /\ hfxosc_evt \in {Never} \cup 0..Delay
  /\ prci_rst \in BOOLEAN /\ erst_n \in BOOLEAN /\ rst_o = ~erst_n

(* The ready bit of the ring oscillator settles at its enable bit: whatever   *)
(* is written to either of them and however often, once no event is pending   *)
(* they agree.                                                                *)
ReadySettles == hfrosc_evt = Never => hfrosccfg.rdy = hfrosccfg.en

(* The clock that is driven is the one selected, once the oscillator has      *)
(* settled; a reset leaves the old clock running.                             *)
Stale == hfrosc_evt = Never /\ hfclk_o # Selected(hfrosccfg, pllcfg, plloutdiv)

StaleOnlyByReset == (Stale' /\ ~Stale) => prci_rst'

(* The crystal oscillator is ready only because software says so. *)
XoscReadyIsWritten == (hfxosccfg'.rdy /\ ~hfxosccfg.rdy) => HfxosccfgWrite
=============================================================================
