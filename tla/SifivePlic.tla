------------------------------ MODULE SifivePlic ------------------------------
(***************************************************************************)
(* The PLIC of src/sifive/plic.cpp: one context, claim and complete in one *)
(* register whose read has no effect.  global_int_port_cb runs in the      *)
(* delta cycle after a rising edge and samples all lines.                  *)
(***************************************************************************)
EXTENDS Naturals

CONSTANTS
  LastSource,   \* source ids are 1..LastSource; 255 in the code
  MaxPrio

VARIABLES
  lines, line_edge,           \* lines that are high; a rising edge has been seen
  enabled, pending, priority, threshold, claim_complete,
  core_interrupt

plicVars == <<lines, line_edge, enabled, pending, priority, threshold,
              claim_complete, core_interrupt>>

Ids == 1..LastSource

Init ==
  /\ lines = {} /\ line_edge = FALSE
  /\ enabled = {} /\ pending = {} /\ priority = [i \in Ids |-> 0] /\ threshold = 0
  /\ claim_complete = 0 /\ core_interrupt = FALSE

(* The pending sources above the threshold; the loop ends before the last id. *)
Candidates(p) == {i \in p : i < LastSource /\ threshold < priority[i]}

Foremost(i, j) == priority[i] > priority[j] \/ (priority[i] = priority[j] /\ i <= j)

(* handle_pending_int after pending has become p and the output irq: with no *)
(* candidate the output is not written.                                      *)
handle_pending_int(p, irq) ==
  IF Candidates(p) # {}
  THEN /\ claim_complete' = CHOOSE i \in Candidates(p) : \A j \in Candidates(p) : Foremost(i, j)
       /\ core_interrupt' = TRUE
  ELSE claim_complete' = 0 /\ core_interrupt' = irq

(* Plain registers; nothing is evaluated again. *)
RegisterWrite ==
  /\ \/ enabled' \in SUBSET Ids /\ UNCHANGED <<pending, priority, threshold>>
     \/ pending' \in SUBSET Ids /\ UNCHANGED <<enabled, priority, threshold>>
     \/ /\ \E i \in Ids, v \in 0..MaxPrio : priority' = [priority EXCEPT ![i] = v]
        /\ UNCHANGED <<enabled, pending, threshold>>
     \/ threshold' \in 0..MaxPrio /\ UNCHANGED <<enabled, pending, priority>>
  /\ UNCHANGED <<lines, line_edge, claim_complete, core_interrupt>>

LinesChange(high) ==
  /\ ~line_edge
  /\ lines' = high
  /\ line_edge' = ~(high \subseteq lines)
  /\ UNCHANGED <<enabled, pending, priority, threshold, claim_complete, core_interrupt>>

(* Mutant of global_int_port_cb: a line stays unnoticed while one is claimed. *)
MutOnlyWhenIdle ==
  /\ line_edge /\ line_edge' = FALSE
  /\ pending' = IF claim_complete = 0 THEN pending \cup (lines \cap enabled) ELSE pending
  /\ IF lines \cap enabled # {} THEN handle_pending_int(pending', core_interrupt)
     ELSE UNCHANGED <<claim_complete, core_interrupt>>
  /\ UNCHANGED <<lines, enabled, priority, threshold>>

global_int_port_cb ==
  /\ line_edge /\ line_edge' = FALSE
  /\ pending' = pending \cup (lines \cap enabled)
  /\ IF lines \cap enabled # {} THEN handle_pending_int(pending', core_interrupt)
     ELSE UNCHANGED <<claim_complete, core_interrupt>>
  /\ UNCHANGED <<lines, enabled, priority, threshold>>

(* A write of claim_complete: reset_pending_int, whatever id it names.  From *)
(* 256 on the index leaves the array of pending registers, which has no      *)
(* defined outcome: such writes are left out.                                *)
CompleteWrite(v) ==
  /\ pending' = pending \ {v}
  /\ handle_pending_int(pending', FALSE)
  /\ UNCHANGED <<lines, line_edge, enabled, priority, threshold>>

(* Only the registers: the output keeps its level. *)
Reset ==
  /\ enabled' = {} /\ pending' = {} /\ priority' = [i \in Ids |-> 0] /\ threshold' = 0
  /\ claim_complete' = 0
  /\ UNCHANGED <<lines, line_edge, core_interrupt>>

Next ==
  \/ RegisterWrite
  \/ \E high \in SUBSET Ids : LinesChange(high)
  \/ global_int_port_cb
  \/ \E v \in 0..LastSource : CompleteWrite(v)
  \/ Reset

Spec == Init /\ [][Next]_plicVars

-----------------------------------------------------------------------------
TypeOK ==
  /\ lines \subseteq Ids /\ line_edge \in BOOLEAN
  /\ enabled \subseteq Ids /\ pending \subseteq Ids
  /\ priority \in [Ids -> 0..MaxPrio] /\ threshold \in 0..MaxPrio
  /\ claim_complete \in 0..(LastSource - 1) /\ core_interrupt \in BOOLEAN

(* Whoever reads an id from claim_complete reads it under a high output. *)
ClaimUnderInterrupt == claim_complete # 0 => core_interrupt

(* The output is high without an id to claim only after a reset, which does  *)
(* not drive it, or after software withdrew the claimable id (by priority,   *)
(* threshold or pending bit) and another edge found nothing in its place:    *)
(* that arbitration clears the id and leaves the output high.                *)
Idle == core_interrupt /\ claim_complete = 0

IdleInterruptExplained ==
  (Idle' /\ ~Idle) => \/ enabled' = {} /\ pending' = {}
                      \/ claim_complete \notin Candidates(pending)

(* A source whose line is high and which is enabled, and yet not pending.     *)
(* Only software brings it about, by completing the very source with its line *)
(* still high (claimed before or not), by clearing its pending bit or by      *)
(* enabling it after its edge.  The method that samples the lines and a reset *)
(* leave none behind, however many others are pending or claimed.             *)
Unseen == IF line_edge THEN {} ELSE (lines \cap enabled) \ pending

UnseenExplained ==
  \A i \in Unseen' \ Unseen :
    \/ CompleteWrite(i)
    \/ RegisterWrite /\ (i \in pending \ pending' \/ i \in enabled' \ enabled)

(* A pending source above the threshold (the last one, which the arbitration  *)
(* never sees, aside) and no interrupt: only a write of a plain register does *)
(* that, after which nothing is evaluated.                                    *)
Silent == ~core_interrupt /\ Candidates(pending) # {}

SilentOnlyByConfiguration ==
  (Silent' /\ ~Silent) =>
    <<enabled, lines, line_edge, claim_complete>> = <<enabled', lines', line_edge', claim_complete'>>
=============================================================================
