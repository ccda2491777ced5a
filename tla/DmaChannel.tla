----------------------------- MODULE DmaChannel -----------------------------
(***************************************************************************)
(* What one DMA channel promises its driver: the job asked for is carried  *)
(* out segment by segment, the k-th segment from src + k * src_stride to   *)
(* dst + k * dst_stride, and it ends when all its segments are moved.      *)
(* Addresses are those of a machine word, modulo AddrSpace.                *)
(***************************************************************************)
EXTENDS Integers, Sequences

CONSTANTS AddrSpace, Jobs, NoJob

VARIABLES
  job,     \* the job being carried out, or NoJob
  moved    \* the pairs of addresses moved for it, in order

chVars == <<job, moved>>

ChInit == job = NoJob /\ moved = <<>>

Ask(j) ==
  /\ job = NoJob
  /\ job' = j
  /\ moved' = <<>>

Segment(j, k) == [from |-> (j.src + k * j.src_stride) % AddrSpace,
                  to   |-> (j.dst + k * j.dst_stride) % AddrSpace]

(* The next segment is moved; the last one ends the job. *)
Move ==
  /\ job # NoJob
  /\ Len(moved) < job.count
  /\ moved' = Append(moved, Segment(job, Len(moved)))
  /\ job' = IF Len(moved) + 1 = job.count THEN NoJob ELSE job

(* A job without segments ends without moving any. *)
Skip ==
  /\ job # NoJob
  /\ job.count = 0
  /\ job' = NoJob
  /\ UNCHANGED moved

ChNext == (\E j \in Jobs : Ask(j)) \/ Move \/ Skip

ChSpec == ChInit /\ [][ChNext]_chVars

=============================================================================
