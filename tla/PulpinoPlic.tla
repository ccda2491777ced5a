------------------------------ MODULE PulpinoPlic ------------------------------
(***************************************************************************)
(* The PLIC of src/pulpino/plic.h.  Outputs and target ids are computed    *)
(* only by scan_int_lines, which runs when an input changes: neither a     *)
(* claim, nor a completion, nor a configuration runs it.                   *)
(***************************************************************************)
EXTENDS Naturals

CONSTANTS
  Srcs,       \* source numbers, from 1
  EdgeSrcs,   \* LE_SRC_MASK: the edge sensitive ones
  Targets,
  MaxLevel    \* the largest value of a priority or a threshold; 2^32 - 1 in the code

VARIABLES
  irq_srcs_i, scan_due,          \* the inputs that are high; an input has changed
  srcs_d, set_, ia_,             \* gateway
  ip, prio, ie, pth,             \* registers
  id_, irq_out                   \* per target

pulpinoPlicVars == <<irq_srcs_i, scan_due, srcs_d, set_, ia_, ip, prio, ie, pth, id_, irq_out>>

Init ==
  /\ irq_srcs_i = {} /\ scan_due = TRUE
  /\ srcs_d = {} /\ set_ = {} /\ ia_ = {}
  /\ ip = {} /\ prio = [s \in Srcs |-> 0]
  /\ ie = [t \in Targets |-> {}] /\ pth = [t \in Targets |-> 0]
  /\ id_ = [t \in Targets |-> 0] /\ irq_out = [t \in Targets |-> FALSE]

(* Plic_gateway::source: levels as they are, edges against the last scan. *)
source == {s \in irq_srcs_i : s \in EdgeSrcs => s \notin srcs_d}

(* Plic_gateway::claim and complete; both take in what set_ still holds. *)
claim(set, flags)    == (ip \cup (set \ ia_)) \ flags
complete(set, flags) == (ia_ \cup set) \ flags

(* Plic_target::process: the highest priority from pth_ + 1 up wins, the     *)
(* highest number among equals; without one the id is kept.  The sum wraps:  *)
(* under the largest threshold every priority passes.  (The comment of the   *)
(* threshold registers has the target permit the priorities up to the        *)
(* threshold instead.)                                                       *)
Wanted(p, t) == {s \in p \cap ie[t] : prio[s] >= (pth[t] + 1) % (MaxLevel + 1)}
process(p, t) ==
  IF Wanted(p, t) = {} THEN id_[t]
  ELSE CHOOSE s \in Wanted(p, t) : \A r \in Wanted(p, t) :
         prio[r] < prio[s] \/ (prio[r] = prio[s] /\ r <= s)

(* Mutant of scan_int_lines: the sources become active before they are pending. *)
MutCompleteFirst ==
  /\ scan_due /\ scan_due' = FALSE
  /\ set_' = source /\ srcs_d' = irq_srcs_i
  /\ ia_' = complete(set_', {})
  /\ ip' = ip \cup (set_' \ ia_')
  /\ id_' = [t \in Targets |-> process(ip', t)]
  /\ irq_out' = [t \in Targets |-> Wanted(ip', t) # {}]
  /\ UNCHANGED <<irq_srcs_i, prio, ie, pth>>

scan_int_lines ==
  /\ scan_due /\ scan_due' = FALSE
  /\ set_' = source /\ srcs_d' = irq_srcs_i
  /\ ip' = claim(set_', {})
  /\ id_' = [t \in Targets |-> process(ip', t)]
  /\ irq_out' = [t \in Targets |-> Wanted(ip', t) # {}]
  /\ ia_' = complete(set_', {})
  /\ UNCHANGED <<irq_srcs_i, prio, ie, pth>>

LinesChange(high) ==
  /\ ~scan_due /\ high # irq_srcs_i
  /\ irq_srcs_i' = high /\ scan_due' = TRUE
  /\ UNCHANGED <<srcs_d, set_, ia_, ip, prio, ie, pth, id_, irq_out>>

(* A read of CLAIM-COMPLETE: the id of the last scan, which stays. *)
ClaimRead(t) ==
  /\ id_[t] # 0
  /\ ip' = claim(set_, {id_[t]})
  /\ UNCHANGED <<irq_srcs_i, scan_due, srcs_d, set_, ia_, prio, ie, pth, id_, irq_out>>

(* A write completes all the sources whose bits are set in it. *)
CompleteWrite(flags) ==
  /\ ia_' = complete(set_, flags)
  /\ UNCHANGED <<irq_srcs_i, scan_due, srcs_d, set_, ip, prio, ie, pth, id_, irq_out>>

ConfigWrite ==
  /\ \/ \E s \in Srcs, v \in 0..MaxLevel : prio' = [prio EXCEPT ![s] = v] /\ UNCHANGED <<ip, ie, pth>>
     \/ ip' \in SUBSET Srcs /\ UNCHANGED <<prio, ie, pth>>
     \/ \E t \in Targets, v \in SUBSET Srcs : ie' = [ie EXCEPT ![t] = v] /\ UNCHANGED <<prio, ip, pth>>
     \/ \E t \in Targets, v \in 0..MaxLevel : pth' = [pth EXCEPT ![t] = v] /\ UNCHANGED <<prio, ip, ie>>
  /\ UNCHANGED <<irq_srcs_i, scan_due, srcs_d, set_, ia_, id_, irq_out>>

Next ==
  \/ scan_int_lines \/ ConfigWrite
  \/ \E v \in SUBSET Srcs : LinesChange(v) \/ CompleteWrite(v)
  \/ \E t \in Targets : ClaimRead(t)

Spec == Init /\ [][Next]_pulpinoPlicVars

-----------------------------------------------------------------------------
TypeOK ==
  /\ \A v \in {irq_srcs_i, srcs_d, set_, ia_, ip} : v \subseteq Srcs
  /\ scan_due \in BOOLEAN /\ prio \in [Srcs -> 0..MaxLevel]
  /\ ie \in [Targets -> SUBSET Srcs] /\ pth \in [Targets -> 0..MaxLevel]
  /\ id_ \in [Targets -> Srcs \cup {0}] /\ irq_out \in [Targets -> BOOLEAN]

(* A level source that is high, not in service and not pending.  It gets     *)
(* there only by a completion that names it with its line still high, after  *)
(* which no scan looks at it until an input changes, by a claim of it after  *)
(* it was completed, or by a write that clears its pending bit.  No scan     *)
(* overlooks one, and no claim or completion of another source uncovers it.  *)
Unseen == IF scan_due THEN {} ELSE (irq_srcs_i \ EdgeSrcs) \ (ia_ \cup ip)

UnseenExplained ==
  \A s \in Unseen' \ Unseen :
    \/ \E flags \in SUBSET Srcs : s \in flags /\ CompleteWrite(flags)
    \/ \E t \in Targets : id_[t] = s /\ ClaimRead(t)
    \/ ConfigWrite /\ s \in ip \ ip'

(* An output that is high although no pending source of its target has a     *)
(* priority above the threshold, or low although one has: a scan leaves none *)
(* behind but under the largest threshold, which lets all priorities pass;   *)
(* otherwise it takes accesses by software after the scan.                   *)
Wrong(t) == irq_out[t] # (\E s \in ip \cap ie[t] : prio[s] > pth[t])

WrongOnlyBySoftware ==
  \A t \in Targets : (Wrong(t)' /\ ~Wrong(t)) =>
    \/ scan_due' = scan_due /\ id_' = id_
    \/ scan_int_lines /\ pth[t] = MaxLevel

(* A source in service becomes pending only by software's own hand, unless   *)
(* it was completed: nothing is handed out twice for one event.              *)
GatewayShut ==
  \A s \in ip' \ ip :
    s \notin ia_ \/ <<scan_due, ia_, set_, id_>> = <<scan_due', ia_', set_', id_'>>

(* The other way round, no source is in service that was not pending, but    *)
(* for a completion of another source, which takes one completed before with *)
(* its line still high back into service, unclaimed.                         *)
ActiveWasPending ==
  \A s \in ia_' \ ia_ : s \in ip' \/ (scan_due' = scan_due /\ s \in set_)
=============================================================================
