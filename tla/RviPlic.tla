------------------------------- MODULE RviPlic -------------------------------
(***************************************************************************)
(* The RISC-V platform-level interrupt controller of src/rvi/plic.h over   *)
(* the register file of src/rvi/gen/plic_regs.h.                           *)
(*                                                                         *)
(* Every register callback of the class runs to completion inside the      *)
(* b_transport (or nb_transport) call of its initiator and never waits, so *)
(* each callback is one action.  Software is arbitrary: any context may    *)
(* write any register, claim, or complete any source at any time.          *)
(*                                                                         *)
(* The class is built in one of two ways.  Without SC_SIGNAL_IF a source   *)
(* drives source_irq_cb(irq_idx, value) directly; with it, a rising edge   *)
(* of any sc_in schedules one source_irq_cb() that samples every line.     *)
(***************************************************************************)
EXTENDS Integers, FiniteSets

CONSTANTS
  NumSources,     \* template parameter NUM_SOURCES: source ids 1..NumSources
  NumContexts,    \* template parameter NUM_CONTEXTS
  MaxPriority,    \* largest value software writes to a priority or threshold
  SC_SIGNAL_IF    \* TRUE for the sc_signal build, FALSE for the TLM build

Word == 32        \* bits of a pending or enable register

(***************************************************************************)
(* When NUM_SOURCES is a multiple of 32 the word that should hold the bit  *)
(* of the last source does not exist at all; such an instance is excluded. *)
(***************************************************************************)
ASSUME PlicAssumption ==
  /\ NumSources \in Nat \ {0}
  /\ NumSources % Word # 0
  /\ NumContexts \in Nat \ {0}
  /\ MaxPriority \in Nat
  /\ SC_SIGNAL_IF \in BOOLEAN

Sources    == 1..NumSources
Contexts   == 0..(NumContexts - 1)
Priorities == 0..MaxPriority
NUM_ENABLED == (NumSources + Word - 1) \div Word

(***************************************************************************)
(* r_priority has NUM_SOURCES words, 0..NumSources-1, although source ids  *)
(* run to NumSources: only these sources own a priority register, and      *)
(* get_source_irq reads one word past the array for the last source.       *)
(***************************************************************************)
PrioritySources == 1..(NumSources - 1)

(* The word it finds there: as low, as high or higher than any priority. *)
Strays == 0..(MaxPriority + 1)

VARIABLES
  priority,         \* r_priority, for the sources that own a word
  pending,          \* r_pending, as the set of the ids whose bit is set
  enabled,          \* r_enabled, per context the set of enabled ids
  threshold,        \* r_threshold, per context
  claim_complete,   \* r_claim_complete: the id the last claim returned
  src_irq_cleared,  \* per source: may it become pending (the gateway)
  interrupts_o,     \* per context: the level last driven to the hart
  interrupts_i,     \* sc_signal build only: the level of every source line
  irq_edge          \* sc_signal build only: source_irq_cb is scheduled

regVars == <<priority, pending, enabled, threshold, claim_complete>>
cfgVars == <<priority, enabled, threshold>>
lineVars == <<interrupts_i, irq_edge>>
vars == <<priority, pending, enabled, threshold, claim_complete,
          src_irq_cleared, interrupts_o, interrupts_i, irq_edge>>

Init ==
  /\ priority = [s \in PrioritySources |-> 0]
  /\ pending = {}
  /\ enabled = [c \in Contexts |-> {}]
  /\ threshold = [c \in Contexts |-> 0]
  /\ claim_complete = [c \in Contexts |-> 0]
  /\ src_irq_cleared = [s \in Sources |-> TRUE]
  /\ interrupts_o = [c \in Contexts |-> FALSE]
  /\ interrupts_i = [s \in Sources |-> FALSE]
  /\ irq_edge = FALSE

-----------------------------------------------------------------------------
(***************************************************************************)
(* Arbitration.  `stray' is the word found past the end of r_priority when *)
(* the last source is examined.                                            *)
(***************************************************************************)
PrioOf(stray, s) == IF s \in PrioritySources THEN priority[s] ELSE stray

(* The sources the scan of get_source_irq accepts for a context, given the *)
(* pending set it reads.  A source of priority 0 never passes prio > top.  *)
Candidates(ctx, pend, ignore_threshold, stray) ==
  {s \in pend \cap enabled[ctx] :
      /\ PrioOf(stray, s) > 0
      /\ ignore_threshold \/ PrioOf(stray, s) > threshold[ctx]}

(* The highest priority wins, the lowest id among equals. *)
Beats(stray, s, t) ==
  \/ PrioOf(stray, s) > PrioOf(stray, t)
  \/ PrioOf(stray, s) = PrioOf(stray, t) /\ s <= t

(* Mutant: the index-to-id offset is applied twice. *)
MutDoubleOffset(ctx, pend, find_top_priority, ignore_threshold, stray) ==
  LET cand == Candidates(ctx, pend, ignore_threshold, stray)
  IN  IF cand = {} THEN 0
      ELSE 1 + (CHOOSE s \in cand : \A t \in cand : Beats(stray, s, t))

(* Mutant: the comparison of priorities is reversed. *)
MutWeakestFirst(ctx, pend, find_top_priority, ignore_threshold, stray) ==
  LET cand == Candidates(ctx, pend, ignore_threshold, stray)
  IN  IF cand = {} THEN 0
      ELSE CHOOSE s \in cand : \A t \in cand : Beats(stray, t, s)

get_source_irq(ctx, pend, find_top_priority, ignore_threshold, stray) ==
  LET cand == Candidates(ctx, pend, ignore_threshold, stray)
  IN  IF cand = {} THEN 0
      ELSE CHOOSE s \in cand :
             \A t \in cand : IF find_top_priority THEN Beats(stray, s, t)
                                                  ELSE s <= t

(* handle_pending_irq: the level the context's output is driven to. *)
handle_pending_irq(ctx, pend, stray) ==
  get_source_irq(ctx, pend, FALSE, FALSE, stray) # 0

-----------------------------------------------------------------------------
(* Mutant: the outputs are evaluated before the pending bits are set. *)
MutScanTooEarly ==
  LET fresh == {s \in Sources : src_irq_cleared[s] /\ interrupts_i[s]}
  IN  /\ SC_SIGNAL_IF /\ irq_edge
      /\ irq_edge' = FALSE
      /\ pending' = pending \cup fresh
      /\ src_irq_cleared' = [s \in Sources |-> src_irq_cleared[s] /\ s \notin fresh]
      /\ \E stray \in Strays :
           interrupts_o' = [c \in Contexts |-> handle_pending_irq(c, pending, stray)]
      /\ UNCHANGED <<cfgVars, claim_complete, interrupts_i>>

(* Mutant: an accepted source keeps its gateway open. *)
MutGatewayStaysOpen(s) ==
  /\ ~SC_SIGNAL_IF
  /\ src_irq_cleared[s]
  /\ pending' = pending \cup {s}
  /\ \E stray \in Strays :
       interrupts_o' =
         [c \in Contexts |-> handle_pending_irq(c, pending', stray)]
  /\ UNCHANGED <<cfgVars, claim_complete, src_irq_cleared, lineVars>>

(* TLM build: a source drives its line with a value other than zero; a zero *)
(* and a source that has not been cleared are ignored.                      *)
SourceIrq(s) ==
  /\ ~SC_SIGNAL_IF
  /\ src_irq_cleared[s]
  /\ pending' = pending \cup {s}
  /\ src_irq_cleared' = [src_irq_cleared EXCEPT ![s] = FALSE]
  /\ \E stray \in Strays :
       interrupts_o' =
         [c \in Contexts |-> handle_pending_irq(c, pending', stray)]
  /\ UNCHANGED <<cfgVars, claim_complete, lineVars>>

(* sc_signal build: the lines take new levels in one update phase. *)
LinesChange(levels) ==
  /\ SC_SIGNAL_IF
  /\ interrupts_i' = levels
  /\ irq_edge' = (irq_edge \/ \E s \in Sources : levels[s] /\ ~interrupts_i[s])
  /\ UNCHANGED <<regVars, src_irq_cleared, interrupts_o>>

(* sc_signal build: the method sensitive to the rising edges runs. *)
SourceIrqScan ==
  LET fresh == {s \in Sources : src_irq_cleared[s] /\ interrupts_i[s]}
  IN  /\ SC_SIGNAL_IF /\ irq_edge
      /\ irq_edge' = FALSE
      /\ pending' = pending \cup fresh
      /\ src_irq_cleared' = [s \in Sources |-> src_irq_cleared[s] /\ s \notin fresh]
      /\ \/ fresh = {} /\ interrupts_o' = interrupts_o
         \/ /\ fresh # {}
            /\ \E stray \in Strays :
                 interrupts_o' =
                   [c \in Contexts |-> handle_pending_irq(c, pending', stray)]
      /\ UNCHANGED <<cfgVars, claim_complete, interrupts_i>>

(* Mutant: a claim clears the pending bit without a new evaluation. *)
MutClaimNoReevaluation(ctx) ==
  \E stray \in Strays :
    LET src_id == get_source_irq(ctx, pending, TRUE, FALSE, stray)
    IN  /\ claim_complete' = [claim_complete EXCEPT ![ctx] = src_id]
        /\ pending' = pending \ {src_id}
        /\ UNCHANGED <<cfgVars, src_irq_cleared, interrupts_o, lineVars>>

(* A read of the claim/complete register by context ctx. *)
ClaimRead(ctx) ==
  \E stray, stray2 \in Strays :
    LET src_id == get_source_irq(ctx, pending, TRUE, FALSE, stray)
    IN  /\ claim_complete' = [claim_complete EXCEPT ![ctx] = src_id]
        /\ pending' = pending \ {src_id}
        /\ interrupts_o' = [interrupts_o EXCEPT
                              ![ctx] = handle_pending_irq(ctx, pending', stray2)]
        /\ UNCHANGED <<cfgVars, src_irq_cleared, lineVars>>

(* Mutant: the id indexes src_irq_cleared without the offset of one. *)
MutCompleteWrongIndex(ctx, src_id) ==
  /\ src_id # 0
  /\ src_id \in enabled[ctx]
  /\ src_irq_cleared' = [s \in Sources |-> src_irq_cleared[s] \/ s = src_id + 1]
  /\ UNCHANGED <<regVars, interrupts_o, lineVars>>

(* A write of src_id to the claim/complete register by context ctx. *)
CompleteWrite(ctx, src_id) ==
  /\ src_id # 0
  /\ src_id \in enabled[ctx]
  /\ src_irq_cleared' = [src_irq_cleared EXCEPT ![src_id] = TRUE]
  /\ UNCHANGED <<regVars, interrupts_o, lineVars>>

(* Register writes without a callback only store the value. *)
PriorityWrite(s, prio) ==
  /\ priority' = [priority EXCEPT ![s] = prio]
  /\ UNCHANGED <<pending, enabled, threshold, claim_complete,
                 src_irq_cleared, interrupts_o, lineVars>>

EnabledWord(w) == {s \in Sources : s \div Word = w}

EnabledWrite(ctx, w, bits) ==
  /\ enabled' = [enabled EXCEPT ![ctx] = (@ \ EnabledWord(w)) \cup bits]
  /\ UNCHANGED <<priority, pending, threshold, claim_complete,
                 src_irq_cleared, interrupts_o, lineVars>>

ThresholdWrite(ctx, thold) ==
  /\ threshold' = [threshold EXCEPT ![ctx] = thold]
  /\ UNCHANGED <<priority, pending, enabled, claim_complete,
                 src_irq_cleared, interrupts_o, lineVars>>

(* rst_i pulses: the register file returns to its reset values, and nothing *)
(* else does: neither src_irq_cleared nor the outputs.                      *)
Reset ==
  /\ priority' = [s \in PrioritySources |-> 0]
  /\ pending' = {}
  /\ enabled' = [c \in Contexts |-> {}]
  /\ threshold' = [c \in Contexts |-> 0]
  /\ claim_complete' = [c \in Contexts |-> 0]
  /\ UNCHANGED <<src_irq_cleared, interrupts_o, lineVars>>

Configure ==
  \/ \E s \in PrioritySources, prio \in Priorities : PriorityWrite(s, prio)
  \/ \E ctx \in Contexts, w \in 0..(NUM_ENABLED - 1) :
       \E bits \in SUBSET EnabledWord(w) : EnabledWrite(ctx, w, bits)
  \/ \E ctx \in Contexts, thold \in Priorities : ThresholdWrite(ctx, thold)

Next ==
  \/ \E s \in Sources : SourceIrq(s)
  \/ \E levels \in [Sources -> BOOLEAN] : LinesChange(levels)
  \/ SourceIrqScan
  \/ \E ctx \in Contexts : ClaimRead(ctx)
  \/ \E ctx \in Contexts, src_id \in Sources \cup {0} : CompleteWrite(ctx, src_id)
  \/ Configure
  \/ Reset

Spec == Init /\ [][Next]_vars

-----------------------------------------------------------------------------
(* The registers, the gateway and the outputs stay within the ranges the   *)
(* C++ types and the register map give them; in particular a claim only    *)
(* ever returns 0 or the id of an existing source.                         *)
TypeOK ==
  /\ priority \in [PrioritySources -> Priorities]
  /\ pending \subseteq Sources
  /\ enabled \in [Contexts -> SUBSET Sources]
  /\ threshold \in [Contexts -> Priorities]
  /\ claim_complete \in [Contexts -> Sources \cup {0}]
  /\ src_irq_cleared \in [Sources -> BOOLEAN]
  /\ interrupts_o \in [Contexts -> BOOLEAN]
  /\ interrupts_i \in [Sources -> BOOLEAN]
  /\ irq_edge \in BOOLEAN

(* Whatever the stray priority of the last source is, ctx has work. *)
MustServe(ctx) == \A stray \in Strays : Candidates(ctx, pending, FALSE, stray) # {}

(* For some stray priority of the last source, ctx has work. *)
MayServe(ctx) == \E stray \in Strays : Candidates(ctx, pending, FALSE, stray) # {}

Missed(ctx)   == ~interrupts_o[ctx] /\ MustServe(ctx)
Spurious(ctx) == interrupts_o[ctx] /\ ~MayServe(ctx)

(* No interrupt is left unsignalled by the controller itself.  A context    *)
(* with work and a low output can only come from a write of a priority,     *)
(* enable or threshold register (which plic.h stores without a new          *)
(* evaluation); source events, claims and completions of any context, in    *)
(* any order, and resets never create one.                                  *)
MissedOnlyByConfiguration ==
  [][\A ctx \in Contexts :
       Missed(ctx)' /\ ~Missed(ctx) => cfgVars' # cfgVars]_vars

(* An output that is high with nothing to serve has one of two causes: the  *)
(* configuration changed (a reset included), or another context claimed the *)
(* source both were signalled for, since claim_complete_read_cb evaluates   *)
(* only the claiming context.  A source event, a completion or a context's  *)
(* own claim never leaves a spurious output behind.                         *)
SpuriousOnlyByOthers ==
  [][\A ctx \in Contexts :
       Spurious(ctx)' /\ ~Spurious(ctx) =>
          \/ cfgVars' # cfgVars
          \/ \E other \in Contexts \ {ctx} : ClaimRead(other)]_vars

(* plic.h:318 says of the claim: "The claim operation is not affected by   *)
(* the threshold setting."  A claim then returns a source whenever one of  *)
(* non-zero priority is pending and enabled for the context.               *)
ClaimIgnoresThreshold ==
  [][\A ctx \in Contexts :
       /\ ClaimRead(ctx)
       /\ \A stray \in Strays : Candidates(ctx, pending, TRUE, stray) # {}
       => claim_complete'[ctx] # 0]_vars

-----------------------------------------------------------------------------
(* get_source_irq as the loop it is: one pass over the sources in ascending *)
(* order with a running maximum and an early exit, to be compared with the  *)
(* choice above that states its result.                                     *)

(* Mutant: `prio >= top_prio', so that the highest id wins a tie. *)
MutScanLastWins(ctx, ignore_threshold, stray, acc, s) ==
  IF /\ s \in pending /\ s \in enabled[ctx]
     /\ ignore_threshold \/ PrioOf(stray, s) > threshold[ctx]
     /\ PrioOf(stray, s) >= acc.top_prio
     /\ ~acc.stop
  THEN [acc EXCEPT !.top_prio = PrioOf(stray, s), !.prio_irq = s]
  ELSE acc

(* One iteration of the scan for the source s. *)
ScanStep(ctx, ignore_threshold, stray, acc, s) ==
  IF /\ s \in pending /\ s \in enabled[ctx]
     /\ ignore_threshold \/ PrioOf(stray, s) > threshold[ctx]
     /\ PrioOf(stray, s) > acc.top_prio
     /\ ~acc.stop
  THEN [acc EXCEPT !.top_prio = PrioOf(stray, s), !.prio_irq = s,
                   !.stop = ~acc.find_top]
  ELSE acc

(* acc[s]: the variables of the loop after the sources 1..s. *)
Scan(ctx, find_top_priority, ignore_threshold, stray) ==
  LET start == [top_prio |-> 0, prio_irq |-> 0, stop |-> FALSE,
                find_top |-> find_top_priority]
      acc[s \in 0..NumSources] ==
        IF s = 0 THEN start ELSE ScanStep(ctx, ignore_threshold, stray, acc[s - 1], s)
  IN  acc[NumSources].prio_irq

(* The single pass with its early exit finds what the documentation of      *)
(* get_source_irq promises: the highest priority with the lowest id among   *)
(* equals for a claim, the first qualifying source for a signalling test,   *)
(* 0 when none qualifies.                                                   *)
ScanFindsTheWinner ==
  \A ctx \in Contexts, top, ignore \in BOOLEAN, stray \in Strays :
     Scan(ctx, top, ignore, stray) = get_source_irq(ctx, pending, top, ignore, stray)
=============================================================================
