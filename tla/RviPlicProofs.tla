--------------------------- MODULE RviPlicProofs ---------------------------
(***************************************************************************)
(* Theorems of RviPlic, for any number of sources, contexts and priorities *)
(* and for both builds; of its arbitration written as the loop it is; and  *)
(* of RviPlicSystem, the handshake invariant for any number of harts and   *)
(* boot configurations and the implementation of the abstract gateway.     *)
(***************************************************************************)
EXTENDS RviPlicSystem, NatLemmas, TLAPS

(* Among competing sources one beats all the others: the maximum the scan   *)
(* looks for exists and is one of the candidates.                           *)
LEMMA WinnerExists ==
  ASSUME priority \in [PrioritySources -> Priorities],
         NEW stray \in Strays,
         NEW cand \in SUBSET Sources, cand # {}
  PROVE  \E s \in cand : \A t \in cand : Beats(stray, s, t)
<1> DEFINE rank == [s \in Sources |-> PrioOf(stray, s)]
<1>1. \A s \in cand : rank[s] \in 0..(MaxPriority + 1)
  BY PlicAssumption DEF PrioOf, Priorities, Strays
<1>2. cand \in SUBSET Nat /\ MaxPriority + 1 \in Nat
  BY PlicAssumption DEF Sources
<1>3. \E s \in cand : \A t \in cand :
        \/ rank[s] > rank[t]
        \/ rank[s] = rank[t] /\ s <= t
  <2> HIDE DEF rank
  <2> QED
    BY <1>1, <1>2, RankedWinner
<1> QED
  BY <1>3 DEF Beats

(* What get_source_irq returns: 0 exactly when no source qualifies, and a   *)
(* qualifying source, the winning one for a claim, otherwise.               *)
LEMMA GetSourceIrqResult ==
  ASSUME priority \in [PrioritySources -> Priorities],
         NEW stray \in Strays, NEW ctx \in Contexts,
         NEW pend \in SUBSET Sources,
         NEW top \in BOOLEAN, NEW ignore \in BOOLEAN
  PROVE  LET r == get_source_irq(ctx, pend, top, ignore, stray)
             cand == Candidates(ctx, pend, ignore, stray)
         IN  /\ cand = {} => r = 0
             /\ cand # {} => r \in cand
             /\ r \in cand /\ top => \A t \in cand : Beats(stray, r, t)
<1> DEFINE cand == Candidates(ctx, pend, ignore, stray)
<1>1. cand \in SUBSET Sources
  BY DEF Candidates
<1>2. CASE cand = {}
  BY <1>2 DEF get_source_irq
<1>3. CASE cand # {}
  <2>1. \E s \in cand : \A t \in cand : IF top THEN Beats(stray, s, t) ELSE s <= t
    <3>1. CASE top
      <4> HIDE DEF cand
      <4> QED
        BY <1>1, <1>3, <3>1, WinnerExists
    <3>2. CASE ~top
      <4>1. cand \in SUBSET Nat
        BY <1>1 DEF Sources
      <4> HIDE DEF cand
      <4>2. \E s \in cand : \A t \in cand : s <= t
        BY <1>3, <4>1, LeastNatural
      <4> QED
        BY <3>2, <4>2
    <3> QED
      BY <3>1, <3>2
  <2>2. get_source_irq(ctx, pend, top, ignore, stray) =
           CHOOSE s \in cand : \A t \in cand : IF top THEN Beats(stray, s, t) ELSE s <= t
    BY <1>3 DEF get_source_irq
  <2> HIDE DEF cand
  <2>3. /\ get_source_irq(ctx, pend, top, ignore, stray) \in cand
        /\ \A t \in cand :
             IF top THEN Beats(stray, get_source_irq(ctx, pend, top, ignore, stray), t)
             ELSE get_source_irq(ctx, pend, top, ignore, stray) <= t
    BY <2>1, <2>2
  <2> QED
    BY <1>3, <2>3 DEF cand
<1> QED
  BY <1>2, <1>3

(* The output level is high exactly when some source qualifies. *)
LEMMA OutputLevel ==
  ASSUME priority \in [PrioritySources -> Priorities],
         NEW stray \in Strays, NEW ctx \in Contexts,
         NEW pend \in SUBSET Sources
  PROVE  handle_pending_irq(ctx, pend, stray) <=>
           Candidates(ctx, pend, FALSE, stray) # {}
<1>1. 0 \notin Candidates(ctx, pend, FALSE, stray)
  BY DEF Candidates, Sources
<1> QED
  BY <1>1, GetSourceIrqResult DEF handle_pending_irq

-----------------------------------------------------------------------------
LEMMA InitType == Init => TypeOK
<1> SUFFICES ASSUME Init PROVE TypeOK
  OBVIOUS
<1>1. 0 \in Priorities
  BY PlicAssumption DEF Priorities
<1>2. priority \in [PrioritySources -> Priorities] /\ threshold \in [Contexts -> Priorities]
  BY <1>1 DEF Init
<1>3. /\ pending \subseteq Sources /\ enabled \in [Contexts -> SUBSET Sources]
      /\ claim_complete \in [Contexts -> Sources \cup {0}]
  BY DEF Init
<1>4. /\ src_irq_cleared \in [Sources -> BOOLEAN] /\ interrupts_o \in [Contexts -> BOOLEAN]
      /\ interrupts_i \in [Sources -> BOOLEAN] /\ irq_edge \in BOOLEAN
  BY DEF Init
<1> QED
  BY <1>2, <1>3, <1>4 DEF TypeOK

LEMMA NextType == TypeOK /\ [Next]_vars => TypeOK'
<1> SUFFICES ASSUME TypeOK, [Next]_vars PROVE TypeOK'
  OBVIOUS
<1> USE PlicAssumption
<1>1. ASSUME NEW s \in Sources, SourceIrq(s) PROVE TypeOK'
  BY <1>1 DEF SourceIrq, TypeOK, cfgVars, lineVars, handle_pending_irq
<1>2. ASSUME NEW levels \in [Sources -> BOOLEAN], LinesChange(levels) PROVE TypeOK'
  BY <1>2 DEF LinesChange, TypeOK, regVars
<1>3. CASE SourceIrqScan
  BY <1>3 DEF SourceIrqScan, TypeOK, cfgVars, handle_pending_irq
<1>4. ASSUME NEW ctx \in Contexts, ClaimRead(ctx) PROVE TypeOK'
  <2>1. PICK stray \in Strays, stray2 \in Strays :
          LET src_id == get_source_irq(ctx, pending, TRUE, FALSE, stray)
          IN  /\ claim_complete' = [claim_complete EXCEPT ![ctx] = src_id]
              /\ pending' = pending \ {src_id}
              /\ interrupts_o' = [interrupts_o EXCEPT
                              ![ctx] = handle_pending_irq(ctx, pending', stray2)]
              /\ UNCHANGED <<cfgVars, src_irq_cleared, lineVars>>
    BY <1>4 DEF ClaimRead
  <2>2. get_source_irq(ctx, pending, TRUE, FALSE, stray) \in Sources \cup {0}
    BY GetSourceIrqResult DEF TypeOK, Candidates
  <2>3. handle_pending_irq(ctx, pending', stray2) \in BOOLEAN
    BY DEF handle_pending_irq
  <2> QED
    BY <2>1, <2>2, <2>3 DEF TypeOK, cfgVars, lineVars
<1>5. ASSUME NEW ctx \in Contexts, NEW src_id \in Sources \cup {0},
             CompleteWrite(ctx, src_id)
      PROVE  TypeOK'
  BY <1>5 DEF CompleteWrite, TypeOK, regVars, lineVars
<1>6. CASE Configure
  <2>1. ASSUME NEW s \in PrioritySources, NEW prio \in Priorities,
               PriorityWrite(s, prio)
        PROVE  TypeOK'
    BY <2>1 DEF PriorityWrite, TypeOK, lineVars
  <2>2. ASSUME NEW ctx \in Contexts, NEW w \in 0..(NUM_ENABLED - 1),
               NEW bits \in SUBSET EnabledWord(w), EnabledWrite(ctx, w, bits)
        PROVE  TypeOK'
    <3>1. (enabled[ctx] \ EnabledWord(w)) \cup bits \in SUBSET Sources
      BY DEF TypeOK, EnabledWord
    <3> QED
      BY <2>2, <3>1 DEF EnabledWrite, TypeOK, lineVars
  <2>3. ASSUME NEW ctx \in Contexts, NEW thold \in Priorities,
               ThresholdWrite(ctx, thold)
        PROVE  TypeOK'
    BY <2>3 DEF ThresholdWrite, TypeOK, lineVars
  <2> QED
    BY <1>6, <2>1, <2>2, <2>3 DEF Configure
<1>7. CASE Reset
  BY <1>7 DEF Reset, TypeOK, lineVars, Priorities
<1>8. CASE UNCHANGED vars
  BY <1>8 DEF vars, TypeOK
<1> QED
  BY <1>1, <1>2, <1>3, <1>4, <1>5, <1>6, <1>7, <1>8 DEF Next

(* The registers, gateways and outputs keep their types: in particular a    *)
(* claim never returns an id that is not a source.                          *)
THEOREM TypeCorrect == Spec => []TypeOK
<1>1. Init => TypeOK
  BY InitType
<1>2. TypeOK /\ [Next]_vars => TypeOK'
  BY NextType
<1> QED
  BY <1>1, <1>2, PTL DEF Spec

-----------------------------------------------------------------------------
(* With the configuration unchanged, what a context has to serve after a    *)
(* step is what the old registers say of the new pending bits.              *)
LEMMA ServeFrame ==
  ASSUME UNCHANGED cfgVars, NEW ctx \in Contexts
  PROVE  /\ MustServe(ctx)' <=>
              \A stray \in Strays : Candidates(ctx, pending', FALSE, stray) # {}
         /\ MayServe(ctx)' <=>
              \E stray \in Strays : Candidates(ctx, pending', FALSE, stray) # {}
<1>1. /\ priority' = priority /\ enabled' = enabled /\ threshold' = threshold
  BY DEF cfgVars
<1> QED
  BY <1>1 DEF MustServe, MayServe, Candidates, PrioOf

(* Removing pending bits never creates work. *)
LEMMA CandidatesMonotone ==
  ASSUME NEW ctx \in Contexts, NEW stray \in Strays,
         NEW small, NEW big, small \subseteq big
  PROVE  Candidates(ctx, small, FALSE, stray) \subseteq Candidates(ctx, big, FALSE, stray)
BY DEF Candidates

(* A step that drives every output from the new pending bits leaves no      *)
(* context missed or spurious.                                              *)
LEMMA EvaluationIsExact ==
  ASSUME TypeOK, TypeOK', UNCHANGED cfgVars,
         NEW ctx \in Contexts, NEW stray \in Strays,
         interrupts_o'[ctx] = handle_pending_irq(ctx, pending', stray)
  PROVE  ~Missed(ctx)' /\ ~Spurious(ctx)'
<1>1. pending' \in SUBSET Sources /\ priority \in [PrioritySources -> Priorities]
  BY DEF TypeOK
<1>2. interrupts_o'[ctx] <=> Candidates(ctx, pending', FALSE, stray) # {}
  BY <1>1, OutputLevel
<1>3. MustServe(ctx)' => interrupts_o'[ctx]
  BY <1>2, ServeFrame
<1>4. interrupts_o'[ctx] => MayServe(ctx)'
  BY <1>2, ServeFrame
<1> QED
  BY <1>3, <1>4 DEF Missed, Spurious

(* The step relation behind both theorems: with the configuration unchanged *)
(* no step makes a context missed, and only another context's claim makes   *)
(* it spurious.                                                             *)
LEMMA OutputStep ==
  ASSUME TypeOK, [Next]_vars, UNCHANGED cfgVars, NEW ctx \in Contexts
  PROVE  /\ Missed(ctx)' => Missed(ctx)
         /\ Spurious(ctx)' => \/ Spurious(ctx)
                              \/ \E other \in Contexts \ {ctx} : ClaimRead(other)
<1> USE PlicAssumption
<1>a. TypeOK'
  BY NextType
<1>b. ASSUME pending' = pending, interrupts_o' = interrupts_o
      PROVE  (Missed(ctx)' => Missed(ctx)) /\ (Spurious(ctx)' => Spurious(ctx))
  BY <1>b, ServeFrame DEF Missed, Spurious, MustServe, MayServe
<1>1. ASSUME NEW s \in Sources, SourceIrq(s)
      PROVE  ~Missed(ctx)' /\ ~Spurious(ctx)'
  <2>1. PICK stray \in Strays :
          interrupts_o' = [c \in Contexts |-> handle_pending_irq(c, pending', stray)]
    BY <1>1 DEF SourceIrq
  <2>2. interrupts_o'[ctx] = handle_pending_irq(ctx, pending', stray)
    BY <2>1
  <2> QED
    BY <2>2, <1>a, EvaluationIsExact
<1>2. ASSUME NEW levels \in [Sources -> BOOLEAN], LinesChange(levels)
      PROVE  pending' = pending /\ interrupts_o' = interrupts_o
  BY <1>2 DEF LinesChange, regVars
<1>3. CASE SourceIrqScan
  <2> DEFINE fresh == {s \in Sources : src_irq_cleared[s] /\ interrupts_i[s]}
  <2>1. CASE fresh = {}
    BY <1>3, <2>1, <1>b DEF SourceIrqScan
  <2>2. CASE fresh # {}
    <3>1. PICK stray \in Strays :
            interrupts_o' = [c \in Contexts |-> handle_pending_irq(c, pending', stray)]
      BY <1>3, <2>2 DEF SourceIrqScan
    <3>2. interrupts_o'[ctx] = handle_pending_irq(ctx, pending', stray)
      BY <3>1
    <3> QED
      BY <3>2, <1>a, EvaluationIsExact
  <2> QED
    BY <2>1, <2>2
<1>4. ASSUME NEW claimer \in Contexts, ClaimRead(claimer)
      PROVE  /\ Missed(ctx)' => Missed(ctx)
             /\ Spurious(ctx)' => Spurious(ctx) \/ claimer # ctx
  <2>1. PICK stray2 \in Strays :
          interrupts_o' = [interrupts_o EXCEPT
                             ![claimer] = handle_pending_irq(claimer, pending', stray2)]
    BY <1>4 DEF ClaimRead
  <2>2. pending' \subseteq pending
    BY <1>4 DEF ClaimRead
  <2>3. CASE claimer = ctx
    <3>1. interrupts_o'[ctx] = handle_pending_irq(ctx, pending', stray2)
      BY <2>1, <2>3 DEF TypeOK
    <3> QED
      BY <3>1, <1>a, EvaluationIsExact
  <2>4. CASE claimer # ctx
    <3>1. interrupts_o'[ctx] = interrupts_o[ctx]
      BY <2>1, <2>4 DEF TypeOK
    <3>2. MustServe(ctx)' => MustServe(ctx)
      <4>1. \A stray \in Strays :
              Candidates(ctx, pending', FALSE, stray) \subseteq Candidates(ctx, pending, FALSE, stray)
        BY <2>2, CandidatesMonotone
      <4>2. MustServe(ctx) <=>
              \A stray \in Strays : Candidates(ctx, pending, FALSE, stray) # {}
        BY DEF MustServe
      <4> QED
        BY <4>1, <4>2, ServeFrame
    <3> QED
      BY <2>4, <3>1, <3>2 DEF Missed
  <2> QED
    BY <2>3, <2>4
<1>5. ASSUME NEW c \in Contexts, NEW src_id \in Sources \cup {0},
             CompleteWrite(c, src_id)
      PROVE  pending' = pending /\ interrupts_o' = interrupts_o
  BY <1>5 DEF CompleteWrite, regVars
<1>6. CASE Configure
  BY <1>6, <1>b DEF Configure, PriorityWrite, EnabledWrite, ThresholdWrite
<1>7. CASE Reset
  <2>1. interrupts_o' = interrupts_o /\ pending' \subseteq pending /\ pending' = {}
    BY <1>7 DEF Reset
  <2>2. enabled'[ctx] = {} /\ enabled' = enabled
    BY <1>7 DEF Reset, cfgVars
  <2>3. \A pend : \A stray \in Strays : Candidates(ctx, pend, FALSE, stray) = {}
    BY <2>2 DEF Candidates
  <2>4. 0 \in Strays
    BY DEF Strays
  <2>5. ~MustServe(ctx)' /\ ~MayServe(ctx)'
    BY <2>3, <2>4, ServeFrame
  <2>6. ~MayServe(ctx)
    BY <2>3 DEF MayServe
  <2> QED
    BY <2>1, <2>5, <2>6 DEF Missed, Spurious
<1>8. CASE UNCHANGED vars
  BY <1>8, <1>b DEF vars
<1> QED
  BY <1>1, <1>2, <1>3, <1>4, <1>5, <1>6, <1>7, <1>8, <1>b DEF Next

(* For any number of sources and contexts, an interrupt is left unsignalled *)
(* only by a write of a configuration register.                             *)
THEOREM MissedOnlyByConfigurationHolds == Spec => MissedOnlyByConfiguration
<1>1. TypeOK /\ [Next]_vars =>
        [\A ctx \in Contexts :
           Missed(ctx)' /\ ~Missed(ctx) => cfgVars' # cfgVars]_vars
  BY OutputStep
<1> QED
  BY <1>1, TypeCorrect, PTL DEF Spec, MissedOnlyByConfiguration

(* For any number of sources and contexts, an output with nothing behind it *)
(* is the work of software's configuration or of another context's claim.   *)
THEOREM SpuriousOnlyByOthersHolds == Spec => SpuriousOnlyByOthers
<1>1. TypeOK /\ [Next]_vars =>
        [\A ctx \in Contexts :
           Spurious(ctx)' /\ ~Spurious(ctx) =>
              \/ cfgVars' # cfgVars
              \/ \E other \in Contexts \ {ctx} : ClaimRead(other)]_vars
  BY OutputStep
<1> QED
  BY <1>1, TypeCorrect, PTL DEF Spec, SpuriousOnlyByOthers

-----------------------------------------------------------------------------
(* The variables of the scan. *)
ScanVars == [top_prio : Strays, prio_irq : 0..NumSources, stop : BOOLEAN, find_top : BOOLEAN]

(* What they hold once the sources 1..n are examined: the winner among the  *)
(* candidates up to n, and whether the first one ended the search.          *)
UpTo(n, C) == {s \in C : s <= n}

ScanInv(ctx, top, ignore, stray, acc, n) ==
  LET cand == UpTo(n, Candidates(ctx, pending, ignore, stray))
  IN  /\ acc \in ScanVars /\ acc.find_top = top
      /\ cand = {} => acc.prio_irq = 0 /\ acc.top_prio = 0 /\ ~acc.stop
      /\ cand # {} => /\ acc.prio_irq \in cand
                      /\ acc.top_prio = PrioOf(stray, acc.prio_irq)
                      /\ acc.stop = ~top
                      /\ \A t \in cand : IF top THEN Beats(stray, acc.prio_irq, t)
                                                ELSE acc.prio_irq <= t

ScanStart(top) == [top_prio |-> 0, prio_irq |-> 0, stop |-> FALSE, find_top |-> top]

LEMMA UpToNext ==
  ASSUME NEW C \in SUBSET Nat, NEW n \in Nat \ {0}
  PROVE  /\ UpTo(n, C) = IF n \in C THEN UpTo(n - 1, C) \cup {n} ELSE UpTo(n - 1, C)
         /\ \A t \in UpTo(n - 1, C) : t \in C /\ t < n
<1>1. \A s \in C : s \in Nat
  OBVIOUS
<1>2. \A s \in Nat : s <= n <=> s <= n - 1 \/ s = n
  OBVIOUS
<1>3. \A s : s \in UpTo(n, C) <=> s \in UpTo(n - 1, C) \/ (s \in C /\ s = n)
  BY <1>1, <1>2 DEF UpTo
<1>4. \A t \in UpTo(n - 1, C) : t \in C /\ t < n
  BY <1>1 DEF UpTo
<1> QED
  BY <1>3, <1>4

LEMMA ScanStarts ==
  ASSUME NEW ctx \in Contexts, NEW top \in BOOLEAN, NEW ignore \in BOOLEAN,
         NEW stray \in Strays, TypeOK
  PROVE  ScanInv(ctx, top, ignore, stray, ScanStart(top), 0)
<1>1. Candidates(ctx, pending, ignore, stray) \subseteq Sources
  BY DEF Candidates, TypeOK
<1>2. UpTo(0, Candidates(ctx, pending, ignore, stray)) = {}
  BY <1>1 DEF UpTo, Sources
<1>3. ScanStart(top) \in ScanVars
  BY PlicAssumption DEF ScanStart, ScanVars, Strays
<1> QED
  BY <1>2, <1>3 DEF ScanInv, ScanStart

(* One iteration keeps to the invariant. *)
LEMMA ScanAdvances ==
  ASSUME NEW ctx \in Contexts, NEW top \in BOOLEAN, NEW ignore \in BOOLEAN,
         NEW stray \in Strays, NEW n \in Sources, NEW acc, TypeOK,
         ScanInv(ctx, top, ignore, stray, acc, n - 1)
  PROVE  ScanInv(ctx, top, ignore, stray, ScanStep(ctx, ignore, stray, acc, n), n)
<1> DEFINE all == Candidates(ctx, pending, ignore, stray)
           old == UpTo(n - 1, all)
           next == ScanStep(ctx, ignore, stray, acc, n)
           p == PrioOf(stray, n)
           takes == n \in all /\ p > acc.top_prio /\ ~acc.stop
<1>1. /\ acc \in ScanVars /\ acc.find_top = top
      /\ old = {} => acc.prio_irq = 0 /\ acc.top_prio = 0 /\ ~acc.stop
      /\ old # {} => /\ acc.prio_irq \in old
                     /\ acc.top_prio = PrioOf(stray, acc.prio_irq)
                     /\ acc.stop = ~top
                     /\ \A t \in old : IF top THEN Beats(stray, acc.prio_irq, t)
                                               ELSE acc.prio_irq <= t
  BY DEF ScanInv
<1>2. all \subseteq Sources /\ Sources \subseteq Nat \ {0}
  BY PlicAssumption DEF Candidates, TypeOK, Sources
<1>3. \A s \in Sources : PrioOf(stray, s) \in Strays /\ PrioOf(stray, s) \in Nat
  BY PlicAssumption DEF TypeOK, Sources, PrioOf, Strays, Priorities, PrioritySources
<1>4. n \in all <=> n \in pending /\ n \in enabled[ctx] /\ p > 0 /\ (ignore \/ p > threshold[ctx])
  BY DEF Candidates
<1>5. /\ UpTo(n, all) = IF n \in all THEN old \cup {n} ELSE old
      /\ \A t \in old : t \in Sources /\ t < n
  <2>1. all \in SUBSET Nat /\ n \in Nat \ {0}
    BY <1>2
  <2> HIDE DEF all
  <2> QED
    BY <1>2, <2>1, UpToNext
<1>6. acc.top_prio \in Nat /\ p \in Nat /\ n \in Nat
  BY <1>1, <1>2, <1>3, PlicAssumption DEF ScanVars, Strays
<1>7. next = IF takes THEN [acc EXCEPT !.top_prio = p, !.prio_irq = n, !.stop = ~acc.find_top]
             ELSE acc
  BY <1>4, <1>6 DEF ScanStep
<1> HIDE DEF all, old, next
<1> SUFFICES LET cand == UpTo(n, all)
             IN  /\ next \in ScanVars /\ next.find_top = top
                 /\ cand = {} => next.prio_irq = 0 /\ next.top_prio = 0 /\ ~next.stop
                 /\ cand # {} => /\ next.prio_irq \in cand
                                 /\ next.top_prio = PrioOf(stray, next.prio_irq)
                                 /\ next.stop = ~top
                                 /\ \A t \in cand : IF top THEN Beats(stray, next.prio_irq, t)
                                                            ELSE next.prio_irq <= t
  BY DEF ScanInv, all, next
<1>8. CASE takes
  <2>1. next = [top_prio |-> p, prio_irq |-> n, stop |-> ~top, find_top |-> top]
    BY <1>1, <1>7, <1>8 DEF ScanVars
  <2>2. next \in ScanVars
    BY <2>1, <1>3, PlicAssumption DEF ScanVars, Sources
  <2>3. UpTo(n, all) = old \cup {n}
    BY <1>5, <1>8
  <2>4. ASSUME NEW t \in old, top PROVE Beats(stray, n, t)
    <3>1. Beats(stray, acc.prio_irq, t) /\ acc.top_prio = PrioOf(stray, acc.prio_irq)
      BY <1>1, <2>4
    <3>2. PrioOf(stray, t) \in Nat
      BY <1>3, <1>5
    <3>3. acc.top_prio >= PrioOf(stray, t)
      BY <1>6, <3>1, <3>2 DEF Beats
    <3> QED
      BY <1>6, <1>8, <3>2, <3>3 DEF Beats
  <2>5. top \/ old = {}
    BY <1>1, <1>8
  <2>6. Beats(stray, n, n) /\ n <= n
    BY <1>6 DEF Beats
  <2> QED
    BY <2>1, <2>2, <2>3, <2>4, <2>5, <2>6
<1>9. CASE ~takes
  <2>1. next = acc
    BY <1>7, <1>9
  <2>2. CASE n \notin all
    BY <1>1, <1>5, <2>1, <2>2
  <2>3. CASE n \in all
    <3>1. UpTo(n, all) = old \cup {n}
      BY <1>5, <2>3
    <3>2. old # {}
      BY <1>1, <1>4, <1>6, <1>9, <2>3
    <3>3. acc.prio_irq \in old /\ acc.prio_irq < n /\ acc.prio_irq \in Nat
      BY <1>1, <1>2, <1>5, <3>2
    <3>4. acc.top_prio = PrioOf(stray, acc.prio_irq) /\ acc.stop = ~top
      BY <1>1, <3>2
    <3>5. top => p <= acc.top_prio
      <4>1. ~(p > acc.top_prio) \/ acc.stop
        BY <1>9, <2>3
      <4>2. top => ~acc.stop
        BY <3>4
      <4> QED
        BY <1>6, <4>1, <4>2
    <3>6. top => Beats(stray, acc.prio_irq, n)
      BY <1>6, <3>3, <3>4, <3>5 DEF Beats
    <3>7. acc.prio_irq <= n
      BY <1>6, <3>3
    <3> QED
      BY <1>1, <2>1, <3>1, <3>2, <3>3, <3>4, <3>6, <3>7
  <2> QED
    BY <2>2, <2>3
<1> QED
  BY <1>8, <1>9

(* The scan as the last value of a sequence of iterations. *)
LEMMA ScanHasRun ==
  ASSUME NEW ctx \in Contexts, NEW top \in BOOLEAN, NEW ignore \in BOOLEAN,
         NEW stray \in Strays, TypeOK
  PROVE  \E acc : /\ acc[0] = ScanStart(top)
                  /\ \A s \in Sources : acc[s] = ScanStep(ctx, ignore, stray, acc[s - 1], s)
                  /\ Scan(ctx, top, ignore, stray) = acc[NumSources].prio_irq
<1> DEFINE step == [x \in ScanVars \X (1..NumSources) |-> ScanStep(ctx, ignore, stray, x[1], x[2])]
           start == ScanStart(top)
           IsRun(f) == f = [s \in 0..NumSources |-> IF s = 0 THEN start
                             ELSE ScanStep(ctx, ignore, stray, f[s - 1], s)]
<1>1. start \in ScanVars
  BY PlicAssumption DEF ScanStart, ScanVars, Strays
<1>2. ASSUME NEW a \in ScanVars, NEW s \in 1..NumSources
      PROVE  ScanStep(ctx, ignore, stray, a, s) \in ScanVars
  <2>1. PrioOf(stray, s) \in Strays /\ s \in 0..NumSources
    BY PlicAssumption DEF TypeOK, PrioOf, Strays, Priorities, PrioritySources
  <2> QED
    BY <2>1 DEF ScanStep, ScanVars
<1>3. step \in [ScanVars \X (1..NumSources) -> ScanVars]
  BY <1>2
<1>4. PICK f \in [0..NumSources -> ScanVars] :
        f[0] = start /\ \A s \in 1..NumSources : f[s] = step[<<f[s - 1], s>>]
  <2>1. NumSources \in Nat
    BY PlicAssumption
  <2>2. \A A : \A a \in A, g \in [A \X (1..NumSources) -> A] :
          \E f \in [0..NumSources -> A] :
             f[0] = a /\ \A s \in 1..NumSources : f[s] = g[<<f[s - 1], s>>]
    BY <2>1, LoopHasRun
  <2> HIDE DEF step, start
  <2> QED
    BY <1>1, <1>3, <2>2
<1>5. ASSUME NEW s \in 1..NumSources
      PROVE  step[<<f[s - 1], s>>] = ScanStep(ctx, ignore, stray, f[s - 1], s)
  <2>1. s - 1 \in 0..NumSources
    BY PlicAssumption
  <2>2. f[s - 1] \in ScanVars
    BY <1>4, <2>1
  <2> QED
    BY <2>2
<1>6. IsRun(f)
  <2>1. \A s \in 1..NumSources : f[s] = ScanStep(ctx, ignore, stray, f[s - 1], s)
    BY <1>4, <1>5
  <2>2. f = [s \in 0..NumSources |-> f[s]] /\ f[0] = start
    BY <1>4
  <2> HIDE DEF start
  <2> QED
    BY <2>1, <2>2, PlicAssumption
<1>7. \E g : IsRun(g)
  BY <1>6
<1> DEFINE acc == CHOOSE g : IsRun(g)
<1>8. IsRun(acc)
  <2> HIDE DEF IsRun
  <2> QED
    BY <1>7
<1>9. Scan(ctx, top, ignore, stray) = acc[NumSources].prio_irq
  BY DEF Scan, ScanStart
<1>10. acc[0] = start /\ \A s \in Sources : acc[s] = ScanStep(ctx, ignore, stray, acc[s - 1], s)
  <2> HIDE DEF acc
  <2> QED
    BY <1>8, PlicAssumption DEF Sources
<1> QED
  BY <1>9, <1>10

(* The single pass with its early exit returns, for any number of sources and *)
(* any word past the end of the priorities, what the arbitration of RviPlic   *)
(* chooses: this loop may stand for that choice wherever it is used.          *)
LEMMA ScanIsGetSourceIrq == TypeOK => ScanFindsTheWinner
<1> SUFFICES ASSUME TypeOK, NEW ctx \in Contexts, NEW top \in BOOLEAN, NEW ignore \in BOOLEAN,
                    NEW stray \in Strays
             PROVE  Scan(ctx, top, ignore, stray) =
                       get_source_irq(ctx, pending, top, ignore, stray)
  BY DEF ScanFindsTheWinner
<1> DEFINE cand == Candidates(ctx, pending, ignore, stray)
           r == Scan(ctx, top, ignore, stray)
<1>1. PICK acc : /\ acc[0] = ScanStart(top)
                 /\ \A s \in Sources : acc[s] = ScanStep(ctx, ignore, stray, acc[s - 1], s)
                 /\ r = acc[NumSources].prio_irq
  BY ScanHasRun
<1> DEFINE P == {n \in 0..NumSources : ScanInv(ctx, top, ignore, stray, acc[n], n)}
<1>2. 0 \in P
  BY <1>1, ScanStarts, PlicAssumption
<1>3. ASSUME NEW n \in 0..NumSources, n \in P, n < NumSources PROVE n + 1 \in P
  <2>1. n + 1 \in Sources /\ (n + 1) - 1 = n /\ n + 1 \in 0..NumSources
    BY <1>3, PlicAssumption DEF Sources
  <2>2. acc[n + 1] = ScanStep(ctx, ignore, stray, acc[n], n + 1)
    BY <1>1, <2>1
  <2>3. ScanInv(ctx, top, ignore, stray, acc[n], (n + 1) - 1)
    BY <1>3, <2>1
  <2>4. ScanInv(ctx, top, ignore, stray, ScanStep(ctx, ignore, stray, acc[n], n + 1), n + 1)
    BY <2>1, <2>3, ScanAdvances
  <2> QED
    BY <2>1, <2>2, <2>4
<1>4. NumSources \in P
  <2> HIDE DEF P
  <2> QED
    BY <1>2, <1>3, IntervalInduction, PlicAssumption
<1>5. cand \subseteq Sources
  BY DEF Candidates, TypeOK
<1>6. UpTo(NumSources, cand) = cand
  BY <1>5, PlicAssumption DEF Sources, UpTo
<1>7. /\ cand = {} => r = 0
      /\ cand # {} => /\ r \in cand
                      /\ \A t \in cand : IF top THEN Beats(stray, r, t) ELSE r <= t
  BY <1>1, <1>4, <1>6 DEF ScanInv
<1>8. ASSUME NEW s \in cand, \A t \in cand : IF top THEN Beats(stray, s, t) ELSE s <= t
      PROVE  s = r
  <2>1. r \in cand /\ IF top THEN Beats(stray, r, s) /\ Beats(stray, s, r) ELSE r <= s /\ s <= r
    BY <1>7, <1>8
  <2>2. r \in Nat /\ s \in Nat /\ PrioOf(stray, r) \in Nat /\ PrioOf(stray, s) \in Nat
    BY <1>5, <2>1, PlicAssumption
       DEF TypeOK, PrioOf, Strays, Priorities, PrioritySources, Sources
  <2> QED
    BY <2>1, <2>2 DEF Beats
<1> HIDE DEF r
<1>9. CASE cand = {}
  BY <1>7, <1>9 DEF get_source_irq, r
<1>10. CASE cand # {}
  <2>1. get_source_irq(ctx, pending, top, ignore, stray) =
          CHOOSE s \in cand : \A t \in cand : IF top THEN Beats(stray, s, t) ELSE s <= t
    BY <1>10 DEF get_source_irq
  <2> HIDE DEF cand
  <2> QED
    BY <1>7, <1>8, <1>10, <2>1 DEF r
<1> QED
  BY <1>9, <1>10

(* In every reachable state of the controller its scan, written as the loop *)
(* it is, finds the winner.                                                 *)
THEOREM ScanFindsTheWinnerHolds == Spec => []ScanFindsTheWinner
BY TypeCorrect, ScanIsGetSourceIrq, PTL

-----------------------------------------------------------------------------
LEMMA SysInitInv == SysInit => SysInv
<1>1. SysInit => SysTypeOK
  <2>1. 0 \in 0..MaxResets
    BY SystemAssumption
  <2> QED
    BY <2>1, InitType DEF SysInit, SysTypeOK
<1> QED
  BY <1>1 DEF SysInit, Init, SysInv, OneOwner, GatewayShut, CompletionIsHeard

(* What a claim returns and how it changes the pending bits. *)
LEMMA ClaimStep ==
  ASSUME TypeOK, NEW c \in Contexts, ClaimRead(c)
  PROVE  /\ claim_complete'[c] \in (pending \cap enabled[c]) \cup {0}
         /\ pending' = pending \ {claim_complete'[c]}
         /\ UNCHANGED <<cfgVars, src_irq_cleared>>
<1>1. PICK stray \in Strays :
        /\ claim_complete' = [claim_complete EXCEPT
                                ![c] = get_source_irq(c, pending, TRUE, FALSE, stray)]
        /\ pending' = pending \ {get_source_irq(c, pending, TRUE, FALSE, stray)}
  BY DEF ClaimRead
<1>2. claim_complete'[c] = get_source_irq(c, pending, TRUE, FALSE, stray)
  BY <1>1 DEF TypeOK
<1>3. get_source_irq(c, pending, TRUE, FALSE, stray)
        \in Candidates(c, pending, FALSE, stray) \cup {0}
  BY GetSourceIrqResult DEF TypeOK
<1>4. Candidates(c, pending, FALSE, stray) \subseteq pending \cap enabled[c]
  BY DEF Candidates
<1> QED
  BY <1>1, <1>2, <1>3, <1>4 DEF ClaimRead

(* A source event only adds pending bits, of sources whose gateway it finds *)
(* open and shuts.                                                          *)
LEMMA SourceStep ==
  ASSUME TypeOK, SourceEvent
  PROVE  \E S \in SUBSET Sources :
           /\ pending' = pending \cup S
           /\ \A s \in S : src_irq_cleared[s]
           /\ src_irq_cleared' = [s \in Sources |-> src_irq_cleared[s] /\ s \notin S]
           /\ UNCHANGED <<cfgVars, hartVars>>
<1>1. ASSUME NEW s \in Sources, SourceIrq(s), UNCHANGED hartVars
      PROVE  \E S \in SUBSET Sources :
               /\ pending' = pending \cup S
               /\ \A t \in S : src_irq_cleared[t]
               /\ src_irq_cleared' = [t \in Sources |-> src_irq_cleared[t] /\ t \notin S]
               /\ UNCHANGED <<cfgVars, hartVars>>
  <2>1. src_irq_cleared' = [t \in Sources |-> src_irq_cleared[t] /\ t \notin {s}]
    BY <1>1 DEF SourceIrq, TypeOK
  <2>2. /\ {s} \in SUBSET Sources
        /\ pending' = pending \cup {s}
        /\ \A t \in {s} : src_irq_cleared[t]
        /\ UNCHANGED <<cfgVars, hartVars>>
    BY <1>1 DEF SourceIrq
  <2> QED
    BY <2>1, <2>2
<1>2. ASSUME NEW levels \in [Sources -> BOOLEAN], LinesChange(levels),
             UNCHANGED hartVars
      PROVE  /\ {} \in SUBSET Sources
             /\ pending' = pending \cup {}
             /\ src_irq_cleared' = [t \in Sources |-> src_irq_cleared[t] /\ t \notin {}]
             /\ UNCHANGED <<cfgVars, hartVars>>
  BY <1>2 DEF LinesChange, TypeOK, regVars, cfgVars
<1>3. ASSUME SourceIrqScan, UNCHANGED hartVars
      PROVE  \E S \in SUBSET Sources :
               /\ pending' = pending \cup S
               /\ \A t \in S : src_irq_cleared[t]
               /\ src_irq_cleared' = [t \in Sources |-> src_irq_cleared[t] /\ t \notin S]
               /\ UNCHANGED <<cfgVars, hartVars>>
  <2> DEFINE fresh == {s \in Sources : src_irq_cleared[s] /\ interrupts_i[s]}
  <2>1. /\ fresh \in SUBSET Sources
        /\ pending' = pending \cup fresh
        /\ \A t \in fresh : src_irq_cleared[t]
        /\ src_irq_cleared' = [t \in Sources |-> src_irq_cleared[t] /\ t \notin fresh]
        /\ UNCHANGED <<cfgVars, hartVars>>
    BY <1>3 DEF SourceIrqScan
  <2> QED
    BY <2>1
<1> QED
  BY <1>1, <1>2, <1>3 DEF SourceEvent

LEMMA SysNextType == SysTypeOK /\ [SysNext]_sysVars => SysTypeOK'
<1> SUFFICES ASSUME SysTypeOK, [SysNext]_sysVars PROVE SysTypeOK'
  OBVIOUS
<1>0. TypeOK
  BY DEF SysTypeOK
<1>1. ASSUME NEW cfg \in Configs, Boot(cfg) PROVE SysTypeOK'
  BY <1>1, SystemAssumption DEF Boot, SysTypeOK, TypeOK, lineVars
<1>2. CASE SourceEvent
  BY <1>2, <1>0, NextType DEF SourceEvent, Next, SysTypeOK, hartVars
<1>3. ASSUME NEW c \in Contexts, HartClaim(c) PROVE SysTypeOK'
  <2>1. claim_complete'[c] \in Sources \cup {0}
    BY <1>3, <1>0, ClaimStep DEF HartClaim, TypeOK
  <2>2. TypeOK'
    BY <1>3, <1>0, NextType DEF HartClaim, Next
  <2> QED
    BY <1>3, <2>1, <2>2 DEF HartClaim, SysTypeOK
<1>4. ASSUME NEW c \in Contexts, NEW s \in Sources, HartComplete(c, s)
      PROVE  SysTypeOK'
  <2>1. TypeOK'
    BY <1>4, <1>0, NextType DEF HartComplete, Next
  <2> QED
    BY <1>4, <2>1 DEF HartComplete, SysTypeOK
<1>5. CASE SystemReset
  <2>1. TypeOK'
    BY <1>5, <1>0, NextType DEF SystemReset, Next
  <2>2. MaxResets \in Nat
    BY SystemAssumption
  <2>3. resets' \in 0..MaxResets
    BY <1>5, <2>2 DEF SystemReset, SysTypeOK
  <2> QED
    BY <1>5, <2>1, <2>3 DEF SystemReset, SysTypeOK
<1>6. CASE UNCHANGED sysVars
  BY <1>6, <1>0, NextType DEF sysVars, SysTypeOK
<1> QED
  BY <1>1, <1>2, <1>3, <1>4, <1>5, <1>6 DEF SysNext

LEMMA SysNextInv == SysInv /\ [SysNext]_sysVars => SysInv'
<1> SUFFICES ASSUME SysInv, [SysNext]_sysVars PROVE SysInv'
  OBVIOUS
<1>t. SysTypeOK' /\ TypeOK /\ SysTypeOK
  BY SysNextType DEF SysInv, SysTypeOK
<1> USE DEF SysInv, OneOwner, GatewayShut, CompletionIsHeard
<1>1. ASSUME NEW cfg \in Configs, Boot(cfg) PROVE SysInv'
  BY <1>1, <1>t DEF Boot, SysTypeOK
<1>2. CASE SourceEvent
  <2>1. PICK S \in SUBSET Sources :
          /\ pending' = pending \cup S
          /\ \A s \in S : src_irq_cleared[s]
          /\ src_irq_cleared' = [s \in Sources |-> src_irq_cleared[s] /\ s \notin S]
          /\ UNCHANGED <<cfgVars, hartVars>>
    BY <1>2, <1>t, SourceStep
  <2> QED
    BY <2>1, <1>t DEF cfgVars, hartVars, SysTypeOK, TypeOK
<1>3. ASSUME NEW c \in Contexts, HartClaim(c) PROVE SysInv'
  <2> DEFINE id == claim_complete'[c]
  <2>1. /\ id \in (pending \cap enabled[c]) \cup {0}
        /\ pending' = pending \ {id}
        /\ UNCHANGED <<cfgVars, src_irq_cleared>>
    BY <1>3, <1>t, ClaimStep DEF HartClaim
  <2>2. servicing' = [servicing EXCEPT ![c] = @ \cup ({id} \ {0})]
        /\ booted /\ booted' = booted
    BY <1>3 DEF HartClaim
  <2>3. 0 \notin Sources
    BY DEF Sources
  <2> HIDE DEF id
  <2> QED
    BY <2>1, <2>2, <2>3, <1>t DEF SysTypeOK, TypeOK, cfgVars
<1>4. ASSUME NEW c \in Contexts, NEW s \in Sources, HartComplete(c, s)
      PROVE  SysInv'
  <2>1. /\ s \in servicing[c]
        /\ servicing' = [servicing EXCEPT ![c] = @ \ {s}]
        /\ src_irq_cleared' = [src_irq_cleared EXCEPT ![s] = TRUE]
        /\ pending' = pending /\ enabled' = enabled /\ booted' = booted
    BY <1>4 DEF HartComplete, CompleteWrite, regVars
  <2> QED
    BY <2>1, <1>t DEF SysTypeOK, TypeOK
<1>5. CASE SystemReset
  BY <1>5, <1>t DEF SystemReset, Reset
<1>6. CASE UNCHANGED sysVars
  BY <1>6, <1>t DEF sysVars, vars
<1> QED
  BY <1>1, <1>2, <1>3, <1>4, <1>5, <1>6 DEF SysNext

(* The handshake invariant holds under every interleaving of sources, harts *)
(* and resets, for any number of them.                                      *)
THEOREM SysInvHolds == SysSafety => []SysInv
<1> QED
  BY SysInitInv, SysNextInv, PTL DEF SysSafety

(* No source is ever serviced by two harts at once. *)
THEOREM OneOwnerHolds == SysSafety => []OneOwner
<1>1. SysInv => OneOwner
  BY DEF SysInv
<1> QED
  BY <1>1, SysInvHolds, PTL

(* A source's gateway stays shut from its acceptance to its completion.     *)
THEOREM GatewayShutHolds == SysSafety => []GatewayShut
<1>1. SysInv => GatewayShut
  BY DEF SysInv
<1> QED
  BY <1>1, SysInvHolds, PTL

-----------------------------------------------------------------------------
(* A source is busy for the abstract gateway exactly when its concrete      *)
(* gateway is shut.                                                         *)
LEMMA BusyIsShut ==
  ASSUME SysInv
  PROVE  Gateway!Busy = {s \in Sources : ~src_irq_cleared[s]}
<1>1. /\ pending \subseteq Sources
      /\ servicing \in [Contexts -> SUBSET Sources]
      /\ \A s \in pending : ~src_irq_cleared[s]
      /\ \A c \in Contexts : \A s \in servicing[c] : ~src_irq_cleared[s]
  BY DEF SysInv, SysTypeOK, TypeOK, GatewayShut
<1> QED
  BY <1>1 DEF Gateway!Busy, Dead

LEMMA GatewayInit == SysInit => Gateway!GwInit
BY DEF SysInit, Init, Gateway!GwInit, Dead

(* Every step of the controller and its harts is a step of the gateway or   *)
(* leaves it alone; only a reset makes a source dead.                       *)
LEMMA GatewayStep ==
  ASSUME SysInv, [SysNext]_sysVars
  PROVE  /\ [Gateway!GwNext]_(Gateway!gwVars)
         /\ SystemReset \/ \A s \in Sources : Dead(s)' => Dead(s)
<1> DEFINE dead == {s \in Sources : Dead(s)}
<1>t. /\ TypeOK /\ TypeOK'
      /\ servicing \in [Contexts -> SUBSET Sources]
      /\ servicing' \in [Contexts -> SUBSET Sources]
      /\ SysInv'
  BY SysNextInv DEF SysInv, SysTypeOK
<1>g. GatewayShut /\ OneOwner /\ CompletionIsHeard
  BY DEF SysInv
<1>b. Gateway!Busy = {s \in Sources : ~src_irq_cleared[s]}
  BY BusyIsShut
<1>1. ASSUME NEW cfg \in Configs, Boot(cfg)
      PROVE  dead' = dead /\ UNCHANGED <<pending, servicing>>
  BY <1>1 DEF Boot, Dead
<1>2. CASE SourceEvent
  <2>1. PICK S \in SUBSET Sources :
          /\ pending' = pending \cup S
          /\ \A s \in S : src_irq_cleared[s]
          /\ src_irq_cleared' = [s \in Sources |-> src_irq_cleared[s] /\ s \notin S]
          /\ UNCHANGED <<cfgVars, hartVars>>
    BY <1>2, <1>t, SourceStep
  <2>2. \A s \in Sources : Dead(s)' <=> Dead(s)
    BY <2>1, <1>t DEF Dead, hartVars, TypeOK
  <2>3. dead' = dead
    BY <2>2
  <2>4. S \cap Gateway!Busy = {}
    BY <2>1, <1>b
  <2>5. Gateway!Accept(S)
    BY <2>1, <2>3, <2>4 DEF Gateway!Accept, hartVars
  <2> QED
    BY <2>2, <2>5 DEF Gateway!GwNext
<1>3. ASSUME NEW c \in Contexts, HartClaim(c)
      PROVE  /\ dead' = dead
             /\ \/ UNCHANGED <<pending, servicing>>
                \/ \E s \in Sources : Gateway!Claim(c, s)
  <2> DEFINE id == claim_complete'[c]
  <2>1. /\ id \in (pending \cap enabled[c]) \cup {0}
        /\ pending' = pending \ {id}
        /\ UNCHANGED src_irq_cleared
    BY <1>3, <1>t, ClaimStep DEF HartClaim
  <2>2. servicing' = [servicing EXCEPT ![c] = @ \cup ({id} \ {0})]
    BY <1>3 DEF HartClaim
  <2>3. 0 \notin Sources /\ pending \subseteq Sources
    BY <1>t DEF Sources, TypeOK
  <2> HIDE DEF id
  <2>4. CASE id = 0
    <3>1. UNCHANGED <<pending, servicing>>
      BY <2>1, <2>2, <2>3, <2>4, <1>t
    <3> QED
      BY <3>1, <2>1 DEF Dead
  <2>5. CASE id # 0
    <3>1. id \in pending /\ id \in Sources
      BY <2>1, <2>3, <2>5
    <3>2. servicing' = [servicing EXCEPT ![c] = @ \cup {id}]
      BY <2>2, <2>5
    <3>3. \A s \in Sources : Dead(s)' <=> Dead(s)
      BY <2>1, <3>1, <3>2, <1>t DEF Dead
    <3>4. dead' = dead
      BY <3>3
    <3>5. Gateway!Claim(c, id)
      BY <2>1, <3>1, <3>2, <3>4 DEF Gateway!Claim
    <3> QED
      BY <3>1, <3>4, <3>5
  <2> QED
    BY <2>4, <2>5
<1>4. ASSUME NEW c \in Contexts, NEW s \in Sources, HartComplete(c, s)
      PROVE  dead' = dead /\ Gateway!Complete(c, s)
  <2>1. /\ s \in servicing[c]
        /\ servicing' = [servicing EXCEPT ![c] = @ \ {s}]
        /\ src_irq_cleared' = [src_irq_cleared EXCEPT ![s] = TRUE]
        /\ pending' = pending
    BY <1>4 DEF HartComplete, CompleteWrite, regVars
  <2>2. \A r \in Sources : Dead(r)' <=> Dead(r)
    BY <2>1, <1>t DEF Dead, TypeOK
  <2>3. dead' = dead
    BY <2>2
  <2> QED
    BY <2>1, <2>3 DEF Gateway!Complete
<1>5. CASE SystemReset
  <2>1. /\ pending' = {}
        /\ servicing' = [c \in Contexts |-> {}]
        /\ src_irq_cleared' = src_irq_cleared
    BY <1>5 DEF SystemReset, Reset
  <2>2. dead' = {s \in Sources : ~src_irq_cleared[s]}
    BY <2>1 DEF Dead
  <2> QED
    BY <1>5, <2>1, <2>2, <1>b DEF Gateway!GwNext, Gateway!Restart
<1>6. CASE UNCHANGED sysVars
  BY <1>6 DEF sysVars, vars, Dead, Gateway!gwVars
<1>7. ASSUME dead' = dead PROVE \A s \in Sources : Dead(s)' => Dead(s)
  <2>1. \A s \in Sources : (s \in dead' <=> Dead(s)') /\ (s \in dead <=> Dead(s))
    OBVIOUS
  <2> HIDE DEF dead
  <2> QED
    BY <1>7, <2>1
<1>8. ASSUME dead' = dead, UNCHANGED <<pending, servicing>>
      PROVE  UNCHANGED Gateway!gwVars
  BY <1>8 DEF Gateway!gwVars
<1> HIDE DEF dead
<1> QED
  BY <1>1, <1>2, <1>3, <1>4, <1>5, <1>6, <1>7, <1>8 DEF SysNext, Gateway!GwNext

(* The controller among disciplined harts implements the abstract gateway:  *)
(* every accepted interrupt goes to one hart and its source stays shut      *)
(* until that hart completes it.                                            *)
THEOREM ImplementsGatewayHolds == SysSafety => ImplementsGateway
<1>1. SysInv /\ [SysNext]_sysVars => [Gateway!GwNext]_(Gateway!gwVars)
  BY GatewayStep
<1> QED
  BY <1>1, GatewayInit, SysInvHolds, PTL
  DEF SysSafety, ImplementsGateway, Gateway!GwSpec

(* Only a reset ever leaves a source dead. *)
THEOREM DeadOnlyByResetHolds == SysSafety => DeadOnlyByReset
<1>1. SysInv /\ [SysNext]_sysVars =>
        [\A s \in Sources : ~Dead(s) /\ Dead(s)' => SystemReset]_sysVars
  BY GatewayStep
<1> QED
  BY <1>1, SysInvHolds, PTL DEF SysSafety, DeadOnlyByReset

=============================================================================
