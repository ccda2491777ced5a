-------------------------- MODULE MinresDmaProofs --------------------------
(***************************************************************************)
(* Theorems of MinresDma for any address space, programs and interrupt     *)
(* masks.                                                                  *)
(***************************************************************************)
EXTENDS MinresDma, NatLemmas, TLAPS

LEMMA InitType == Init => TypeOK
<1>1. NoStart \in Starts /\ NoStride \in Strides
  BY DmaAssumption DEF NoStart, NoStride
<1>2. IdleLoc \in Locals
  BY DmaAssumption DEF IdleLoc, Addresses, Locals
<1>3. JobOf(NoStart, NoStride) \in Jobs
  BY <1>1 DEF Jobs
<1>4. [c \in Channels |-> <<>>] \in [Channels -> Seq(Pairs)]
  OBVIOUS
<1> QED
  BY <1>1, <1>2, <1>3, <1>4 DEF Init, TypeOK

(* The registers and the history under software, and the end of a transfer. *)
LEMMA SoftwareType ==
  ASSUME TypeOK, Software
  PROVE  TypeOK'
<1> USE DmaAssumption
<1>1. ASSUME NEW cs \in SUBSET Channels, ControlWrite(cs)
      PROVE  TypeOK'
  <2>1. \A c \in Channels : JobOf(start[c], inc[0]) \in Jobs
    BY DEF TypeOK, Jobs, Channels
  <2>2. asked' \in [Channels -> Jobs]
    BY <1>1, <2>1 DEF ControlWrite, TypeOK
  <2>3. moved' \in [Channels -> Seq(Pairs)]
    BY <1>1 DEF ControlWrite, TypeOK
  <2> QED
    BY <1>1, <2>2, <2>3 DEF ControlWrite, TypeOK, threadVars
<1>2. ASSUME NEW cs \in SUBSET Channels, StatusWrite(cs)
      PROVE  TypeOK'
  BY <1>2 DEF StatusWrite, TypeOK, threadVars, history
<1>3. ASSUME NEW c \in Channels, NEW st \in Starts, StartWrite(c, st)
      PROVE  TypeOK'
  BY <1>3 DEF StartWrite, TypeOK, threadVars, history
<1>4. ASSUME NEW c \in Channels, NEW st_inc \in Strides, StrideWrite(c, st_inc)
      PROVE  TypeOK'
  BY <1>4 DEF StrideWrite, TypeOK, threadVars, history
<1>5. ASSUME NEW bits \in IeWrites, IeWrite(bits)
      PROVE  TypeOK'
  BY <1>5 DEF IeWrite, TypeOK, threadVars, history
<1>6. CASE IpWrite
  BY <1>6 DEF IpWrite, TypeOK, regVars, threadVars, history, Level
<1> QED
  BY <1>1, <1>2, <1>3, <1>4, <1>5, <1>6 DEF Software

LEMMA FinishType ==
  ASSUME TypeOK, NEW c \in Channels, NEW pend \in SUBSET Bits, NEW irq \in BOOLEAN,
         Finish(c, pend, irq)
  PROVE  /\ pc' = [pc EXCEPT ![c] = "wait"]
         /\ busy' \subseteq Channels /\ ip' \subseteq Bits /\ irq_o' \in BOOLEAN
BY DEF Finish, TypeOK, Level, Bits

LEMMA ThreadType ==
  ASSUME TypeOK, NEW c \in Channels, Thread(c)
  PROVE  TypeOK'
<1> USE DmaAssumption
<1>1. CASE Begin(c)
  <2>1. loc'[c] = [src |-> start[c].src, dst |-> start[c].dst,
                   count |-> start[c].count, seg |-> 0]
    BY <1>1 DEF Begin, TypeOK
  <2>2. loc' \in [Channels -> Locals]
    BY <1>1 DEF Begin, TypeOK, Locals
  <2>3. moved' \in [Channels -> Seq(Pairs)]
    BY <1>1 DEF Begin, TypeOK
  <2>4. CASE start[c].count > 0
    <3>1. /\ pc' = [pc EXCEPT ![c] = "read"]
          /\ UNCHANGED <<busy, ip, irq_o, ie, start, inc, notified, asked>>
      BY <1>1, <2>4 DEF Begin
    <3>2. loc'[c].seg < loc'[c].count
      BY <2>1, <2>4
    <3>3. \A d \in Channels \ {c} : loc'[d] = loc[d] /\ pc'[d] = pc[d]
      BY <1>1, <3>1 DEF Begin, TypeOK
    <3> QED
      BY <2>2, <2>3, <3>1, <3>2, <3>3 DEF TypeOK
  <2>5. CASE start[c].count = 0
    <3>1. Finish(c, ip, irq_o)
      BY <1>1, <2>5 DEF Begin
    <3>2. ip \in SUBSET Bits /\ irq_o \in BOOLEAN
      BY DEF TypeOK
    <3>3. /\ pc' = [pc EXCEPT ![c] = "wait"]
          /\ busy' \subseteq Channels /\ ip' \subseteq Bits /\ irq_o' \in BOOLEAN
      BY <3>1, <3>2, FinishType
    <3> QED
      BY <1>1, <2>1, <2>2, <2>3, <3>3 DEF Begin, TypeOK
  <2> QED
    BY <1>1, <2>4, <2>5 DEF Begin
<1>2. CASE ReadReturns(c)
  BY <1>2 DEF ReadReturns, TypeOK, regVars, history
<1>3. CASE WriteReturns(c)
  <2> DEFINE pend == IF SegDone(0) \in ie THEN ip \cup {SegDone(0)} ELSE ip
             irq  == IF SegDone(0) \in ie THEN Level(pend, ie) ELSE irq_o
             next == [src   |-> (loc[c].src + inc[0].src) % AddrSpace,
                      dst   |-> (loc[c].dst + inc[0].dst) % AddrSpace,
                      count |-> loc[c].count,
                      seg   |-> loc[c].seg + 1]
  <2>1. pend \in SUBSET Bits /\ irq \in BOOLEAN
    BY DEF TypeOK, Level, Bits, Channels
  <2>2. next \in Locals
    <3>1. /\ loc[c] \in Locals
          /\ inc[0].src \in Addresses /\ inc[0].dst \in Addresses
      BY DEF TypeOK, Channels, Locals
    <3>2. \A x, y \in Addresses : (x + y) % AddrSpace \in Addresses
      BY DEF Addresses
    <3> QED
      BY <3>1, <3>2 DEF Locals
  <2>3. loc' = [loc EXCEPT ![c] = next]
    BY <1>3 DEF WriteReturns
  <2>4. loc' \in [Channels -> Locals]
    <3> HIDE DEF next
    <3> QED
      BY <2>2, <2>3 DEF TypeOK
  <2>5. moved' \in [Channels -> Seq(Pairs)]
    <3>1. [from |-> loc[c].src, to |-> loc[c].dst] \in Pairs
      BY DEF TypeOK, Locals, Pairs
    <3> QED
      BY <1>3, <3>1 DEF WriteReturns, TypeOK
  <2>6. CASE next.seg < next.count
    <3>1. /\ pc' = [pc EXCEPT ![c] = "read"]
          /\ ip' = pend /\ irq_o' = irq
          /\ UNCHANGED <<busy, ie, start, inc, notified, asked>>
      <4> HIDE DEF next
      <4>1. next.seg \in Nat /\ next.count \in Nat
        BY <2>2 DEF Locals
      <4> QED
        BY <1>3, <2>6, <4>1 DEF WriteReturns, next, Finish
    <3>2. loc'[c] = next
      BY <2>3 DEF TypeOK
    <3> HIDE DEF next, pend, irq
    <3> QED
      BY <2>1, <2>4, <2>5, <2>6, <3>1, <3>2, <2>3 DEF TypeOK
  <2>7. CASE ~(next.seg < next.count)
    <3>1. Finish(c, pend, irq) /\ UNCHANGED <<ie, start, inc, notified, asked>>
      BY <1>3, <2>7 DEF WriteReturns
    <3> HIDE DEF pend, irq, next
    <3>2. /\ pc' = [pc EXCEPT ![c] = "wait"]
          /\ busy' \subseteq Channels /\ ip' \subseteq Bits /\ irq_o' \in BOOLEAN
      BY <2>1, <3>1, FinishType
    <3> QED
      BY <2>3, <2>4, <2>5, <3>1, <3>2 DEF TypeOK
  <2> QED
    BY <2>6, <2>7
<1> QED
  BY <1>1, <1>2, <1>3 DEF Thread

LEMMA NextType == TypeOK /\ [Next]_vars => TypeOK'
<1> SUFFICES ASSUME TypeOK, [Next]_vars PROVE TypeOK'
  OBVIOUS
<1>1. CASE Reset
  <2>1. NoStart \in Starts /\ NoStride \in Strides
    BY DmaAssumption DEF NoStart, NoStride
  <2> QED
    BY <1>1, <2>1 DEF Reset, TypeOK, threadVars, history
<1>2. CASE EventFires
  BY <1>2 DEF EventFires, TypeOK, regVars, history
<1>3. CASE UNCHANGED vars
  BY <1>3 DEF TypeOK, vars
<1> QED
  BY <1>1, <1>2, <1>3, SoftwareType, ThreadType DEF Next

(* Registers, threads and history keep their ranges, and no thread runs past *)
(* the segments it was given.                                                *)
THEOREM TypeCorrect == Safety => []TypeOK
<1> QED
  BY InitType, NextType, PTL DEF Safety

-----------------------------------------------------------------------------
(* What a step of a thread does to the interrupt: it follows ip and ie if   *)
(* it did before.                                                           *)
LEMMA FinishIrq ==
  ASSUME NEW c, NEW pend, NEW irq, irq = Level(pend, ie), Finish(c, pend, irq)
  PROVE  irq_o' = Level(ip', ie)
BY DEF Finish, Level

LEMMA ThreadIrq ==
  ASSUME NEW c \in Channels, Thread(c), ~IrqStale
  PROVE  ie' = ie /\ ~IrqStale'
<1>1. CASE Begin(c)
  BY <1>1, FinishIrq DEF Begin, IrqStale
<1>2. CASE ReadReturns(c)
  BY <1>2 DEF ReadReturns, regVars, IrqStale
<1>3. CASE WriteReturns(c)
  <2> DEFINE pend == IF SegDone(0) \in ie THEN ip \cup {SegDone(0)} ELSE ip
             irq  == IF SegDone(0) \in ie THEN Level(pend, ie) ELSE irq_o
  <2>1. irq = Level(pend, ie)
    BY DEF IrqStale
  <2>2. ie' = ie /\ ((ip' = pend /\ irq_o' = irq) \/ Finish(c, pend, irq))
    BY <1>3 DEF WriteReturns
  <2> HIDE DEF pend, irq
  <2> QED
    BY <2>1, <2>2, FinishIrq DEF IrqStale
<1> QED
  BY <1>1, <1>2, <1>3 DEF Thread

(* The interrupt line differs from what is pending and enabled only after a *)
(* write of ie.                                                             *)
THEOREM IrqStaleOnlyByIeHolds == Safety => IrqStaleOnlyByIe
<1>1. [Next]_vars => [~IrqStale /\ IrqStale' => ie' # ie]_vars
  <2> SUFFICES ASSUME [Next]_vars, ~IrqStale, IrqStale', ie' = ie
               PROVE  FALSE
    OBVIOUS
  <2>1. CASE Software
    BY <2>1 DEF Software, ControlWrite, StatusWrite, StartWrite, StrideWrite,
                IeWrite, IpWrite, regVars, IrqStale
  <2>2. CASE Reset
    BY <2>2 DEF Reset, IrqStale, Level
  <2>3. CASE EventFires
    BY <2>3 DEF EventFires, regVars, IrqStale
  <2>4. CASE UNCHANGED vars
    BY <2>4 DEF vars, IrqStale
  <2> QED
    BY <2>1, <2>2, <2>3, <2>4, ThreadIrq DEF Next
<1> QED
  BY <1>1, PTL DEF Safety, IrqStaleOnlyByIe

-----------------------------------------------------------------------------
(* The ways a thread's step may change its own progress and its flag. *)
LEMMA ThreadProgress ==
  ASSUME TypeOK, NEW c \in Channels, Thread(c)
  PROVE  /\ notified' = notified /\ start' = start /\ inc' = inc /\ asked' = asked
         /\ \A d \in Channels \ {c} : /\ pc'[d] = pc[d] /\ loc'[d] = loc[d]
                                      /\ moved'[d] = moved[d]
                                      /\ d \in busy' <=> d \in busy
         /\ pc[c] # "wait"
         /\ \/ pc'[c] # "wait" /\ busy' = busy
            \/ pc'[c] = "wait" /\ busy' = busy \ {c}
<1>1. CASE Begin(c)
  BY <1>1 DEF Begin, Finish, TypeOK
<1>2. CASE ReadReturns(c)
  BY <1>2 DEF ReadReturns, regVars, history, TypeOK
<1>3. CASE WriteReturns(c)
  BY <1>3 DEF WriteReturns, Finish, TypeOK
<1> QED
  BY <1>1, <1>2, <1>3 DEF Thread

(* A channel works with its busy flag down only after a reset, a write of   *)
(* status, or a second trigger in the delta cycle in which it came to rest. *)
THEOREM UnflaggedOnlyByRaceHolds == Safety => UnflaggedOnlyByRace
<1> DEFINE Cause(c) == \/ Reset
                       \/ \E cs \in SUBSET Channels : StatusWrite(cs)
                       \/ c \in notified /\ pc[c] # "wait" /\ pc'[c] = "wait"
<1>1. ASSUME TypeOK, [Next]_vars, NEW c \in Channels, ~Unflagged(c), Unflagged(c)'
      PROVE  Cause(c)
  <2>1. CASE Software
    <3>1. ASSUME NEW cs \in SUBSET Channels, ControlWrite(cs)
          PROVE  FALSE
      BY <1>1, <3>1 DEF ControlWrite, Unflagged, Working, threadVars
    <3>2. ASSUME UNCHANGED <<busy, notified, pc>>
          PROVE  FALSE
      BY <1>1, <3>2 DEF Unflagged, Working
    <3> QED
      BY <2>1, <3>1, <3>2 DEF Software, StartWrite, StrideWrite, IeWrite, IpWrite,
                              regVars, threadVars
  <2>2. CASE EventFires
    BY <1>1, <2>2 DEF EventFires, regVars, Unflagged, Working, TypeOK
  <2>3. ASSUME NEW d \in Channels, Thread(d)
        PROVE  Cause(c)
    <3>1. CASE d # c
      BY <1>1, <2>3, <3>1, ThreadProgress DEF Unflagged, Working
    <3>2. CASE d = c
      BY <1>1, <2>3, <3>2, ThreadProgress DEF Unflagged, Working
    <3> QED
      BY <3>1, <3>2
  <2>4. CASE UNCHANGED vars
    BY <1>1, <2>4 DEF vars, Unflagged, Working
  <2> QED
    BY <1>1, <2>1, <2>2, <2>3, <2>4 DEF Next
<1>2. TypeOK /\ [Next]_vars =>
        [\A c \in Channels : ~Unflagged(c) /\ Unflagged(c)' =>
           \/ Reset
           \/ \E cs \in SUBSET Channels : StatusWrite(cs)
           \/ c \in notified /\ pc[c] # "wait" /\ pc'[c] = "wait"]_vars
  BY <1>1
<1> QED
  BY <1>2, TypeCorrect, PTL DEF Safety, UnflaggedOnlyByRace

-----------------------------------------------------------------------------
LEMMA BusyStep ==
  ASSUME TypeOK, BusyIsWorking, [Next]_vars
  PROVE  BusyIsWorking'
<1> SUFFICES ASSUME Polite, NEW c \in Channels
             PROVE  /\ c \in busy' <=> Working(c)'
                    /\ c \in notified' => pc'[c] = "wait"
  BY DEF BusyIsWorking
<1>1. /\ c \in busy <=> Working(c)
      /\ c \in notified => pc[c] = "wait"
  BY DEF BusyIsWorking
<1>2. CASE Software
  <2>1. ASSUME NEW cs \in SUBSET Channels, ControlWrite(cs)
        PROVE  /\ c \in busy' <=> Working(c)'
               /\ c \in notified' => pc'[c] = "wait"
    BY <1>1, <2>1 DEF ControlWrite, Working, threadVars
  <2>2. CASE UNCHANGED <<busy, notified, pc>>
    BY <1>1, <2>2 DEF Working
  <2> QED
    BY <1>2, <2>1, <2>2 DEF Software, StatusWrite, StartWrite, StrideWrite, IeWrite,
                            IpWrite, regVars, threadVars
<1>3. CASE Reset
  BY <1>3 DEF Reset
<1>4. CASE EventFires
  BY <1>1, <1>4 DEF EventFires, regVars, Working, TypeOK
<1>5. ASSUME NEW d \in Channels, Thread(d)
      PROVE  /\ c \in busy' <=> Working(c)'
             /\ c \in notified' => pc'[c] = "wait"
  <2>1. CASE d = c
    BY <1>1, <1>5, <2>1, ThreadProgress DEF Working
  <2>2. CASE d # c
    BY <1>1, <1>5, <2>2, ThreadProgress DEF Working
  <2> QED
    BY <2>1, <2>2
<1>6. CASE UNCHANGED vars
  BY <1>1, <1>6 DEF vars, Working
<1> QED
  BY <1>2, <1>3, <1>4, <1>5, <1>6 DEF Next

(* To a driver that leaves busy channels alone the busy flag tells the      *)
(* truth, and no trigger is lost.                                           *)
THEOREM BusyIsWorkingHolds == Safety => []BusyIsWorking
<1>1. Init => BusyIsWorking
  BY DEF Init, BusyIsWorking, Working
<1> QED
  BY <1>1, BusyStep, TypeCorrect, PTL DEF Safety

-----------------------------------------------------------------------------
(* JobsTracked, for one channel. *)
Tracked(c) ==
  /\ asked[c].src_stride = inc[0].src /\ asked[c].dst_stride = inc[0].dst
  /\ (c \in notified \/ pc[c] = "ready") =>
       asked[c] = JobOf(start[c], inc[0]) /\ moved[c] = <<>>
  /\ pc[c] \in {"read", "write"} =>
       /\ asked[c].count = loc[c].count
       /\ Len(moved[c]) = loc[c].seg
       /\ loc[c].src = (asked[c].src + loc[c].seg * asked[c].src_stride) % AddrSpace
       /\ loc[c].dst = (asked[c].dst + loc[c].seg * asked[c].dst_stride) % AddrSpace

LEMMA TrackedMeans == JobsTracked <=> (Polite => \A c \in busy : Tracked(c))
BY DEF JobsTracked, Tracked

(* Jobs and strides are made of addresses. *)
LEMMA JobType ==
  ASSUME NEW j \in Jobs
  PROVE  /\ j.src \in Addresses /\ j.dst \in Addresses /\ j.count \in Nat
         /\ j.src_stride \in Addresses /\ j.dst_stride \in Addresses
<1>1. PICK st \in Starts, st_inc \in Strides : j = JobOf(st, st_inc)
  BY DEF Jobs
<1> QED
  BY <1>1, DmaAssumption DEF JobOf

(* One more stride, in the arithmetic of addresses. *)
LEMMA NextAddress ==
  ASSUME NEW a \in Addresses, NEW s \in Addresses, NEW k \in Nat
  PROVE  (((a + k * s) % AddrSpace) + s) % AddrSpace = (a + (k + 1) * s) % AddrSpace
<1>1. AddrSpace \in Nat \ {0} /\ a \in Int /\ s \in Int
  BY DmaAssumption DEF Addresses
<1> DEFINE x == a + k * s
<1>2. k * s \in Int /\ (k + 1) * s = k * s + s
  BY <1>1
<1>3. x \in Int /\ a + (k + 1) * s = x + s
  BY <1>1, <1>2
<1>4. ((x % AddrSpace) + s) % AddrSpace = (x + s) % AddrSpace
  <2> HIDE DEF x
  <2> QED
    BY <1>1, <1>3, ModAdd
<1> QED
  BY <1>3, <1>4

(* The first segment starts at the programmed addresses. *)
LEMMA FirstAddress ==
  ASSUME NEW a \in Addresses, NEW s \in Addresses
  PROVE  (a + 0 * s) % AddrSpace = a
BY DmaAssumption DEF Addresses

(* A step of its thread keeps track of a busy channel's job. *)
LEMMA ThreadTracked ==
  ASSUME TypeOK, Polite, BusyIsWorking, NEW c \in Channels, c \in busy, Tracked(c),
         Thread(c), c \in busy'
  PROVE  Tracked(c)'
<1>1. pc'[c] # "wait" /\ c \notin notified'
  BY ThreadProgress DEF BusyIsWorking
<1>2. asked[c] \in Jobs
  BY DEF TypeOK
<1>3. asked' = asked /\ inc' = inc /\ start' = start
  BY ThreadProgress
<1>4. CASE Begin(c)
  <2>1. /\ loc'[c] = [src |-> start[c].src, dst |-> start[c].dst,
                      count |-> start[c].count, seg |-> 0]
        /\ pc'[c] = "read" /\ moved'[c] = <<>>
    BY <1>1, <1>4 DEF Begin, Finish, TypeOK
  <2>2. asked[c] = JobOf(start[c], inc[0])
    BY <1>4 DEF Begin, Tracked
  <2>3. /\ asked[c].src = start[c].src /\ asked[c].dst = start[c].dst
        /\ asked[c].count = start[c].count
        /\ asked[c].src_stride = inc[0].src /\ asked[c].dst_stride = inc[0].dst
    BY <2>2 DEF JobOf
  <2>4. /\ (asked[c].src + 0 * asked[c].src_stride) % AddrSpace = asked[c].src
        /\ (asked[c].dst + 0 * asked[c].dst_stride) % AddrSpace = asked[c].dst
    BY <1>2, JobType, FirstAddress
  <2> QED
    BY <1>1, <1>3, <2>1, <2>3, <2>4 DEF Tracked
<1>5. CASE ReadReturns(c)
  BY <1>1, <1>3, <1>5 DEF ReadReturns, Tracked, TypeOK, regVars, history
<1>6. CASE WriteReturns(c)
  <2>1. /\ loc'[c].src = (loc[c].src + inc[0].src) % AddrSpace
        /\ loc'[c].dst = (loc[c].dst + inc[0].dst) % AddrSpace
        /\ loc'[c].count = loc[c].count
        /\ loc'[c].seg = loc[c].seg + 1
        /\ moved'[c] = Append(moved[c], [from |-> loc[c].src, to |-> loc[c].dst])
    BY <1>6 DEF WriteReturns, TypeOK
  <2>2. pc'[c] = "read"
    BY <1>1, <1>6 DEF WriteReturns, Finish, TypeOK
  <2>3. /\ asked[c].count = loc[c].count
        /\ Len(moved[c]) = loc[c].seg
        /\ loc[c].src = (asked[c].src + loc[c].seg * asked[c].src_stride) % AddrSpace
        /\ loc[c].dst = (asked[c].dst + loc[c].seg * asked[c].dst_stride) % AddrSpace
        /\ asked[c].src_stride = inc[0].src /\ asked[c].dst_stride = inc[0].dst
    BY <1>6 DEF WriteReturns, Tracked
  <2>4. loc[c].seg \in Nat /\ moved[c] \in Seq(Pairs)
    BY DEF TypeOK, Locals
  <2>5. Len(moved'[c]) = loc'[c].seg
    BY <2>1, <2>3, <2>4
  <2>6. /\ loc'[c].src = (asked[c].src + loc'[c].seg * asked[c].src_stride) % AddrSpace
        /\ loc'[c].dst = (asked[c].dst + loc'[c].seg * asked[c].dst_stride) % AddrSpace
    <3>1. /\ asked[c].src \in Addresses /\ asked[c].dst \in Addresses
          /\ asked[c].src_stride \in Addresses /\ asked[c].dst_stride \in Addresses
      BY <1>2, JobType
    <3>2. (((asked[c].src + loc[c].seg * asked[c].src_stride) % AddrSpace)
              + asked[c].src_stride) % AddrSpace
            = (asked[c].src + (loc[c].seg + 1) * asked[c].src_stride) % AddrSpace
      BY <2>4, <3>1, NextAddress
    <3>3. (((asked[c].dst + loc[c].seg * asked[c].dst_stride) % AddrSpace)
              + asked[c].dst_stride) % AddrSpace
            = (asked[c].dst + (loc[c].seg + 1) * asked[c].dst_stride) % AddrSpace
      BY <2>4, <3>1, NextAddress
    <3> QED
      BY <2>1, <2>3, <3>2, <3>3
  <2> QED
    BY <1>1, <1>3, <2>1, <2>2, <2>3, <2>5, <2>6 DEF Tracked
<1> QED
  BY <1>4, <1>5, <1>6 DEF Thread

LEMMA JobsStep ==
  ASSUME TypeOK, BusyIsWorking, JobsTracked, [Next]_vars
  PROVE  JobsTracked'
<1> SUFFICES ASSUME Polite, NEW c \in Channels, c \in busy'
             PROVE  Tracked(c)'
  <2>1. busy' \subseteq Channels
    BY NextType DEF TypeOK
  <2> QED
    BY <2>1 DEF JobsTracked, Tracked
<1>1. c \in busy => Tracked(c)
  BY TrackedMeans
<1>2. /\ c \in busy <=> Working(c)
      /\ c \in notified => pc[c] = "wait"
  BY DEF BusyIsWorking
<1>3. CASE Software
  <2>1. ASSUME NEW cs \in SUBSET Channels, ControlWrite(cs)
        PROVE  Tracked(c)'
    <3>1. CASE c \in cs
      <4>1. c \notin busy /\ pc[c] = "wait"
        BY <1>2, <2>1, <3>1 DEF ControlWrite, Working
      <4>2. /\ asked'[c] = JobOf(start[c], inc[0]) /\ moved'[c] = <<>>
            /\ start' = start /\ inc' = inc /\ pc' = pc
        BY <2>1, <3>1, <4>1 DEF ControlWrite, threadVars
      <4> QED
        BY <4>1, <4>2 DEF Tracked, JobOf
    <3>2. CASE c \notin cs
      <4>1. /\ c \in busy
            /\ c \in notified' => c \in notified
            /\ asked'[c] = asked[c] /\ moved'[c] = moved[c]
            /\ start' = start /\ inc' = inc /\ pc' = pc /\ loc' = loc
        BY <2>1, <3>2 DEF ControlWrite, threadVars
      <4> QED
        BY <1>1, <4>1 DEF Tracked
    <3> QED
      BY <3>1, <3>2
  <2>2. ASSUME NEW d \in Channels, NEW st \in Starts, StartWrite(d, st)
        PROVE  Tracked(c)'
    <3>1. c \in busy /\ d # c
      BY <2>2 DEF StartWrite
    <3>2. start'[c] = start[c]
      BY <2>2, <3>1 DEF StartWrite, TypeOK
    <3> QED
      BY <1>1, <2>2, <3>1, <3>2 DEF StartWrite, Tracked, threadVars, history
  <2>3. ASSUME NEW d \in Channels, NEW st_inc \in Strides, StrideWrite(d, st_inc)
        PROVE  FALSE
    BY <2>3 DEF StrideWrite
  <2>4. CASE UNCHANGED <<busy, start, inc, notified, pc, loc, asked, moved>>
    BY <1>1, <2>4 DEF Tracked
  <2> QED
    BY <1>3, <2>1, <2>2, <2>3, <2>4
       DEF Software, StatusWrite, IeWrite, IpWrite, regVars, threadVars, history
<1>4. CASE Reset
  BY <1>4 DEF Reset
<1>5. CASE EventFires
  <2>1. /\ c \in busy
        /\ c \notin notified'
        /\ pc'[c] = "ready" => c \in notified \/ pc[c] = "ready"
        /\ pc'[c] \in {"read", "write"} => pc'[c] = pc[c]
    BY <1>5 DEF EventFires, regVars, TypeOK
  <2> QED
    BY <1>1, <1>5, <2>1 DEF EventFires, Tracked, regVars, history
<1>6. ASSUME NEW d \in Channels, Thread(d)
      PROVE  Tracked(c)'
  <2>1. c \in busy
    BY <1>6, ThreadProgress
  <2>2. CASE d = c
    BY <1>1, <1>6, <2>1, <2>2, ThreadTracked
  <2>3. CASE d # c
    BY <1>1, <1>6, <2>1, <2>3, ThreadProgress DEF Tracked
  <2> QED
    BY <2>2, <2>3
<1>7. CASE UNCHANGED vars
  BY <1>1, <1>7 DEF vars, Tracked
<1> QED
  BY <1>3, <1>4, <1>5, <1>6, <1>7 DEF Next

(* A busy channel has done of its job what its thread has counted, at the    *)
(* addresses the strides lead to.                                            *)
THEOREM JobsTrackedHolds == Safety => []JobsTracked
<1>1. Init => JobsTracked
  BY DEF Init, JobsTracked
<1> QED
  BY <1>1, JobsStep, TypeCorrect, BusyIsWorkingHolds, PTL DEF Safety

-----------------------------------------------------------------------------
(* What a step may do to a channel as its driver sees it. *)
Asked(c) == /\ c \notin busy /\ c \in busy'
            /\ asked'[c] \in Jobs /\ moved'[c] = <<>>

Moves(c) ==
  /\ c \in busy /\ Len(moved[c]) < asked[c].count
  /\ moved'[c] = Append(moved[c],
       [from |-> (asked[c].src + Len(moved[c]) * asked[c].src_stride) % AddrSpace,
        to   |-> (asked[c].dst + Len(moved[c]) * asked[c].dst_stride) % AddrSpace])
  /\ asked'[c] = asked[c]
  /\ c \in busy' <=> Len(moved[c]) + 1 # asked[c].count

Skips(c) == /\ c \in busy /\ asked[c].count = 0
            /\ c \notin busy' /\ moved'[c] = moved[c]

Rests(c) == /\ c \in busy' <=> c \in busy
            /\ c \in busy => asked'[c] = asked[c]
            /\ moved'[c] = moved[c]

(* The steps of its own thread: the first one changes nothing the channel's *)
(* driver sees unless there is nothing to move, and a write that returns    *)
(* moves the next segment.                                                  *)
LEMMA ThreadMoves ==
  ASSUME TypeOK, Polite, BusyIsWorking, JobsTracked, NEW c \in Channels, Thread(c)
  PROVE  Rests(c) \/ Moves(c) \/ Skips(c)
<1>1. c \in busy /\ asked'[c] = asked[c]
  BY ThreadProgress DEF BusyIsWorking, Working
<1>2. Tracked(c)
  BY <1>1, TrackedMeans
<1>3. CASE Begin(c)
  <2>1. moved[c] = <<>> /\ asked[c].count = start[c].count
    BY <1>2, <1>3 DEF Begin, Tracked, JobOf
  <2>2. moved'[c] = <<>>
    BY <1>3 DEF Begin, TypeOK
  <2>3. CASE start[c].count > 0
    <3>1. busy' = busy
      BY <1>3, <2>3 DEF Begin
    <3> QED
      BY <1>1, <2>1, <2>2, <3>1 DEF Rests
  <2>4. CASE start[c].count = 0
    <3>1. c \notin busy'
      BY <1>3, <2>4 DEF Begin, Finish
    <3> QED
      BY <1>1, <2>1, <2>2, <2>4, <3>1 DEF Skips
  <2> QED
    BY <1>3, <2>3, <2>4 DEF Begin
<1>4. CASE ReadReturns(c)
  BY <1>4 DEF ReadReturns, Rests, regVars, history
<1>5. CASE WriteReturns(c)
  <2>1. pc[c] = "write" /\ loc[c].seg < loc[c].count
    BY <1>5 DEF WriteReturns, TypeOK
  <2>2. /\ asked[c].count = loc[c].count
        /\ Len(moved[c]) = loc[c].seg
        /\ loc[c].src = (asked[c].src + Len(moved[c]) * asked[c].src_stride) % AddrSpace
        /\ loc[c].dst = (asked[c].dst + Len(moved[c]) * asked[c].dst_stride) % AddrSpace
    BY <1>2, <2>1 DEF Tracked
  <2>3. moved'[c] = Append(moved[c], [from |-> loc[c].src, to |-> loc[c].dst])
    BY <1>5 DEF WriteReturns, TypeOK
  <2>4. c \in busy' <=> loc[c].seg + 1 # loc[c].count
    <3>1. loc[c].seg \in Nat /\ loc[c].count \in Nat
      BY DEF TypeOK, Locals
    <3>2. \/ loc[c].seg + 1 < loc[c].count /\ busy' = busy
          \/ loc[c].seg + 1 = loc[c].count /\ busy' = busy \ {c}
      BY <1>5 DEF WriteReturns, Finish
    <3> QED
      BY <1>1, <3>1, <3>2
  <2> QED
    BY <1>1, <2>1, <2>2, <2>3, <2>4 DEF Moves
<1> QED
  BY <1>3, <1>4, <1>5 DEF Thread

LEMMA ChannelStep ==
  ASSUME TypeOK, Polite, BusyIsWorking, JobsTracked, [Next]_vars, NEW c \in Channels
  PROVE  Rests(c) \/ Asked(c) \/ Moves(c) \/ Skips(c)
<1>1. CASE Software
  <2>1. ASSUME NEW cs \in SUBSET Channels, ControlWrite(cs)
        PROVE  Rests(c) \/ Asked(c)
    <3>1. CASE c \in cs
      <4>1. asked'[c] \in Jobs
        BY NextType DEF TypeOK
      <4> QED
        BY <2>1, <3>1, <4>1 DEF ControlWrite, Asked
    <3>2. CASE c \notin cs
      BY <2>1, <3>2 DEF ControlWrite, Rests
    <3> QED
      BY <3>1, <3>2
  <2> QED
    BY <1>1, <2>1 DEF Software, StatusWrite, StartWrite, StrideWrite, IeWrite, IpWrite,
                      Rests, regVars, history
<1>2. CASE Reset
  BY <1>2 DEF Reset
<1>3. CASE EventFires
  BY <1>3 DEF EventFires, Rests, regVars, history
<1>4. ASSUME NEW d \in Channels, Thread(d)
      PROVE  Rests(c) \/ Moves(c) \/ Skips(c)
  <2>1. CASE d = c
    BY <1>4, <2>1, ThreadMoves
  <2>2. CASE d # c
    BY <1>4, <2>2, ThreadProgress DEF Rests
  <2> QED
    BY <2>1, <2>2
<1>5. CASE UNCHANGED vars
  BY <1>5 DEF vars, Rests
<1> QED
  BY <1>1, <1>2, <1>3, <1>4, <1>5 DEF Next

LEMMA NoJobIsNone == NoJob \notin Jobs
BY JobType DEF NoJob, Addresses

(* For a driver that leaves busy channels alone, channel 0 carries out the   *)
(* jobs it was asked for.                                                    *)
THEOREM ImplementsChannel0Holds == ASSUME Polite PROVE Safety => ImplementsChannel0
<1>1. Init => Channel0!ChInit
  BY DEF Init, Channel0!ChInit, Channels
<1>2. TypeOK /\ BusyIsWorking /\ JobsTracked /\ [Next]_vars => [Channel0!ChNext]_(Channel0!chVars)
  <2> SUFFICES ASSUME TypeOK, BusyIsWorking, JobsTracked, [Next]_vars
               PROVE  [Channel0!ChNext]_(Channel0!chVars)
    OBVIOUS
  <2>1. 0 \in Channels /\ asked[0] \in Jobs /\ asked[0] # NoJob
    BY NoJobIsNone DEF TypeOK, Channels
  <2>2. CASE Rests(0)
    BY <2>2 DEF Rests, Channel0!chVars
  <2>3. CASE Asked(0)
    BY <2>3 DEF Asked, Channel0!ChNext, Channel0!Ask
  <2>4. CASE Moves(0)
    BY <2>1, <2>4 DEF Moves, Channel0!ChNext, Channel0!Move, Channel0!Segment
  <2>5. CASE Skips(0)
    BY <2>1, <2>5 DEF Skips, Channel0!ChNext, Channel0!Skip
  <2> QED
    BY <2>1, <2>2, <2>3, <2>4, <2>5, ChannelStep
<1> QED
  BY <1>1, <1>2, TypeCorrect, BusyIsWorkingHolds, JobsTrackedHolds, PTL
     DEF Safety, ImplementsChannel0, Channel0!ChSpec

(* So does channel 1, except that the job it carries out has the strides of  *)
(* channel 0.                                                                *)
THEOREM ImplementsChannel1Holds == ASSUME Polite PROVE Safety => ImplementsChannel1
<1>1. Init => Channel1!ChInit
  BY DEF Init, Channel1!ChInit, Channels
<1>2. TypeOK /\ BusyIsWorking /\ JobsTracked /\ [Next]_vars => [Channel1!ChNext]_(Channel1!chVars)
  <2> SUFFICES ASSUME TypeOK, BusyIsWorking, JobsTracked, [Next]_vars
               PROVE  [Channel1!ChNext]_(Channel1!chVars)
    OBVIOUS
  <2>1. 1 \in Channels /\ asked[1] \in Jobs /\ asked[1] # NoJob
    BY NoJobIsNone DEF TypeOK, Channels
  <2>2. CASE Rests(1)
    BY <2>2 DEF Rests, Channel1!chVars
  <2>3. CASE Asked(1)
    BY <2>3 DEF Asked, Channel1!ChNext, Channel1!Ask
  <2>4. CASE Moves(1)
    BY <2>1, <2>4 DEF Moves, Channel1!ChNext, Channel1!Move, Channel1!Segment
  <2>5. CASE Skips(1)
    BY <2>1, <2>5 DEF Skips, Channel1!ChNext, Channel1!Skip
  <2> QED
    BY <2>1, <2>2, <2>3, <2>4, <2>5, ChannelStep
<1> QED
  BY <1>1, <1>2, TypeCorrect, BusyIsWorkingHolds, JobsTrackedHolds, PTL
     DEF Safety, ImplementsChannel1, Channel1!ChSpec

(* So the engine implements two independent channels, whatever the number of *)
(* segments, the addresses and the strides its driver asks for.              *)
THEOREM ImplementsChannelsHolds == ASSUME Polite PROVE Safety => ImplementsChannels
<1>1. ASSUME Polite PROVE Safety => ImplementsChannel0
  BY <1>1, ImplementsChannel0Holds
<1>2. ASSUME Polite PROVE Safety => ImplementsChannel1
  BY <1>2, ImplementsChannel1Holds
<1> QED
  BY <1>1, <1>2 DEF ImplementsChannels

=============================================================================
