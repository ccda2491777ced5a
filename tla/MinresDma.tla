------------------------------ MODULE MinresDma ------------------------------
(***************************************************************************)
(* The two-channel DMA of src/minres/dma.cpp over the registers of         *)
(* src/minres/gen/dma_regs.h.                                              *)
(*                                                                         *)
(* Register callbacks and reset_cb run to completion.  The two transfer    *)
(* threads yield at wait(chN_enable_event) and inside each b_transport to  *)
(* the memory, so software, a reset and the other channel interleave       *)
(* there.  A trigger notifies the event for the next delta cycle: whoever  *)
(* is not waiting when it fires misses it.                                 *)
(***************************************************************************)
EXTENDS Integers, Sequences

CONSTANTS
  AddrSpace,  \* the addresses are uint32_t: arithmetic modulo AddrSpace
  Starts,     \* [src, dst, count] software programs into a channel
  Strides,    \* [src, dst] software programs into a channel's addr_inc pair
  IeWrites,   \* values software writes to ie
  Polite      \* software leaves a busy channel alone, rewrites strides only
              \* while both rest, and nobody resets

Channels == {0, 1}
Addresses == 0..(AddrSpace - 1)

(* The bits of the ie and ip registers. *)
SegDone(c) == <<"seg_transfer_done", c>>
Done(c)    == <<"transfer_done", c>>
Bits == {SegDone(c) : c \in Channels} \cup {Done(c) : c \in Channels}

ASSUME DmaAssumption ==
  /\ AddrSpace \in Nat \ {0}
  /\ Starts \subseteq [src : Addresses, dst : Addresses, count : Nat]
  /\ Strides \subseteq [src : Addresses, dst : Addresses]
  /\ [src |-> 0, dst |-> 0, count |-> 0] \in Starts
  /\ [src |-> 0, dst |-> 0] \in Strides
  /\ IeWrites \subseteq SUBSET Bits
  /\ Polite \in BOOLEAN

VARIABLES
  busy,      \* r_status: channels whose busy flag is set
  ie, ip,    \* r_ie and r_ip as sets of bits
  start,     \* r_chN_src_start_addr, r_chN_dst_start_addr and r_chN_transfer.seg_count
  inc,       \* r_chN_src_addr_inc.src_stride and r_chN_dst_addr_inc.dst_stride
  irq_o,     \* the level last driven
  notified,  \* channels whose enable event fires in the next delta cycle
  pc,        \* where the channel's thread is: waiting for the event, ready to
             \* run after it, or inside the read or the write of a segment
  loc,       \* its locals: addresses, segments to move, segments moved
  asked,     \* history: the job in the registers when busy was last raised,
             \* with the strides of channel 0 (see WriteReturns)
  moved      \* history: the pairs of addresses moved since

regVars == <<busy, ie, ip, start, inc>>
threadVars == <<pc, loc>>
history == <<asked, moved>>
vars == <<busy, ie, ip, start, inc, irq_o, notified, pc, loc, asked, moved>>

IdleLoc == [src |-> 0, dst |-> 0, count |-> 0, seg |-> 0]
NoStart == [src |-> 0, dst |-> 0, count |-> 0]
NoStride == [src |-> 0, dst |-> 0]

JobOf(st, st_inc) == [src |-> st.src, dst |-> st.dst, count |-> st.count,
                      src_stride |-> st_inc.src, dst_stride |-> st_inc.dst]

Init ==
  /\ busy = {} /\ ie = {} /\ ip = {}
  /\ start = [c \in Channels |-> NoStart]
  /\ inc = [c \in Channels |-> NoStride]
  /\ irq_o = FALSE
  /\ notified = {}
  /\ pc = [c \in Channels |-> "wait"]
  /\ loc = [c \in Channels |-> IdleLoc]
  /\ asked = [c \in Channels |-> JobOf(NoStart, NoStride)]
  /\ moved = [c \in Channels |-> <<>>]

-----------------------------------------------------------------------------
(* update_irq: any bit both pending and enabled. *)
Level(pend, en) == pend \cap en # {}

(* A write of control with the enable bits of cs set.  The bits read as zero *)
(* afterwards, so every write of a one is a rising edge.                     *)
ControlWrite(cs) ==
  /\ cs # {}
  /\ Polite => cs \cap busy = {}
  /\ busy' = busy \cup cs
  /\ notified' = notified \cup cs
  /\ asked' = [c \in Channels |-> IF c \in cs \ busy THEN JobOf(start[c], inc[0]) ELSE asked[c]]
  /\ moved' = [c \in Channels |-> IF c \in cs \ busy THEN <<>> ELSE moved[c]]
  /\ UNCHANGED <<ie, ip, start, inc, irq_o, threadVars>>

(* Registers without a write callback store what software writes. *)
StartWrite(c, st) ==
  /\ Polite => c \notin busy
  /\ start' = [start EXCEPT ![c] = st]
  /\ UNCHANGED <<busy, ie, ip, inc, irq_o, notified, threadVars, history>>

StrideWrite(c, st_inc) ==
  /\ Polite => busy = {}
  /\ inc' = [inc EXCEPT ![c] = st_inc]
  /\ UNCHANGED <<busy, ie, ip, start, irq_o, notified, threadVars, history>>

StatusWrite(cs) ==
  /\ ~Polite
  /\ busy' = cs
  /\ UNCHANGED <<ie, ip, start, inc, irq_o, notified, threadVars, history>>

IeWrite(bits) ==
  /\ ie' = bits
  /\ UNCHANGED <<busy, ip, start, inc, irq_o, notified, threadVars, history>>

(* The callback of ip updates the interrupt and does not store the value. *)
IpWrite ==
  /\ irq_o' = Level(ip, ie)
  /\ UNCHANGED <<regVars, notified, threadVars, history>>

(* rst_i pulses: the registers and the output, but neither the threads nor *)
(* a pending event.                                                        *)
Reset ==
  /\ ~Polite
  /\ busy' = {} /\ ie' = {} /\ ip' = {}
  /\ start' = [c \in Channels |-> NoStart]
  /\ inc' = [c \in Channels |-> NoStride]
  /\ irq_o' = FALSE
  /\ UNCHANGED <<notified, threadVars, history>>

-----------------------------------------------------------------------------
(* The next delta cycle: the notified events fire. *)
EventFires ==
  /\ notified # {}
  /\ notified' = {}
  /\ pc' = [c \in Channels |-> IF c \in notified /\ pc[c] = "wait" THEN "ready" ELSE pc[c]]
  /\ UNCHANGED <<regVars, irq_o, loc, history>>

(* Mutant of Finish: channel 1 lowers the busy flag of channel 0. *)
MutClearsChannel0(c, pend, irq) ==
  /\ pc' = [pc EXCEPT ![c] = "wait"]
  /\ busy' = busy \ {0}
  /\ ip' = pend \cup {Done(c)}
  /\ irq_o' = IF Done(c) \in ie THEN Level(ip', ie) ELSE irq

(* Mutant of Finish: the interrupt is updated before the bit is set. *)
MutUpdatesTooEarly(c, pend, irq) ==
  /\ pc' = [pc EXCEPT ![c] = "wait"]
  /\ busy' = busy \ {c}
  /\ ip' = pend \cup {Done(c)}
  /\ irq_o' = IF Done(c) \in ie THEN Level(pend, ie) ELSE irq

(* Mutant of Finish: the busy flag is not lowered. *)
MutStaysBusy(c, pend, irq) ==
  /\ pc' = [pc EXCEPT ![c] = "wait"]
  /\ ip' = pend \cup {Done(c)}
  /\ irq_o' = IF Done(c) \in ie THEN Level(ip', ie) ELSE irq
  /\ UNCHANGED busy

(* The end of a transfer, with ip and irq_o as its last segment left them. *)
Finish(c, pend, irq) ==
  /\ pc' = [pc EXCEPT ![c] = "wait"]
  /\ busy' = busy \ {c}
  /\ ip' = pend \cup {Done(c)}
  /\ irq_o' = IF Done(c) \in ie THEN Level(ip', ie) ELSE irq

(* Mutant of Begin: the source address goes on where the last job ended. *)
MutKeepsOldAddress(c) ==
  /\ pc[c] = "ready"
  /\ loc' = [loc EXCEPT ![c] = [src |-> loc[c].src, dst |-> start[c].dst,
                                count |-> start[c].count, seg |-> 0]]
  /\ \/ /\ start[c].count > 0
        /\ pc' = [pc EXCEPT ![c] = "read"]
        /\ UNCHANGED <<busy, ip, irq_o>>
     \/ /\ start[c].count = 0
        /\ Finish(c, ip, irq_o)
  /\ moved' = [moved EXCEPT ![c] = <<>>]
  /\ UNCHANGED <<ie, start, inc, notified, asked>>

(* transfer_process_chN resumes and reads its channel's registers. *)
Begin(c) ==
  /\ pc[c] = "ready"
  /\ loc' = [loc EXCEPT ![c] = [src |-> start[c].src, dst |-> start[c].dst,
                                count |-> start[c].count, seg |-> 0]]
  /\ \/ /\ start[c].count > 0
        /\ pc' = [pc EXCEPT ![c] = "read"]
        /\ UNCHANGED <<busy, ip, irq_o>>
     \/ /\ start[c].count = 0
        /\ Finish(c, ip, irq_o)
  /\ moved' = [moved EXCEPT ![c] = <<>>]
  /\ UNCHANGED <<ie, start, inc, notified, asked>>

(* The memory answers the read of a segment. *)
ReadReturns(c) ==
  /\ pc[c] = "read"
  /\ pc' = [pc EXCEPT ![c] = "write"]
  /\ UNCHANGED <<regVars, irq_o, notified, loc, history>>

(* Mutant of WriteReturns: the stride of the source moves the destination. *)
MutSourceStrideTwice(c) ==
  LET pend == IF SegDone(0) \in ie THEN ip \cup {SegDone(0)} ELSE ip
      irq  == IF SegDone(0) \in ie THEN Level(pend, ie) ELSE irq_o
      next == [src   |-> (loc[c].src + inc[0].src) % AddrSpace,
               dst   |-> (loc[c].dst + inc[0].src) % AddrSpace,
               count |-> loc[c].count,
               seg   |-> loc[c].seg + 1]
  IN  /\ pc[c] = "write"
      /\ loc' = [loc EXCEPT ![c] = next]
      /\ moved' = [moved EXCEPT ![c] = Append(@, [from |-> loc[c].src, to |-> loc[c].dst])]
      /\ \/ /\ next.seg < next.count
            /\ pc' = [pc EXCEPT ![c] = "read"]
            /\ ip' = pend /\ irq_o' = irq
            /\ UNCHANGED busy
         \/ /\ next.seg = next.count
            /\ Finish(c, pend, irq)
      /\ UNCHANGED <<ie, start, inc, notified, asked>>

(* The memory answers the write of a segment.  do_transfer serves both       *)
(* channels with the strides and the segment interrupt of channel 0.         *)
WriteReturns(c) ==
  LET pend == IF SegDone(0) \in ie THEN ip \cup {SegDone(0)} ELSE ip
      irq  == IF SegDone(0) \in ie THEN Level(pend, ie) ELSE irq_o
      next == [src   |-> (loc[c].src + inc[0].src) % AddrSpace,
               dst   |-> (loc[c].dst + inc[0].dst) % AddrSpace,
               count |-> loc[c].count,
               seg   |-> loc[c].seg + 1]
  IN  /\ pc[c] = "write"
      /\ loc' = [loc EXCEPT ![c] = next]
      /\ moved' = [moved EXCEPT ![c] = Append(@, [from |-> loc[c].src, to |-> loc[c].dst])]
      /\ \/ /\ next.seg < next.count
            /\ pc' = [pc EXCEPT ![c] = "read"]
            /\ ip' = pend /\ irq_o' = irq
            /\ UNCHANGED busy
         \/ /\ next.seg = next.count
            /\ Finish(c, pend, irq)
      /\ UNCHANGED <<ie, start, inc, notified, asked>>

Software ==
  \/ \E cs \in SUBSET Channels : ControlWrite(cs) \/ StatusWrite(cs)
  \/ \E c \in Channels, st \in Starts : StartWrite(c, st)
  \/ \E c \in Channels, st_inc \in Strides : StrideWrite(c, st_inc)
  \/ \E bits \in IeWrites : IeWrite(bits)
  \/ IpWrite

Thread(c) == Begin(c) \/ ReadReturns(c) \/ WriteReturns(c)

Next == Software \/ Reset \/ EventFires \/ \E c \in Channels : Thread(c)

(* The kernel fires what was notified and runs what is ready, and the memory *)
(* answers.                                                                  *)
Fairness == WF_vars(EventFires) /\ \A c \in Channels : WF_vars(Thread(c))

Safety == Init /\ [][Next]_vars
Spec == Safety /\ Fairness

-----------------------------------------------------------------------------
Jobs == {JobOf(st, st_inc) : st \in Starts, st_inc \in Strides}
Locals == [src : Addresses, dst : Addresses, count : Nat, seg : Nat]
Pairs == [from : Addresses, to : Addresses]

(* Registers, threads and history keep their ranges; a thread inside a        *)
(* transfer has a segment left to move.                                       *)
TypeOK ==
  /\ busy \subseteq Channels /\ ie \subseteq Bits /\ ip \subseteq Bits
  /\ start \in [Channels -> Starts] /\ inc \in [Channels -> Strides]
  /\ irq_o \in BOOLEAN
  /\ notified \subseteq Channels
  /\ pc \in [Channels -> {"wait", "ready", "read", "write"}]
  /\ loc \in [Channels -> Locals]
  /\ \A c \in Channels : pc[c] \in {"read", "write"} => loc[c].seg < loc[c].count
  /\ asked \in [Channels -> Jobs]
  /\ moved \in [Channels -> Seq(Pairs)]

(* A transfer is under way or about to be. *)
Working(c) == pc[c] # "wait" \/ c \in notified

(* The busy flag tells the truth to a driver that leaves busy channels alone: *)
(* it is set exactly while a transfer is under way or about to be, and none   *)
(* of its triggers meets a thread that does not wait for it.                  *)
BusyIsWorking ==
  Polite => \A c \in Channels : /\ c \in busy <=> Working(c)
                                /\ c \in notified => pc[c] = "wait"

(* What a busy channel has done of the job it was asked for: nothing before   *)
(* its thread begins, and then as many segments as its loop has counted, at   *)
(* the addresses the strides lead to.                                         *)
JobsTracked ==
  Polite => \A c \in busy :
    /\ asked[c].src_stride = inc[0].src /\ asked[c].dst_stride = inc[0].dst
    /\ (c \in notified \/ pc[c] = "ready") =>
         asked[c] = JobOf(start[c], inc[0]) /\ moved[c] = <<>>
    /\ pc[c] \in {"read", "write"} =>
         /\ asked[c].count = loc[c].count
         /\ Len(moved[c]) = loc[c].seg
         /\ loc[c].src = (asked[c].src + loc[c].seg * asked[c].src_stride) % AddrSpace
         /\ loc[c].dst = (asked[c].dst + loc[c].seg * asked[c].dst_stride) % AddrSpace

(* A channel works with its busy flag down only after one of three things:   *)
(* the registers were reset under the thread, software overwrote the flag,   *)
(* or the transfer ended in the delta cycle in which it was triggered again, *)
(* so that the flag raised for the second trigger was lowered for the first. *)
Unflagged(c) == Working(c) /\ c \notin busy

UnflaggedOnlyByRace ==
  [][\A c \in Channels :
       ~Unflagged(c) /\ Unflagged(c)' =>
          \/ Reset
          \/ \E cs \in SUBSET Channels : StatusWrite(cs)
          \/ c \in notified /\ pc[c] # "wait" /\ pc'[c] = "wait"]_vars

(* The interrupt line differs from what is pending and enabled only after a  *)
(* write of ie, which has no callback: no order of segments and ends of the  *)
(* two channels, writes of ip and resets leaves it behind.                   *)
IrqStale == irq_o # Level(ip, ie)

IrqStaleOnlyByIe == [][~IrqStale /\ IrqStale' => ie' # ie]_vars

(* A channel that was triggered comes to rest. *)
BusyEnds == \A c \in Channels : c \in busy ~> c \notin busy

(* For a driver that leaves busy channels alone, channel 0 carries out the   *)
(* jobs it was asked for, however its segments interleave with channel 1.    *)
NoJob == [src |-> -1, dst |-> 0, count |-> 0, src_stride |-> 0, dst_stride |-> 0]

Channel0 == INSTANCE DmaChannel WITH
  job   <- IF 0 \in busy THEN asked[0] ELSE NoJob,
  moved <- moved[0]

ImplementsChannel0 == Channel0!ChSpec

(* So does channel 1, except that the job it carries out has the strides of  *)
(* channel 0: its own addr_inc registers are never read.                     *)
Channel1 == INSTANCE DmaChannel WITH
  job   <- IF 1 \in busy THEN asked[1] ELSE NoJob,
  moved <- moved[1]

ImplementsChannel1 == Channel1!ChSpec

(* Both at once, on one engine, one bus and one interrupt. *)
ImplementsChannels == ImplementsChannel0 /\ ImplementsChannel1

=============================================================================
