-------------------------- MODULE LinesSerialProofs --------------------------
(***************************************************************************)
(* Theorems of MCLines and MCSerial.  MCLines is the seven interrupt       *)
(* controllers and GPIO blocks, for any number of pins, lines, sources,    *)
(* targets and priorities; MCSerial is the UARTs and the SPI controllers,  *)
(* for any depth of their FIFOs and any words.  Each block has a lemma     *)
(* about its steps; a block that rests keeps what it has.                  *)
(***************************************************************************)
EXTENDS MCLines, MCSerial, ScFifo, NatLemmas, FiniteSetTheorems, TLAPS

-----------------------------------------------------------------------------
(* The MINRES interrupt controller: no mask is ever set. *)
IrqInv == Irq!TypeOK /\ Irq!Silent /\ masksReg = {}

LEMMA IrqStep ==
  ASSUME IrqInv, Irq!Next
  PROVE  IrqInv' /\ Irq!OverlookedOnlyByReset
<1> USE DEF IrqInv, Irq!TypeOK, Irq!Silent, Irq!OverlookedOnlyByReset, Irq!Overlooked
<1>1. ASSUME NEW data \in SUBSET IrqLines, Irq!MasksWrite(data) \/ Irq!PendingsWrite(data)
      PROVE  IrqInv' /\ Irq!OverlookedOnlyByReset
  BY <1>1 DEF Irq!MasksWrite, Irq!PendingsWrite, Irq!update_irqs
<1>2. ASSUME NEW high \in SUBSET IrqLines, Irq!LinesChange(high)
      PROVE  IrqInv' /\ Irq!OverlookedOnlyByReset
  BY <1>2 DEF Irq!LinesChange
<1>3. ASSUME Irq!UpdateIrqs PROVE IrqInv' /\ Irq!OverlookedOnlyByReset
  BY <1>3 DEF Irq!UpdateIrqs, Irq!update_irqs
<1>4. ASSUME Irq!Reset \/ Irq!ResetRelease PROVE IrqInv' /\ Irq!OverlookedOnlyByReset
  BY <1>4 DEF Irq!Reset, Irq!ResetRelease
<1> QED
  BY <1>1, <1>2, <1>3, <1>4 DEF Irq!Next

LEMMA IrqRests ==
  ASSUME UNCHANGED irq
  PROVE  (IrqInv => IrqInv') /\ Irq!OverlookedOnlyByReset
BY DEF irq, IrqInv, Irq!TypeOK, Irq!Silent, Irq!OverlookedOnlyByReset, Irq!Overlooked

-----------------------------------------------------------------------------
(* The MINRES GPIO: the last value queued for the pins is the register's. *)
GpioInv == Gpio!TypeOK /\ Gpio!PinsFollow

(* Appending to a queue of values makes the value its last element. *)
LEMMA AppendedIsLast ==
  ASSUME NEW S, NEW s \in Seq(S), NEW x \in S
  PROVE  /\ Append(s, x) \in Seq(S) /\ Append(s, x) # <<>>
         /\ Append(s, x)[Len(Append(s, x))] = x
OBVIOUS

LEMMA GpioStep == ASSUME GpioInv, Gpio!Next PROVE GpioInv'
<1> USE DEF GpioInv, Gpio!TypeOK, Gpio!PinsFollow
<1>1. ASSUME NEW data \in SUBSET GpioPins, Gpio!Write(data) PROVE GpioInv'
  BY <1>1, AppendedIsLast DEF Gpio!Write
<1>2. ASSUME NEW data \in SUBSET GpioPins, Gpio!WriteEnable(data) PROVE GpioInv'
  BY <1>2, AppendedIsLast DEF Gpio!WriteEnable
<1>3. ASSUME NEW data \in SUBSET GpioPins, Gpio!InputChange(data) PROVE GpioInv'
  BY <1>3 DEF Gpio!InputChange
<1>4. ASSUME Gpio!Read PROVE GpioInv'
  BY <1>4 DEF Gpio!Read
<1>5. ASSUME Gpio!pin_writer PROVE GpioInv'
  BY <1>5 DEF Gpio!pin_writer
<1>6. ASSUME Gpio!oe_writer PROVE GpioInv'
  BY <1>6 DEF Gpio!oe_writer
<1>7. ASSUME NEW active \in BOOLEAN, Gpio!reset_cb(active) PROVE GpioInv'
  <2>1. write' \in SUBSET GpioPins /\ writeEnable' \in SUBSET GpioPins /\ boot_sel' \in BOOLEAN
    BY <1>7 DEF Gpio!reset_cb
  <2> QED
    BY <1>7, <2>1, AppendedIsLast DEF Gpio!reset_cb
<1> QED
  BY <1>1, <1>2, <1>3, <1>4, <1>5, <1>6, <1>7 DEF Gpio!Next

LEMMA GpioRests == ASSUME UNCHANGED gpio, GpioInv PROVE GpioInv'
BY DEF gpio, GpioInv, Gpio!TypeOK, Gpio!PinsFollow

-----------------------------------------------------------------------------
(* The Pulpino GPIO: output and status move together. *)
PulpInv == PulpGpio!TypeOK /\ PulpGpio!OutputIsStatus

LEMMA PulpStep ==
  ASSUME PulpInv, PulpGpio!Next
  PROVE  PulpInv' /\ PulpGpio!EdgesLostOnlyByRead
<1> USE DEF PulpInv, PulpGpio!TypeOK, PulpGpio!OutputIsStatus, PulpGpio!EdgesLostOnlyByRead,
            PulpGpio!IntType, PulpGpio!EdgesLost, PulpGpio!Triggers
<1>1. ASSUME NEW v \in SUBSET PulpinoPins, PulpGpio!PadWrite(v) PROVE PulpInv' /\ PulpGpio!EdgesLostOnlyByRead
  BY <1>1 DEF PulpGpio!PadWrite
<1>2. ASSUME NEW en \in SUBSET PulpinoPins, NEW types \in [PulpinoPins -> PulpGpio!IntType],
             PulpGpio!InterruptConfig(en, types)
      PROVE  PulpInv' /\ PulpGpio!EdgesLostOnlyByRead
  BY <1>2 DEF PulpGpio!InterruptConfig
<1>3. ASSUME NEW pins \in SUBSET PulpinoPins, PulpGpio!LinesChange(pins)
      PROVE  PulpInv' /\ PulpGpio!EdgesLostOnlyByRead
  BY <1>3 DEF PulpGpio!LinesChange
<1>4. ASSUME PulpGpio!IntstatusRead \/ PulpGpio!in_cb \/ PulpGpio!DeltaEnds
      PROVE  PulpInv' /\ PulpGpio!EdgesLostOnlyByRead
  BY <1>4 DEF PulpGpio!IntstatusRead, PulpGpio!in_cb, PulpGpio!DeltaEnds
<1>5. ASSUME PulpGpio!intstatus_cb PROVE PulpInv' /\ PulpGpio!EdgesLostOnlyByRead
  BY <1>5 DEF PulpGpio!intstatus_cb
<1> QED
  BY <1>1, <1>2, <1>3, <1>4, <1>5 DEF PulpGpio!Next

LEMMA PulpRests ==
  ASSUME UNCHANGED pulp
  PROVE  (PulpInv => PulpInv') /\ PulpGpio!EdgesLostOnlyByRead
BY DEF pulp, PulpInv, PulpGpio!TypeOK, PulpGpio!OutputIsStatus, PulpGpio!EdgesLostOnlyByRead,
       PulpGpio!EdgesLost, PulpGpio!Triggers

-----------------------------------------------------------------------------
(* The PULPissimo GPIO. *)
PadInv == PadGpio!TypeOK /\ PadGpio!HighBankIsMute
PadStepOK == /\ PadGpio!InterruptStaysAndIsMissedOnlyByEnable /\ PadGpio!ApartOnlyByWriteOrReset
             /\ PadGpio!EdgesAreRecorded

LEMMA PadStep == ASSUME PadInv, PadGpio!Next PROVE PadInv' /\ PadStepOK
<1> USE DEF PadInv, PadStepOK, PadGpio!HighBankIsMute, PadGpio!TypeOK, PadGpio!Banks,
            PadGpio!Pads, PadGpio!None, PadGpio!Missed, PadGpio!Apart,
            PadGpio!InterruptStaysAndIsMissedOnlyByEnable, PadGpio!ApartOnlyByWriteOrReset,
            PadGpio!EdgesAreRecorded
<1>1. ASSUME NEW b \in PadGpio!Banks, NEW v \in SUBSET PadBits,
             PadGpio!PadoutWrite(b, v) \/ PadGpio!PaddirWrite(b, v)
      PROVE  PadInv' /\ PadStepOK
  BY <1>1 DEF PadGpio!PadoutWrite, PadGpio!PaddirWrite, PadGpio!Drive
<1>2. ASSUME NEW b \in PadGpio!Banks, NEW v \in SUBSET PadBits, PadGpio!PadoutSet(b, v)
      PROVE  PadInv' /\ PadStepOK
  BY <1>2 DEF PadGpio!PadoutSet
<1>3. ASSUME NEW b \in PadGpio!Banks, NEW v \in SUBSET PadBits, PadGpio!PadoutClear(b, v)
      PROVE  PadInv' /\ PadStepOK
  BY <1>3 DEF PadGpio!PadoutClear
<1>4. ASSUME NEW b \in PadGpio!Banks, NEW v \in SUBSET PadBits, PadGpio!IntenWrite(b, v)
      PROVE  PadInv' /\ PadStepOK
  BY <1>4 DEF PadGpio!IntenWrite
<1>5. ASSUME NEW p \in PadGpio!Pads, NEW type \in IntTypes, PadGpio!InttypeWrite(p, type)
      PROVE  PadInv' /\ PadStepOK
  BY <1>5, LinesAssumption DEF PadGpio!InttypeWrite
<1>6. ASSUME NEW b \in PadGpio!Banks, PadGpio!IntstatusRead(b) PROVE PadInv' /\ PadStepOK
  BY <1>6 DEF PadGpio!IntstatusRead
<1>7. ASSUME NEW b \in PadGpio!Banks, PadGpio!in_cb(b) PROVE PadInv' /\ PadStepOK
  <2> DEFINE lo == INTSTATUS'["lo"]
  <2>1. /\ lo \subseteq PadBits /\ INTSTATUS' = [INTSTATUS EXCEPT !["lo"] = lo]
        /\ pad_irq_o' = (pad_irq_o \/ lo \cap INTEN["lo"] # {})
        /\ in_event' \subseteq in_event
        /\ PADIN' \in [PadGpio!Banks -> SUBSET PadBits]
        /\ UNCHANGED <<in, out, dir, PADOUT, INTEN, INTTYPE>>
    <3> DEFINE mine == {p \in in_event : p[1] = b}
               hit  == {p[2] : p \in {q \in mine : PadGpio!Detects(INTTYPE[<<"lo", q[2]>>], q \in in)}}
    <3>1. hit \subseteq PadBits
      OBVIOUS
    <3>2. INTSTATUS' = [INTSTATUS EXCEPT !["lo"] = @ \cup hit]
      BY <1>7 DEF PadGpio!in_cb, PadGpio!CheckedAs
    <3> HIDE DEF hit
    <3>3. lo \subseteq PadBits /\ INTSTATUS' = [INTSTATUS EXCEPT !["lo"] = lo]
      BY <3>1, <3>2
    <3>4. PADIN' \in [PadGpio!Banks -> SUBSET PadBits]
      BY <1>7 DEF PadGpio!in_cb
    <3>5. in_event' \subseteq in_event /\ UNCHANGED <<in, out, dir, PADOUT, INTEN, INTTYPE>>
      BY <1>7 DEF PadGpio!in_cb
    <3>6. pad_irq_o' = (pad_irq_o \/ lo \cap INTEN["lo"] # {})
      BY <1>7 DEF PadGpio!in_cb, PadGpio!CheckedAs
    <3> QED
      BY <3>3, <3>4, <3>5, <3>6
  <2>4. PadGpio!EdgesAreRecorded
    <3> SUFFICES ASSUME NEW p \in in_event \ in_event',
                        PadGpio!Detects(INTTYPE[<<"lo", p[2]>>], p \in in)
                 PROVE  p[2] \in INTSTATUS'["lo"]
      BY DEF PadGpio!CheckedAs
    <3>1. p[1] = b /\ INTSTATUS' = [INTSTATUS EXCEPT !["lo"] = @ \cup
            {q[2] : q \in {r \in {x \in in_event : x[1] = b} :
                             PadGpio!Detects(INTTYPE[<<"lo", r[2]>>], r \in in)}}]
      BY <1>7 DEF PadGpio!in_cb, PadGpio!CheckedAs
    <3> QED
      BY <3>1
  <2> HIDE DEF lo
  <2>2. PadInv'
    BY <2>1
  <2>3. (~PadGpio!Missed /\ PadGpio!Missed') => INTEN' # INTEN
    BY <2>1
  <2> QED
    BY <2>1, <2>2, <2>3, <2>4
<1>8. ASSUME NEW pads \in SUBSET PadGpio!Pads, PadGpio!LinesChange(pads)
      PROVE  PadInv' /\ PadStepOK
  BY <1>8 DEF PadGpio!LinesChange
<1>9. ASSUME PadGpio!Reset PROVE PadInv' /\ PadStepOK
  BY <1>9 DEF PadGpio!Reset
<1> QED
  BY <1>1, <1>2, <1>3, <1>4, <1>5, <1>6, <1>7, <1>8, <1>9 DEF PadGpio!Next

LEMMA PadRests == ASSUME UNCHANGED pad PROVE (PadInv => PadInv') /\ PadStepOK
BY DEF pad, PadInv, PadStepOK, PadGpio!HighBankIsMute, PadGpio!TypeOK, PadGpio!Missed,
       PadGpio!Apart, PadGpio!InterruptStaysAndIsMissedOnlyByEnable,
       PadGpio!ApartOnlyByWriteOrReset, PadGpio!EdgesAreRecorded

-----------------------------------------------------------------------------
(* The SiFive PLIC. *)
ClaimInv == ClaimPlic!TypeOK /\ ClaimPlic!ClaimUnderInterrupt
ClaimStepOK == /\ ClaimPlic!UnseenExplained /\ ClaimPlic!IdleInterruptExplained
               /\ ClaimPlic!SilentOnlyByConfiguration

(* The arbitration returns a candidate whenever there is one. *)
LEMMA ClaimWinner ==
  ASSUME ClaimPlic!TypeOK, NEW p \in SUBSET ClaimPlic!Ids, NEW level \in BOOLEAN,
         ClaimPlic!handle_pending_int(p, level)
  PROVE  /\ claim_complete' \in 0..(LastSource - 1)
         /\ IF ClaimPlic!Candidates(p) # {}
            THEN claim_complete' # 0 /\ core_interrupt' = TRUE
            ELSE claim_complete' = 0 /\ core_interrupt' = level
<1> DEFINE cand == ClaimPlic!Candidates(p)
<1>1. /\ cand \subseteq 1..(LastSource - 1) /\ cand \in SUBSET Nat
      /\ \A x \in cand : priority[x] \in 0..MaxPrio
  <2>1. cand \subseteq ClaimPlic!Ids /\ \A x \in cand : x < LastSource
    BY DEF ClaimPlic!Candidates
  <2> HIDE DEF cand
  <2> QED
    BY <2>1, LinesAssumption DEF ClaimPlic!TypeOK, ClaimPlic!Ids
<1>2. CASE cand # {}
  <2>1. \E i \in cand : \A j \in cand : ClaimPlic!Foremost(i, j)
    <3>1. MaxPrio \in Nat /\ cand \in SUBSET Nat /\ \A x \in cand : priority[x] \in 0..MaxPrio
      BY <1>1, LinesAssumption
    <3> HIDE DEF cand
    <3>2. \E i \in cand : \A j \in cand :
             priority[i] > priority[j] \/ (priority[i] = priority[j] /\ i <= j)
      BY ONLY <1>2, <3>1, RankedWinner
    <3> QED
      BY <3>2 DEF ClaimPlic!Foremost
  <2>2. /\ claim_complete' = CHOOSE i \in cand : \A j \in cand : ClaimPlic!Foremost(i, j)
        /\ core_interrupt' = TRUE
    BY <1>2 DEF ClaimPlic!handle_pending_int
  <2>3. claim_complete' \in 1..(LastSource - 1)
    <3> HIDE DEF cand
    <3> QED
      BY <1>1, <2>1, <2>2
  <2>4. claim_complete' \in 0..(LastSource - 1) /\ claim_complete' # 0
    BY <2>3, LinesAssumption
  <2> QED
    BY <1>2, <2>2, <2>4
<1>3. CASE cand = {}
  BY <1>3, LinesAssumption DEF ClaimPlic!handle_pending_int
<1> QED
  BY <1>2, <1>3

LEMMA ClaimStep == ASSUME ClaimInv, ClaimPlic!Next PROVE ClaimInv' /\ ClaimStepOK
<1> USE LinesAssumption
    DEF ClaimInv, ClaimStepOK, ClaimPlic!TypeOK, ClaimPlic!Ids, ClaimPlic!ClaimUnderInterrupt,
        ClaimPlic!UnseenExplained, ClaimPlic!Unseen, ClaimPlic!IdleInterruptExplained,
        ClaimPlic!Idle, ClaimPlic!SilentOnlyByConfiguration, ClaimPlic!Silent,
        ClaimPlic!Candidates
<1>1. ASSUME ClaimPlic!RegisterWrite PROVE ClaimInv' /\ ClaimStepOK
  BY <1>1 DEF ClaimPlic!RegisterWrite
<1>2. ASSUME NEW high \in SUBSET ClaimPlic!Ids, ClaimPlic!LinesChange(high)
      PROVE  ClaimInv' /\ ClaimStepOK
  BY <1>2 DEF ClaimPlic!LinesChange
<1>3. ASSUME ClaimPlic!global_int_port_cb PROVE ClaimInv' /\ ClaimStepOK
  <2>1. CASE lines \cap enabled = {}
    BY <1>3, <2>1 DEF ClaimPlic!global_int_port_cb
  <2>2. CASE lines \cap enabled # {}
    <3>1. pending' \in SUBSET ClaimPlic!Ids /\ ClaimPlic!handle_pending_int(pending', core_interrupt)
      BY <1>3, <2>2 DEF ClaimPlic!global_int_port_cb
    <3>2. /\ claim_complete' \in 0..(LastSource - 1)
          /\ IF ClaimPlic!Candidates(pending') # {}
             THEN claim_complete' # 0 /\ core_interrupt' = TRUE
             ELSE claim_complete' = 0 /\ core_interrupt' = core_interrupt
      BY <3>1, ClaimWinner
    <3>3. ClaimInv'
      BY <1>3, <3>1, <3>2 DEF ClaimPlic!global_int_port_cb
    <3>4. ClaimPlic!UnseenExplained
      BY <1>3 DEF ClaimPlic!global_int_port_cb
    <3>5. ClaimPlic!IdleInterruptExplained
      BY <1>3, <3>2 DEF ClaimPlic!global_int_port_cb
    <3>6. ClaimPlic!Candidates(pending') = ClaimPlic!Candidates(pending)'
      BY <1>3 DEF ClaimPlic!global_int_port_cb
    <3>7. ClaimPlic!Candidates(pending)' # {} => core_interrupt' = TRUE
      BY <3>2, <3>6
    <3> QED
      BY <3>3, <3>4, <3>5, <3>7
  <2> QED
    BY <2>1, <2>2
<1>4. ASSUME NEW v \in 0..LastSource, ClaimPlic!CompleteWrite(v) PROVE ClaimInv' /\ ClaimStepOK
  <2>1. pending' \in SUBSET ClaimPlic!Ids /\ ClaimPlic!handle_pending_int(pending', FALSE)
    BY <1>4 DEF ClaimPlic!CompleteWrite
  <2>2. /\ claim_complete' \in 0..(LastSource - 1)
        /\ IF ClaimPlic!Candidates(pending') # {}
           THEN claim_complete' # 0 /\ core_interrupt' = TRUE
           ELSE claim_complete' = 0 /\ core_interrupt' = FALSE
    BY <2>1, ClaimWinner
  <2>3. ClaimInv'
    BY <1>4, <2>1, <2>2 DEF ClaimPlic!CompleteWrite
  <2>4. ClaimPlic!UnseenExplained
    BY <1>4 DEF ClaimPlic!CompleteWrite
  <2>5. ClaimPlic!IdleInterruptExplained
    BY <2>2
  <2>6. ClaimPlic!Candidates(pending') = ClaimPlic!Candidates(pending)'
    BY <1>4 DEF ClaimPlic!CompleteWrite
  <2>7. ClaimPlic!Candidates(pending)' # {} => core_interrupt' = TRUE
    BY <2>2, <2>6
  <2> QED
    BY <2>3, <2>4, <2>5, <2>7
<1>5. ASSUME ClaimPlic!Reset PROVE ClaimInv' /\ ClaimStepOK
  BY <1>5 DEF ClaimPlic!Reset
<1> QED
  BY <1>1, <1>2, <1>3, <1>4, <1>5 DEF ClaimPlic!Next

LEMMA ClaimRests == ASSUME UNCHANGED claim PROVE (ClaimInv => ClaimInv') /\ ClaimStepOK
BY DEF claim, ClaimInv, ClaimStepOK, ClaimPlic!TypeOK, ClaimPlic!ClaimUnderInterrupt,
       ClaimPlic!UnseenExplained, ClaimPlic!Unseen, ClaimPlic!IdleInterruptExplained,
       ClaimPlic!Idle, ClaimPlic!SilentOnlyByConfiguration, ClaimPlic!Silent,
       ClaimPlic!Candidates

-----------------------------------------------------------------------------
(* The Pulpino PLIC. *)
ScanStepOK == /\ ScanPlic!UnseenExplained /\ ScanPlic!WrongOnlyBySoftware
              /\ ScanPlic!GatewayShut /\ ScanPlic!ActiveWasPending

(* A target's id is a source or still none. *)
LEMMA ScanWinner ==
  ASSUME ScanPlic!TypeOK, NEW p \in SUBSET Srcs, NEW t \in Targets
  PROVE  ScanPlic!process(p, t) \in Srcs \cup {0}
<1> DEFINE cand == ScanPlic!Wanted(p, t)
<1>1. cand \subseteq Srcs
  BY DEF ScanPlic!Wanted
<1>2. CASE cand = {}
  BY <1>2 DEF ScanPlic!process, ScanPlic!TypeOK
<1>3. CASE cand # {}
  <2>1. Cardinality(Srcs) \in Nat /\ MaxLevel \in Nat
    BY LinesAssumption, FS_CardinalityType
  <2>2. Srcs \subseteq 0..Cardinality(Srcs)
    BY <2>1, LinesAssumption
  <2>3. \A s \in Srcs : prio[s] \in 0..MaxLevel
    BY DEF ScanPlic!TypeOK
  <2>4. \E s \in cand : \A r \in cand : prio[r] < prio[s] \/ (prio[r] = prio[s] /\ r <= s)
    <3>1. cand \in SUBSET (0..Cardinality(Srcs)) /\ \A s \in cand : prio[s] \in 0..MaxLevel
      BY <1>1, <2>2, <2>3
    <3> HIDE DEF cand
    <3>2. \E s \in cand : \A r \in cand : prio[r] < prio[s] \/ (prio[s] = prio[r] /\ r <= s)
      BY ONLY <1>3, <2>1, <3>1, RankedLast, ZenonT(60)
    <3> QED
      BY <3>2
  <2>5. ScanPlic!process(p, t) = CHOOSE s \in cand : \A r \in cand :
           prio[r] < prio[s] \/ (prio[r] = prio[s] /\ r <= s)
    BY <1>3 DEF ScanPlic!process
  <2>6. ScanPlic!process(p, t) \in cand
    <3> HIDE DEF cand
    <3> QED
      BY <2>4, <2>5
  <2> QED
    BY <1>1, <2>6
<1> QED
  BY <1>2, <1>3

LEMMA ScanStep ==
  ASSUME ScanPlic!TypeOK, ScanPlic!Next
  PROVE  ScanPlic!TypeOK' /\ ScanStepOK
<1> USE LinesAssumption DEF ScanStepOK, ScanPlic!UnseenExplained, ScanPlic!Unseen,
        ScanPlic!WrongOnlyBySoftware, ScanPlic!Wrong, ScanPlic!Wanted,
        ScanPlic!GatewayShut, ScanPlic!ActiveWasPending
<1>1. ASSUME ScanPlic!scan_int_lines PROVE ScanPlic!TypeOK' /\ ScanStepOK
  <2>1. /\ set_' \subseteq Srcs /\ srcs_d' \subseteq Srcs /\ ip' \subseteq Srcs
        /\ ia_' \subseteq Srcs /\ scan_due' = FALSE
        /\ UNCHANGED <<irq_srcs_i, prio, ie, pth>>
    BY <1>1 DEF ScanPlic!scan_int_lines, ScanPlic!TypeOK, ScanPlic!source, ScanPlic!claim,
                ScanPlic!complete
  <2>2. id_' \in [Targets -> Srcs \cup {0}]
    BY <1>1, <2>1, ScanWinner DEF ScanPlic!scan_int_lines
  <2>3. irq_out' \in [Targets -> BOOLEAN]
    BY <1>1 DEF ScanPlic!scan_int_lines
  <2>4. ScanPlic!TypeOK'
    BY <2>1, <2>2, <2>3 DEF ScanPlic!TypeOK
  <2>5. ScanPlic!Unseen' = {}
    BY <1>1 DEF ScanPlic!scan_int_lines, ScanPlic!source, ScanPlic!claim, ScanPlic!complete
  <2>6. ASSUME NEW t \in Targets, pth[t] # MaxLevel PROVE ~ScanPlic!Wrong(t)'
    <3>1. pth[t] \in Nat /\ MaxLevel \in Nat /\ pth[t] < MaxLevel
      BY <2>6, LinesAssumption DEF ScanPlic!TypeOK
    <3>2. (pth[t] + 1) % (MaxLevel + 1) = pth[t] + 1
      BY <3>1, SmallModulo
    <3>3. \A s \in Srcs : prio[s] \in Nat
      BY LinesAssumption DEF ScanPlic!TypeOK
    <3>4. \A s \in Srcs : prio[s] >= pth[t] + 1 <=> prio[s] > pth[t]
      BY <3>1, <3>3
    <3>5. irq_out'[t] = ({s \in ip' \cap ie[t] : prio[s] >= pth[t] + 1} # {})
      BY <1>1, <3>2 DEF ScanPlic!scan_int_lines
    <3>6. irq_out'[t] = (\E s \in ip' \cap ie[t] : prio[s] > pth[t])
      BY <2>1, <3>4, <3>5
    <3> QED
      BY <2>1, <3>6
  <2>7. ScanPlic!GatewayShut /\ ScanPlic!ActiveWasPending
    BY <1>1 DEF ScanPlic!scan_int_lines, ScanPlic!claim, ScanPlic!complete
  <2>8. ScanPlic!UnseenExplained
    BY <2>5 DEF ScanPlic!UnseenExplained
  <2>9. ScanPlic!WrongOnlyBySoftware
    BY <1>1, <2>6 DEF ScanPlic!WrongOnlyBySoftware
  <2> QED
    BY <2>4, <2>7, <2>8, <2>9 DEF ScanStepOK
<1>2. ASSUME ScanPlic!ConfigWrite PROVE ScanPlic!TypeOK' /\ ScanStepOK
  <2>1. prio' \in [Srcs -> 0..MaxLevel] /\ ip' \subseteq Srcs
    BY <1>2 DEF ScanPlic!ConfigWrite, ScanPlic!TypeOK
  <2>2. ie' \in [Targets -> SUBSET Srcs]
    BY <1>2 DEF ScanPlic!ConfigWrite, ScanPlic!TypeOK
  <2>3. pth' \in [Targets -> 0..MaxLevel]
    BY <1>2 DEF ScanPlic!ConfigWrite, ScanPlic!TypeOK
  <2>4. UNCHANGED <<irq_srcs_i, scan_due, srcs_d, set_, ia_, id_, irq_out>>
    BY <1>2 DEF ScanPlic!ConfigWrite
  <2>5. ScanPlic!TypeOK'
    BY <2>1, <2>2, <2>3, <2>4 DEF ScanPlic!TypeOK
  <2>6. ScanPlic!UnseenExplained
    BY <1>2, <2>4 DEF ScanPlic!UnseenExplained, ScanPlic!Unseen
  <2>7. ScanPlic!WrongOnlyBySoftware /\ ScanPlic!GatewayShut /\ ScanPlic!ActiveWasPending
    BY <2>4
  <2> QED
    BY <2>5, <2>6, <2>7 DEF ScanStepOK
<1>3. ASSUME NEW v \in SUBSET Srcs, ScanPlic!LinesChange(v)
      PROVE  ScanPlic!TypeOK' /\ ScanStepOK
  BY <1>3, ZenonT(60) DEF ScanPlic!LinesChange, ScanPlic!TypeOK
<1>4. ASSUME NEW v \in SUBSET Srcs, ScanPlic!CompleteWrite(v)
      PROVE  ScanPlic!TypeOK' /\ ScanStepOK
  BY <1>4 DEF ScanPlic!CompleteWrite, ScanPlic!complete, ScanPlic!TypeOK
<1>5. ASSUME NEW t \in Targets, ScanPlic!ClaimRead(t) PROVE ScanPlic!TypeOK' /\ ScanStepOK
  BY <1>5 DEF ScanPlic!ClaimRead, ScanPlic!claim, ScanPlic!TypeOK
<1> QED
  BY <1>1, <1>2, <1>3, <1>4, <1>5 DEF ScanPlic!Next

LEMMA ScanRests ==
  ASSUME UNCHANGED scan
  PROVE  (ScanPlic!TypeOK => ScanPlic!TypeOK') /\ ScanStepOK
BY DEF scan, ScanPlic!TypeOK, ScanStepOK, ScanPlic!UnseenExplained, ScanPlic!Unseen,
       ScanPlic!WrongOnlyBySoftware, ScanPlic!GatewayShut, ScanPlic!ActiveWasPending

-----------------------------------------------------------------------------
(* The SiFive GPIO. *)
IofInv == IofGpio!TypeOK /\ IofGpio!GpioPinsFollow

IofRegs == [IofGpio!OutRegs -> SUBSET IofPins]
Levels  == {"0", "1", "Z", "X"}

(* A pin for which a level is computed is driven to it, and every pin that is *)
(* handled is driven to some level.                                           *)
LEMMA IofDriven ==
  ASSUME NEW R \in IofRegs, NEW changed \in SUBSET IofPins, NEW p \in changed
  PROVE  /\ IofGpio!Driven(R, changed, p) \in Levels
         /\ \A v : IofGpio!Computed(R, p) = {v} => IofGpio!Driven(R, changed, p) = v
<1> DEFINE before == {q \in changed : q <= p /\ IofGpio!Computed(R, q) # {}}
           first == CHOOSE q \in before : \A r \in before : r <= q
           driven == CHOOSE v \in IofGpio!Computed(R, first) : TRUE
<1>1. \A q : IofGpio!Computed(R, q) \subseteq Levels
  BY DEF IofGpio!Computed, IofGpio!GpioLevel, IofGpio!Level, Levels
<1>2. IofGpio!Driven(R, changed, p) = IF before = {} THEN "X" ELSE driven
  BY DEF IofGpio!Driven
<1>3. /\ before \in SUBSET Nat /\ p \in Nat /\ \A q \in before : q <= p
      /\ \A q \in before : IofGpio!Computed(R, q) # {}
      /\ IofGpio!Computed(R, p) # {} => p \in before
  <2>1. \A q \in changed : q \in Nat
    BY LinesAssumption
  <2> QED
    BY <2>1
<1>4. CASE before = {}
  BY <1>2, <1>3, <1>4 DEF Levels
<1>5. CASE before # {}
  <2> HIDE DEF before
  <2>1. \E q \in before : \A r \in before : r <= q
    BY ONLY <1>3, <1>5, GreatestNatural
  <2>2. first \in before /\ \A r \in before : r <= first
    BY <2>1
  <2> HIDE DEF first
  <2>3. driven \in IofGpio!Computed(R, first)
    BY <1>3, <2>2
  <2>4. ASSUME NEW v, IofGpio!Computed(R, p) = {v} PROVE driven = v
    <3>1. p \in before
      BY <1>3, <2>4
    <3>2. p <= first /\ first <= p /\ first \in Nat
      BY <1>3, <2>2, <3>1
    <3>3. first = p
      BY <1>3, <3>2
    <3> QED
      BY <2>3, <2>4, <3>3
  <2> HIDE DEF driven
  <2> QED
    BY <1>1, <1>2, <1>5, <2>3, <2>4
<1> QED
  BY <1>4, <1>5

(* What update_pins does to the pins it handles and to the others. *)
LEMMA IofUpdate ==
  ASSUME NEW R \in IofRegs, NEW changed \in SUBSET IofPins,
         IofGpio!update_pins(R, changed), IofGpio!TypeOK
  PROVE  /\ drive' \in [IofPins -> {"0", "1", "Z", "X", "none"}]
         /\ \A p \in IofPins \ changed : drive'[p] = drive[p]
         /\ \A p \in changed : \A v : IofGpio!Computed(R, p) = {v} => drive'[p] = v
<1>1. \A p \in changed : IofGpio!Driven(R, changed, p) \in Levels
  BY IofDriven
<1>2. \A p \in changed : \A v : IofGpio!Computed(R, p) = {v} => IofGpio!Driven(R, changed, p) = v
  BY IofDriven
<1>3. drive' = [p \in IofPins |-> IF p \in changed THEN IofGpio!Driven(R, changed, p) ELSE drive[p]]
  BY DEF IofGpio!update_pins
<1> QED
  BY <1>1, <1>2, <1>3 DEF IofGpio!TypeOK, Levels

(* What is computed for a pin that registers or its only function have. *)
LEMMA IofComputed ==
  ASSUME NEW R \in IofRegs, NEW p \in IofPins, IofGpio!TypeOK
  PROVE  /\ p \notin R["iof_en"] => IofGpio!Computed(R, p) = {IofGpio!GpioLevel(R, p)}
         /\ p \in R["iof_en"] \ R["iof_sel"] /\ bound[p] = {0}
              => IofGpio!Computed(R, p) = {IofGpio!Level(p \in last_iof[0])}
BY DEF IofGpio!Computed, IofGpio!ByFunction, IofGpio!Chooses

(* A pin whose five register bits stay is computed as before. *)
LEMMA IofSameBits ==
  ASSUME NEW R \in IofRegs, NEW S \in IofRegs, NEW p \in IofPins,
         \A r \in IofGpio!OutRegs : p \in R[r] <=> p \in S[r]
  PROVE  IofGpio!GpioLevel(R, p) = IofGpio!GpioLevel(S, p)
<1>1. /\ p \in R["output_en"] <=> p \in S["output_en"]
      /\ p \in R["out_xor"] <=> p \in S["out_xor"]
      /\ p \in R["port"] <=> p \in S["port"]
  BY DEF IofGpio!OutRegs
<1> QED
  BY <1>1 DEF IofGpio!GpioLevel, IofGpio!Level

(* Registers that change together with the pins whose bits change keep all   *)
(* pins at what the registers say, or at what their only function sent last. *)
LEMMA IofWritten ==
  ASSUME IofInv, NEW R \in IofRegs, NEW changed \in SUBSET IofPins,
         \A p \in IofPins \ changed : \A r \in IofGpio!OutRegs : p \in R[r] <=> p \in regs[r],
         regs' = R, IofGpio!update_pins(R, changed),
         UNCHANGED <<bound, last_iof, iof_input, iof_o>>,
         input_value' \subseteq IofPins, gpio_in_reset' \in BOOLEAN
  PROVE  IofInv' /\ IofGpio!OffOnlyByOvertaking
<1>1. IofGpio!TypeOK'
  BY IofUpdate DEF IofInv, IofGpio!TypeOK, IofRegs
<1>2. regs \in IofRegs /\ IofGpio!TypeOK
  BY DEF IofInv, IofGpio!TypeOK, IofRegs
<1>3. ASSUME NEW p \in IofPins \ R["iof_en"]
      PROVE  drive'[p] \in {"none", IofGpio!GpioLevel(R, p)}
  <2>1. CASE p \in changed
    BY <1>2, <1>3, <2>1, IofUpdate, IofComputed
  <2>2. CASE p \notin changed
    <3>1. p \notin regs["iof_en"]
      BY <1>3, <2>2 DEF IofGpio!OutRegs
    <3>2. drive[p] \in {"none", IofGpio!GpioLevel(regs, p)}
      BY <1>3, <3>1 DEF IofInv, IofGpio!GpioPinsFollow
    <3>3. IofGpio!GpioLevel(R, p) = IofGpio!GpioLevel(regs, p)
      BY <1>2, <1>3, <2>2, IofSameBits
    <3> QED
      BY <1>2, <1>3, <2>2, <3>2, <3>3, IofUpdate
  <2> QED
    BY <2>1, <2>2
<1>4. ASSUME NEW p \in IofPins, IofGpio!Off(p)' PROVE IofGpio!Off(p)
  <2>1. /\ p \in R["iof_en"] \ R["iof_sel"] /\ bound[p] = {0}
        /\ \A high \in BOOLEAN : iof_input[<<p, 0, high>>] = 0
        /\ drive'[p] # IofGpio!Level(p \in last_iof[0])
    BY <1>4 DEF IofGpio!Off, IofGpio!Level
  <2>2. p \notin changed
    BY <1>2, <2>1, IofUpdate, IofComputed
  <2>3. p \in regs["iof_en"] \ regs["iof_sel"] /\ drive'[p] = drive[p]
    BY <1>2, <2>1, <2>2, IofUpdate DEF IofGpio!OutRegs
  <2> QED
    BY <2>1, <2>3 DEF IofGpio!Off
<1>6. IofGpio!GpioPinsFollow'
  BY <1>3 DEF IofGpio!GpioPinsFollow
<1> QED
  BY <1>1, <1>4, <1>6 DEF IofInv, IofGpio!OffOnlyByOvertaking

LEMMA IofStep == ASSUME IofInv, IofGpio!Next PROVE IofInv' /\ IofGpio!OffOnlyByOvertaking
<1>0. IofGpio!TypeOK
  BY DEF IofInv
<1>1. ASSUME NEW r \in IofGpio!OutRegs, NEW data \in SUBSET IofPins, IofGpio!RegWrite(r, data)
      PROVE  IofInv' /\ IofGpio!OffOnlyByOvertaking
  <2> DEFINE R == [regs EXCEPT ![r] = data]
             changed == (regs[r] \ data) \cup (data \ regs[r])
  <2>1. R \in IofRegs /\ changed \in SUBSET IofPins
    BY <1>0 DEF IofGpio!TypeOK, IofRegs
  <2>2. \A p \in IofPins \ changed : \A q \in IofGpio!OutRegs : p \in R[q] <=> p \in regs[q]
    BY <1>0 DEF IofGpio!TypeOK
  <2>3. /\ regs' = R /\ IofGpio!update_pins(R, changed)
        /\ UNCHANGED <<bound, last_iof, iof_input, iof_o>>
        /\ input_value' \subseteq IofPins /\ gpio_in_reset' \in BOOLEAN
    BY <1>0, <1>1 DEF IofGpio!RegWrite, IofGpio!TypeOK
  <2> HIDE DEF R, changed
  <2> QED
    BY <2>1, <2>2, <2>3, IofWritten
<1>2. ASSUME NEW active \in BOOLEAN, IofGpio!reset_cb(active)
      PROVE  IofInv' /\ IofGpio!OffOnlyByOvertaking
  <2>1. regs' \in IofRegs /\ IofGpio!update_pins(regs', IofPins)
    BY <1>0, <1>2 DEF IofGpio!reset_cb, IofGpio!TypeOK, IofRegs
  <2>2. /\ UNCHANGED <<bound, last_iof, iof_input, iof_o>>
        /\ input_value' \subseteq IofPins /\ gpio_in_reset' \in BOOLEAN
    BY <1>0, <1>2 DEF IofGpio!reset_cb, IofGpio!TypeOK
  <2> QED
    BY <2>1, <2>2, IofWritten
<1>3. ASSUME NEW p \in IofPins, NEW high \in BOOLEAN, IofGpio!PinInput(p, high)
      PROVE  IofInv' /\ IofGpio!OffOnlyByOvertaking
  <2>1. input_value' \subseteq IofPins
    BY <1>0, <1>3 DEF IofGpio!PinInput, IofGpio!TypeOK
  <2>2. iof_o' \subseteq IofPins \X {0, 1}
    BY <1>0, <1>3 DEF IofGpio!PinInput, IofGpio!TypeOK
  <2>3. UNCHANGED <<bound, regs, last_iof, iof_input, drive, gpio_in_reset>>
    BY <1>3 DEF IofGpio!PinInput
  <2>4. IofGpio!TypeOK'
    BY <1>0, <2>1, <2>2, <2>3 DEF IofGpio!TypeOK
  <2>5. IofGpio!GpioPinsFollow'
    BY <2>3 DEF IofInv, IofGpio!GpioPinsFollow, IofGpio!GpioLevel
  <2>6. IofGpio!OffOnlyByOvertaking
    BY <2>3 DEF IofGpio!OffOnlyByOvertaking, IofGpio!Off, IofGpio!Level
  <2> QED
    BY <2>4, <2>5, <2>6 DEF IofInv
<1>4. ASSUME NEW p \in IofPins, NEW n \in {0, 1}, NEW high \in BOOLEAN,
             IofGpio!IofInputBegins(p, n, high)
      PROVE  IofInv' /\ IofGpio!OffOnlyByOvertaking
  <2> DEFINE i == <<p, n, high>>
  <2>1. /\ iof_input' = [iof_input EXCEPT ![i] = @ + 1]
        /\ last_iof' = [last_iof EXCEPT ![n] = IF high THEN @ \cup {p} ELSE @ \ {p}]
        /\ UNCHANGED <<bound, regs, input_value, drive, iof_o, gpio_in_reset>>
    BY <1>4 DEF IofGpio!IofInputBegins
  <2>0. iof_input \in [IofGpio!IofLevels -> Nat] /\ i \in IofGpio!IofLevels
    BY <1>0 DEF IofGpio!TypeOK, IofGpio!IofLevels
  <2>2. /\ iof_input' \in [IofGpio!IofLevels -> Nat] /\ iof_input'[i] # 0
        /\ \A j \in IofGpio!IofLevels : j # i => iof_input'[j] = iof_input[j]
    <3> HIDE DEF i
    <3> QED
      BY <2>0, <2>1
  <2>3. /\ last_iof' \in [{0, 1} -> SUBSET IofPins]
        /\ \A q \in IofPins : (q # p \/ n # 0) => (q \in last_iof'[0]) = (q \in last_iof[0])
    BY <1>0, <2>1 DEF IofGpio!TypeOK
  <2>4. IofGpio!TypeOK'
    BY <1>0, <2>1, <2>2, <2>3 DEF IofGpio!TypeOK
  <2>5. IofGpio!GpioPinsFollow'
    BY <2>1 DEF IofInv, IofGpio!GpioPinsFollow, IofGpio!GpioLevel
  <2>6. ASSUME NEW q \in IofPins, IofGpio!Off(q)' PROVE IofGpio!Off(q)
    <3>1. /\ q \in regs["iof_en"] \ regs["iof_sel"] /\ bound[q] = {0}
          /\ \A h \in BOOLEAN : iof_input'[<<q, 0, h>>] = 0
          /\ drive[q] # IofGpio!Level(q \in last_iof'[0])
      BY <2>1, <2>6 DEF IofGpio!Off, IofGpio!Level
    <3>2. q # p \/ n # 0
      BY <2>2, <3>1
    <3>3. \A h \in BOOLEAN : <<q, 0, h>> \in IofGpio!IofLevels /\ <<q, 0, h>> # i
      BY <3>2 DEF IofGpio!IofLevels
    <3>4. \A h \in BOOLEAN : iof_input[<<q, 0, h>>] = 0
      <4> HIDE DEF i
      <4> QED
        BY <2>2, <3>1, <3>3
    <3> QED
      BY <2>3, <3>1, <3>2, <3>4 DEF IofGpio!Off, IofGpio!Level
  <2> QED
    BY <2>4, <2>5, <2>6 DEF IofInv, IofGpio!OffOnlyByOvertaking
<1>5. ASSUME NEW p \in IofPins, NEW n \in {0, 1}, NEW high \in BOOLEAN,
             IofGpio!IofInputEnds(p, n, high)
      PROVE  IofInv' /\ IofGpio!OffOnlyByOvertaking
  <2> DEFINE i == <<p, n, high>>
  <2>1. /\ iof_input[i] > 0 /\ iof_input' = [iof_input EXCEPT ![i] = @ - 1]
        /\ drive' = IF p \in regs["iof_en"] /\ n = (IF p \in regs["iof_sel"] THEN 1 ELSE 0)
                    THEN [drive EXCEPT ![p] = IofGpio!Level(high)] ELSE drive
        /\ UNCHANGED <<bound, regs, input_value, last_iof, iof_o, gpio_in_reset>>
    BY <1>5 DEF IofGpio!IofInputEnds
  <2>0. /\ iof_input \in [IofGpio!IofLevels -> Nat] /\ i \in IofGpio!IofLevels
        /\ drive \in [IofPins -> {"0", "1", "Z", "X", "none"}]
    BY <1>0 DEF IofGpio!TypeOK, IofGpio!IofLevels
  <2>2. /\ iof_input' \in [IofGpio!IofLevels -> Nat]
        /\ \A j \in IofGpio!IofLevels : j # i => iof_input'[j] = iof_input[j]
    <3> HIDE DEF i
    <3> QED
      BY <2>0, <2>1
  <2>3. IofGpio!TypeOK'
    BY <1>0, <2>1, <2>2 DEF IofGpio!TypeOK, IofGpio!Level
  <2>4. IofGpio!GpioPinsFollow'
    BY <1>0, <2>1 DEF IofInv, IofGpio!GpioPinsFollow, IofGpio!GpioLevel, IofGpio!TypeOK
  <2>5. ASSUME NEW q \in IofPins, IofGpio!Off(q)', ~IofGpio!Off(q)
        PROVE  IofGpio!IofInputEnds(q, 0, q \notin last_iof[0])
    <3>1. /\ q \in regs["iof_en"] \ regs["iof_sel"] /\ bound[q] = {0}
          /\ \A h \in BOOLEAN : iof_input'[<<q, 0, h>>] = 0
          /\ drive'[q] # IofGpio!Level(q \in last_iof[0])
      BY <2>1, <2>5 DEF IofGpio!Off, IofGpio!Level
    <3>2. CASE q # p \/ n # 0
      <4>1. drive'[q] = drive[q]
        BY <2>0, <2>1, <3>1, <3>2
      <4>2. \A h \in BOOLEAN : <<q, 0, h>> \in IofGpio!IofLevels /\ <<q, 0, h>> # i
        BY <3>2 DEF IofGpio!IofLevels
      <4>3. \A h \in BOOLEAN : iof_input[<<q, 0, h>>] = 0
        <5> HIDE DEF i
        <5> QED
          BY <2>2, <3>1, <4>2
      <4> QED
        BY <2>5, <3>1, <4>1, <4>3 DEF IofGpio!Off
    <3>3. CASE q = p /\ n = 0
      <4>1. drive'[q] = IofGpio!Level(high)
        BY <2>0, <2>1, <3>1, <3>3
      <4>2. high = (q \notin last_iof[0])
        BY <3>1, <4>1 DEF IofGpio!Level
      <4> QED
        BY <1>5, <3>3, <4>2
    <3> QED
      BY <3>2, <3>3
  <2> QED
    BY <2>3, <2>4, <2>5 DEF IofInv, IofGpio!OffOnlyByOvertaking
<1> QED
  BY <1>1, <1>2, <1>3, <1>4, <1>5 DEF IofGpio!Next

LEMMA IofRests ==
  ASSUME UNCHANGED iof
  PROVE  (IofInv => IofInv') /\ IofGpio!OffOnlyByOvertaking
<1>1. IofGpio!TypeOK => IofGpio!TypeOK'
  BY DEF iof, IofGpio!TypeOK
<1>2. IofGpio!GpioPinsFollow => IofGpio!GpioPinsFollow'
  BY DEF iof, IofGpio!GpioPinsFollow, IofGpio!GpioLevel
<1>3. IofGpio!OffOnlyByOvertaking
  BY DEF iof, IofGpio!OffOnlyByOvertaking, IofGpio!Off, IofGpio!Level
<1> QED
  BY <1>1, <1>2, <1>3 DEF IofInv

-----------------------------------------------------------------------------
(* The blocks together: the inductive invariant behind OutputsFollow. *)
LinesInv == IrqInv /\ GpioInv /\ IofInv /\ PadInv /\ PulpInv /\ ClaimInv /\ ScanPlic!TypeOK

LEMMA LinesInitInv == Init => LinesInv
<1> SUFFICES ASSUME Init PROVE LinesInv
  OBVIOUS
<1>1. IrqInv
  BY DEF Init, Irq!Init, IrqInv, Irq!TypeOK, Irq!Silent
<1>2. GpioInv
  <2>1. <<>> \in Seq(SUBSET GpioPins)
    OBVIOUS
  <2> QED
    BY <2>1 DEF Init, Gpio!Init, GpioInv, Gpio!TypeOK, Gpio!PinsFollow
<1>3. IofInv
  BY DEF Init, IofGpio!Init, IofInv, IofGpio!TypeOK, IofGpio!GpioPinsFollow, IofGpio!OutRegs
<1>4. PadInv
  <2>1. PadGpio!None \in [PadGpio!Banks -> SUBSET PadBits] /\ PadGpio!None["hi"] = {}
    BY DEF PadGpio!None, PadGpio!Banks
  <2>2. [p \in PadGpio!Pads |-> 0] \in [PadGpio!Pads -> 0..3]
    OBVIOUS
  <2> QED
    BY <2>1, <2>2 DEF Init, PadGpio!Init, PadInv, PadGpio!TypeOK, PadGpio!HighBankIsMute
<1>5. PulpInv
  BY DEF Init, PulpGpio!Init, PulpInv, PulpGpio!TypeOK, PulpGpio!OutputIsStatus, PulpGpio!IntType
<1>6. ClaimInv
  <2>1. 0 \in 0..MaxPrio /\ 0 \in 0..(LastSource - 1)
    BY LinesAssumption
  <2> QED
    BY <2>1 DEF Init, ClaimPlic!Init, ClaimInv, ClaimPlic!TypeOK, ClaimPlic!ClaimUnderInterrupt
<1>7. ScanPlic!TypeOK
  BY LinesAssumption DEF Init, ScanPlic!Init, ScanPlic!TypeOK
<1> QED
  BY <1>1, <1>2, <1>3, <1>4, <1>5, <1>6, <1>7 DEF LinesInv

(* A step moves one block and leaves the others where they are. *)
LEMMA OneMoves ==
  ASSUME [Next]_vars
  PROVE  /\ Irq!Next \/ UNCHANGED irq
         /\ Gpio!Next \/ UNCHANGED gpio
         /\ IofGpio!Next \/ UNCHANGED iof
         /\ PadGpio!Next \/ UNCHANGED pad
         /\ PulpGpio!Next \/ UNCHANGED pulp
         /\ ClaimPlic!Next \/ UNCHANGED claim
         /\ ScanPlic!Next \/ UNCHANGED scan
BY DEF Next, vars

LEMMA LinesNextInv ==
  ASSUME LinesInv, [Next]_vars
  PROVE  /\ LinesInv' /\ Irq!OverlookedOnlyByReset /\ IofGpio!OffOnlyByOvertaking /\ PadStepOK
         /\ PulpGpio!EdgesLostOnlyByRead
         /\ ClaimStepOK /\ ScanStepOK
<1> USE DEF LinesInv
<1>1. IrqInv' /\ Irq!OverlookedOnlyByReset
  BY OneMoves, IrqStep, IrqRests
<1>2. GpioInv'
  BY OneMoves, GpioStep, GpioRests
<1>3. IofInv' /\ IofGpio!OffOnlyByOvertaking
  BY OneMoves, IofStep, IofRests
<1>4. PadInv' /\ PadStepOK
  BY OneMoves, PadStep, PadRests
<1>5. PulpInv' /\ PulpGpio!EdgesLostOnlyByRead
  BY OneMoves, PulpStep, PulpRests
<1>6. ClaimInv' /\ ClaimStepOK
  BY OneMoves, ClaimStep, ClaimRests
<1>7. ScanPlic!TypeOK' /\ ScanStepOK
  BY OneMoves, ScanStep, ScanRests
<1> QED
  BY <1>1, <1>2, <1>3, <1>4, <1>5, <1>6, <1>7

THEOREM LinesInvHolds == Spec => []LinesInv
<1>1. LinesInv /\ [Next]_vars => LinesInv'
  BY LinesNextInv
<1> QED
  BY <1>1, LinesInitInv, PTL DEF Spec

(* What leaves a block agrees with what its registers say, for any number of *)
(* pins and lines and whatever the functions of the pins are bound to.       *)
THEOREM OutputsFollowHolds == Spec => []OutputsFollow
<1>1. LinesInv => OutputsFollow
  BY DEF LinesInv, OutputsFollow, IrqInv, GpioInv, IofInv, PadInv, PulpInv, ClaimInv
<1> QED
  BY <1>1, LinesInvHolds, PTL

(* No method that samples lines overlooks one, and what it has seen is lost  *)
(* only by the hands the modules name, for any number of lines and sources.  *)
THEOREM NothingIsOverlookedHolds == Spec => NothingIsOverlooked
<1>1. LinesInv /\ [Next]_vars =>
        [/\ Irq!OverlookedOnlyByReset
         /\ PadGpio!EdgesAreRecorded /\ PadGpio!InterruptStaysAndIsMissedOnlyByEnable
         /\ PulpGpio!EdgesLostOnlyByRead
         /\ ClaimPlic!UnseenExplained
         /\ ScanPlic!UnseenExplained]_vars
  BY LinesNextInv DEF PadStepOK, ClaimStepOK, ScanStepOK
<1> QED
  BY <1>1, LinesInvHolds, PTL DEF Spec, NothingIsOverlooked

(* Output and registers come apart only by the hands the modules name. *)
THEOREM DisagreementIsExplainedHolds == Spec => DisagreementIsExplained
<1>1. LinesInv /\ [Next]_vars =>
        [/\ IofGpio!OffOnlyByOvertaking
         /\ PadGpio!ApartOnlyByWriteOrReset
         /\ ClaimPlic!IdleInterruptExplained /\ ClaimPlic!SilentOnlyByConfiguration
         /\ ScanPlic!WrongOnlyBySoftware /\ ScanPlic!GatewayShut
         /\ ScanPlic!ActiveWasPending]_vars
  BY LinesNextInv DEF PadStepOK, ClaimStepOK, ScanStepOK
<1> QED
  BY <1>1, LinesInvHolds, PTL DEF Spec, DisagreementIsExplained
-----------------------------------------------------------------------------
(* The channels between software and the threads. *)
Fifos(S) == [q : Seq(S), new : Seq(S), freed : Nat]

Fits(f, depth) == Len(Held(f)) + f.freed <= depth

LEMMA FifoIs ==
  ASSUME NEW S, NEW f \in Fifos(S)
  PROVE  /\ f = [q |-> f.q, new |-> f.new, freed |-> f.freed]
         /\ f.q \in Seq(S) /\ f.new \in Seq(S) /\ f.freed \in Nat
         /\ Len(f.q) \in Nat /\ Len(f.new) \in Nat
         /\ Held(f) \in Seq(S) /\ Len(Held(f)) = Len(f.q) + Len(f.new)
         /\ f.q # <<>> => Len(f.q) > 0
         /\ f.new # <<>> => Len(f.new) > 0
BY DEF Fifos, Held

LEMMA FifoStarts ==
  ASSUME NEW S, NEW depth \in Nat
  PROVE  EmptyFifo \in Fifos(S) /\ Fits(EmptyFifo, depth) /\ EmptyFifo.q = <<>>
<1>1. <<>> \in Seq(S) /\ Len(<<>>) = 0 /\ <<>> \o <<>> = <<>>
  OBVIOUS
<1> QED
  BY <1>1 DEF EmptyFifo, Fifos, Fits, Held

LEMMA FifoWrite ==
  ASSUME NEW S, NEW f \in Fifos(S), NEW x \in S, NEW depth \in Nat, Fits(f, depth),
         NEW w, w = nb_write(f, x, depth)
  PROVE  /\ w \in Fifos(S) /\ Fits(w, depth) /\ w.q = f.q /\ w.freed = f.freed
         /\ num_free(f, depth) \in Nat
         /\ num_free(f, depth) = 0 => w = f
         /\ num_free(f, depth) > 0 => w.new # <<>>
<1>1. /\ f.q \in Seq(S) /\ f.new \in Seq(S) /\ f.freed \in Nat
      /\ Len(f.q) \in Nat /\ Len(f.new) \in Nat /\ Len(Held(f)) = Len(f.q) + Len(f.new)
      /\ f = [q |-> f.q, new |-> f.new, freed |-> f.freed]
  BY FifoIs
<1>2. num_free(f, depth) \in Nat
  BY <1>1 DEF num_free, Fits
<1>3. CASE num_free(f, depth) > 0
  <2>1. w = [q |-> f.q, new |-> Append(f.new, x), freed |-> f.freed]
    BY <1>1, <1>3 DEF nb_write
  <2>2. Append(f.new, x) \in Seq(S) /\ Len(Append(f.new, x)) = Len(f.new) + 1
    BY <1>1
  <2>3. w \in Fifos(S) /\ w.q = f.q /\ w.freed = f.freed /\ w.new = Append(f.new, x)
    BY <1>1, <2>1, <2>2 DEF Fifos
  <2>4. Len(Held(w)) = Len(f.q) + (Len(f.new) + 1)
    BY <2>2, <2>3, FifoIs
  <2>5. Fits(w, depth)
    BY <1>1, <1>3, <2>3, <2>4 DEF Fits, num_free
  <2>6. w.new # <<>>
    BY <1>1, <2>2, <2>3, SMTT(40)
  <2> QED
    BY <1>2, <1>3, <2>3, <2>5, <2>6
<1>4. CASE ~(num_free(f, depth) > 0)
  BY <1>1, <1>2, <1>4 DEF nb_write
<1> QED
  BY <1>3, <1>4

LEMMA FifoRead ==
  ASSUME NEW S, NEW f \in Fifos(S), f.q # <<>>, NEW depth \in Nat, Fits(f, depth),
         NEW r, r = nb_read(f)
  PROVE  /\ r \in Fifos(S) /\ Fits(r, depth)
         /\ r.q = Tail(f.q) /\ r.new = f.new /\ r.freed = f.freed + 1 /\ r.freed > 0
         /\ Head(f.q) \in S
         /\ num_free(r, depth) = num_free(f, depth)
<1>1. /\ f.q \in Seq(S) /\ f.new \in Seq(S) /\ f.freed \in Nat
      /\ Len(f.q) \in Nat /\ Len(f.new) \in Nat /\ Len(Held(f)) = Len(f.q) + Len(f.new)
      /\ f = [q |-> f.q, new |-> f.new, freed |-> f.freed]
  BY FifoIs
<1>2. r = [q |-> Tail(f.q), new |-> f.new, freed |-> f.freed + 1]
  BY <1>1 DEF nb_read
<1>3. Tail(f.q) \in Seq(S) /\ Len(Tail(f.q)) = Len(f.q) - 1 /\ Head(f.q) \in S /\ Len(f.q) > 0
  BY <1>1
<1>4. r \in Fifos(S) /\ r.q = Tail(f.q) /\ r.new = f.new /\ r.freed = f.freed + 1
  BY <1>1, <1>2, <1>3 DEF Fifos
<1>5. Len(Held(r)) = (Len(f.q) - 1) + Len(f.new)
  BY <1>3, <1>4, FifoIs
<1>6. Fits(r, depth)
  BY <1>1, <1>3, <1>4, <1>5 DEF Fits
<1>7. num_free(r, depth) = num_free(f, depth)
  BY <1>1, <1>3, <1>4 DEF num_free
<1> QED
  BY <1>1, <1>3, <1>4, <1>6, <1>7

LEMMA FifoSettles ==
  ASSUME NEW S, NEW f \in Fifos(S), NEW depth \in Nat, Fits(f, depth), NEW s, s = SettledOf(f)
  PROVE  /\ s \in Fifos(S) /\ Fits(s, depth)
         /\ s.q = f.q \o f.new /\ s.new = <<>> /\ s.freed = 0
         /\ f.new = <<>> => s.q = f.q
         /\ f.new # <<>> => s.q # <<>>
         /\ num_free(s, depth) = num_free(f, depth) + f.freed
<1>1. /\ f.q \in Seq(S) /\ f.new \in Seq(S) /\ f.freed \in Nat
      /\ Len(f.q) \in Nat /\ Len(f.new) \in Nat /\ Len(Held(f)) = Len(f.q) + Len(f.new)
      /\ f.new # <<>> => Len(f.new) > 0
  BY FifoIs
<1>2. s = [q |-> f.q \o f.new, new |-> <<>>, freed |-> 0]
  BY DEF SettledOf
<1>3. f.q \o f.new \in Seq(S) /\ Len(f.q \o f.new) = Len(f.q) + Len(f.new)
  BY <1>1
<1>4. s \in Fifos(S) /\ s.q = f.q \o f.new /\ s.new = <<>> /\ s.freed = 0
  <2>1. <<>> \in Seq(S)
    OBVIOUS
  <2> QED
    BY <1>2, <1>3, <2>1 DEF Fifos
<1>5. Len(s.q) = Len(f.q) + Len(f.new)
  BY <1>3, <1>4
<1>6. Len(s.new) = 0
  BY <1>4
<1>7. Fits(s, depth) /\ num_free(s, depth) = num_free(f, depth) + f.freed
  <2>1. Len(Held(s)) = Len(s.q) + Len(s.new)
    BY <1>4, FifoIs
  <2>2. Len(f.q) + Len(f.new) + f.freed <= depth
    BY <1>1 DEF Fits
  <2>3. num_free(s, depth) = depth - Len(s.q) - s.freed - Len(s.new)
    BY DEF num_free
  <2>4. num_free(f, depth) = depth - Len(f.q) - f.freed - Len(f.new)
    BY DEF num_free
  <2>5. ASSUME NEW a \in Nat, NEW b \in Nat, NEW c \in Nat, NEW d \in Nat, a + b + c <= d
        PROVE  (a + b) + 0 + 0 <= d /\ d - (a + b) - 0 - 0 = (d - a - c - b) + c
    BY <2>5
  <2>6. (Len(f.q) + Len(f.new)) + 0 + 0 <= depth
    BY <1>1, <2>2, <2>5
  <2>7. Fits(s, depth)
    BY <1>4, <1>5, <1>6, <2>1, <2>6 DEF Fits
  <2>8. depth - (Len(f.q) + Len(f.new)) - 0 - 0
          = (depth - Len(f.q) - f.freed - Len(f.new)) + f.freed
    <3> DEFINE a == Len(f.q)  b == Len(f.new)  c == f.freed
    <3>1. a \in Nat /\ b \in Nat /\ c \in Nat /\ a + b + c <= depth
      BY <1>1, <2>2
    <3> HIDE DEF a, b, c
    <3>2. depth - (a + b) - 0 - 0 = (depth - a - c - b) + c
      BY <2>5, <3>1
    <3> QED
      BY <3>2 DEF a, b, c
  <2>9. num_free(s, depth) = num_free(f, depth) + f.freed
    BY <1>4, <1>5, <1>6, <2>3, <2>4, <2>8
  <2> QED
    BY <2>7, <2>9
<1>8. f.new = <<>> => s.q = f.q
  BY <1>1, <1>4
<1>9. f.new # <<>> => s.q # <<>>
  BY <1>1, <1>3, <1>4
<1> QED
  BY <1>4, <1>7, <1>8, <1>9

-----------------------------------------------------------------------------
(* The MINRES UART. *)
Messages == [id : Initiators, n : Nat, char : {"x", "nl", "cr"}]

(* The characters p on their way, those taken and dropped and the numbers of *)
(* those written: the order is kept and nothing is lost.                     *)
Streams(p, t, d, w) ==
  /\ p \in Seq(Messages) /\ t \subseteq Initiators \X Nat /\ w \in [Initiators -> Nat]
  /\ \A j, k \in 1..Len(p) : j < k /\ p[j].id = p[k].id => p[j].n < p[k].n
  /\ \A k \in 1..Len(p) : p[k].n <= w[p[k].id] /\ \A x \in t : x[1] = p[k].id => x[2] < p[k].n
  /\ \A x \in t : x[2] <= w[x[1]]
  /\ \A i \in Initiators : \A n \in 1..w[i] :
       <<i, n>> \in t \/ <<i, n>> \in d \/ \E k \in 1..Len(p) : p[k].id = i /\ p[k].n = n

(* The unfinished lines q hold characters that were taken, in order. *)
Collected(q, t) ==
  /\ q \in [Initiators -> Seq(Messages)]
  /\ \A i \in Initiators : \A k \in 1..Len(q[i]) : q[i][k].id = i /\ q[i][k].char = "x" /\ <<i, q[i][k].n>> \in t
  /\ \A i \in Initiators : \A j, k \in 1..Len(q[i]) : j < k => q[i][j].n < q[i][k].n

MuartInv ==
  /\ Muart!TypeOK /\ Muart!NoneForgotten
  /\ int_ctrl = {}
  /\ tx_fifo \in Fifos(Messages) /\ Fits(tx_fifo, TxDepth)
  /\ in_hand = <<>> \/ \E m \in Messages : in_hand = <<m>>
  /\ Streams(Muart!Pipeline, taken, dropped, written) /\ Collected(queues, taken)
  /\ asked # {} => num_free(tx_fifo, TxDepth) # 0

LEMMA MuartChannel ==
  /\ \A f, x, depth : Muart!nb_write(f, x, depth) = nb_write(f, x, depth)
  /\ \A f : Muart!nb_read(f) = nb_read(f) /\ Muart!SettledOf(f) = SettledOf(f)
  /\ \A f : Muart!Held(f) = Held(f) /\ Muart!num_available(f) = Len(f.q)
  /\ \A f, depth : Muart!num_free(f, depth) = num_free(f, depth)
  /\ Muart!EmptyFifo = EmptyFifo
BY DEF Muart!nb_write, nb_write, Muart!nb_read, nb_read, Muart!SettledOf, SettledOf,
       Muart!Held, Held, Muart!num_available, Muart!num_free, num_free,
       Muart!EmptyFifo, EmptyFifo

(* A character written joins those on their way or is dropped. *)
LEMMA StreamGrows ==
  ASSUME NEW p, NEW t, NEW d, NEW w, Streams(p, t, d, w),
         NEW m \in Messages, m.n = w[m.id] + 1, NEW v, v = [w EXCEPT ![m.id] = m.n]
  PROVE  Streams(Append(p, m), t, d, v) /\ Streams(p, t, d \cup {<<m.id, m.n>>}, v)
<1> DEFINE r == Append(p, m)
<1>1. /\ p \in Seq(Messages) /\ t \subseteq Initiators \X Nat /\ w \in [Initiators -> Nat]
      /\ \A j, k \in 1..Len(p) : j < k /\ p[j].id = p[k].id => p[j].n < p[k].n
      /\ \A k \in 1..Len(p) : p[k].n <= w[p[k].id]
      /\ \A k \in 1..Len(p) : \A x \in t : x[1] = p[k].id => x[2] < p[k].n
      /\ \A x \in t : x[2] <= w[x[1]]
      /\ \A i \in Initiators : \A n \in 1..w[i] :
           <<i, n>> \in t \/ <<i, n>> \in d \/ \E k \in 1..Len(p) : p[k].id = i /\ p[k].n = n
  BY DEF Streams
<1>2. m.id \in Initiators /\ m.n \in Nat /\ w[m.id] \in Nat
  BY <1>1 DEF Messages
<1>3. /\ v \in [Initiators -> Nat] /\ v[m.id] = w[m.id] + 1
      /\ \A i \in Initiators : i # m.id => v[i] = w[i]
      /\ \A i \in Initiators : w[i] <= v[i] /\ w[i] \in Nat /\ v[i] \in Nat
  BY <1>1, <1>2
<1>4. /\ r \in Seq(Messages) /\ Len(r) = Len(p) + 1 /\ Len(p) \in Nat
      /\ \A k \in 1..Len(p) : r[k] = p[k]
      /\ r[Len(p) + 1] = m
  BY <1>1
<1>5. \A k \in 1..Len(p) : p[k] \in Messages /\ p[k].id \in Initiators /\ p[k].n \in Nat
  <2>1. \A x \in Messages : x.id \in Initiators /\ x.n \in Nat
    BY DEF Messages
  <2>2. \A k \in 1..Len(p) : p[k] \in Messages
    BY <1>1
  <2> QED
    BY <2>1, <2>2
<1>6. \A x \in t : x[1] \in Initiators /\ x[2] \in Nat
  BY <1>1
<1> HIDE DEF r
<1>7. \A k \in 1..Len(p) : p[k].n <= v[p[k].id] /\ (p[k].id = m.id => p[k].n < m.n)
  BY <1>1, <1>2, <1>3, <1>5
<1>8. \A x \in t : x[2] <= v[x[1]] /\ (x[1] = m.id => x[2] < m.n)
  BY <1>1, <1>2, <1>3, <1>6
<1>9. ASSUME NEW i \in Initiators, NEW n \in 1..v[i]
      PROVE  \/ <<i, n>> \in t \/ <<i, n>> \in d \/ \E k \in 1..Len(p) : p[k].id = i /\ p[k].n = n
             \/ i = m.id /\ n = m.n
  <2>1. n \in 1..w[i] \/ (i = m.id /\ n = m.n)
    BY <1>2, <1>3
  <2> QED
    BY <1>1, <2>1
<1>10. Streams(p, t, d \cup {<<m.id, m.n>>}, v)
  BY <1>1, <1>3, <1>7, <1>8, <1>9 DEF Streams
<1>11. ASSUME NEW j \in 1..Len(r), NEW k \in 1..Len(r), j < k, r[j].id = r[k].id PROVE r[j].n < r[k].n
  <2>1. j \in 1..Len(p)
    BY <1>4, <1>11
  <2>2. CASE k \in 1..Len(p)
    BY <1>1, <1>4, <1>11, <2>1, <2>2
  <2>3. CASE k = Len(p) + 1
    BY <1>4, <1>7, <1>11, <2>1, <2>3
  <2> QED
    BY <1>4, <2>2, <2>3
<1>12. ASSUME NEW k \in 1..Len(r)
       PROVE  r[k].n <= v[r[k].id] /\ \A x \in t : x[1] = r[k].id => x[2] < r[k].n
  <2>1. CASE k \in 1..Len(p)
    BY <1>1, <1>4, <1>7, <2>1
  <2>2. CASE k = Len(p) + 1
    BY <1>2, <1>3, <1>4, <1>8, <2>2
  <2> QED
    BY <1>4, <2>1, <2>2
<1>13. ASSUME NEW i \in Initiators, NEW n \in 1..v[i]
       PROVE  <<i, n>> \in t \/ <<i, n>> \in d \/ \E k \in 1..Len(r) : r[k].id = i /\ r[k].n = n
  <2>1. CASE i = m.id /\ n = m.n
    BY <1>4, <2>1
  <2>2. CASE \E k \in 1..Len(p) : p[k].id = i /\ p[k].n = n
    BY <1>4, <2>2
  <2> QED
    BY <1>9, <2>1, <2>2
<1>14. Streams(r, t, d, v)
  BY <1>1, <1>3, <1>4, <1>8, <1>11, <1>12, <1>13 DEF Streams
<1> QED
  BY <1>10, <1>14 DEF r

(* The oldest character on its way is taken: it is younger than all of its   *)
(* initiator that were taken before.                                         *)
LEMMA StreamMoves ==
  ASSUME NEW p, NEW t, NEW d, NEW w, Streams(p, t, d, w), p # <<>>, NEW m, m = Head(p)
  PROVE  /\ m \in Messages /\ Streams(Tail(p), t \cup {<<m.id, m.n>>}, d, w)
         /\ \A x \in t : x[1] = m.id => x[2] < m.n
<1> DEFINE r == Tail(p)
           s == t \cup {<<m.id, m.n>>}
<1>1. /\ p \in Seq(Messages) /\ t \subseteq Initiators \X Nat /\ w \in [Initiators -> Nat]
      /\ \A j, k \in 1..Len(p) : j < k /\ p[j].id = p[k].id => p[j].n < p[k].n
      /\ \A k \in 1..Len(p) : p[k].n <= w[p[k].id]
      /\ \A k \in 1..Len(p) : \A x \in t : x[1] = p[k].id => x[2] < p[k].n
      /\ \A x \in t : x[2] <= w[x[1]]
      /\ \A i \in Initiators : \A n \in 1..w[i] :
           <<i, n>> \in t \/ <<i, n>> \in d \/ \E k \in 1..Len(p) : p[k].id = i /\ p[k].n = n
  BY DEF Streams
<1>2. /\ r \in Seq(Messages) /\ Len(r) = Len(p) - 1 /\ Len(p) \in Nat \ {0}
      /\ \A k \in 1..Len(r) : r[k] = p[k + 1]
      /\ p[1] = m /\ m \in Messages
  BY <1>1
<1>3. m.id \in Initiators /\ m.n \in Nat
  BY <1>2 DEF Messages
<1> HIDE DEF r
<1>4. s \subseteq Initiators \X Nat
  BY <1>1, <1>3
<1>5. \A x \in t : x[1] = m.id => x[2] < m.n
  BY <1>1, <1>2
<1>6. \A x \in s : x[2] <= w[x[1]]
  BY <1>1, <1>2, <1>3
<1>7. \A x \in s : x \in t \/ (x[1] = m.id /\ x[2] = m.n)
  BY <1>3
<1> HIDE DEF s
<1>8. ASSUME NEW j \in 1..Len(r), NEW k \in 1..Len(r), j < k, r[j].id = r[k].id PROVE r[j].n < r[k].n
  <2>1. j + 1 \in 1..Len(p) /\ k + 1 \in 1..Len(p) /\ j + 1 < k + 1
    BY <1>2, <1>8
  <2>2. r[j] = p[j + 1] /\ r[k] = p[k + 1]
    BY <1>2
  <2> QED
    BY <1>1, <1>8, <2>1, <2>2
<1>9. ASSUME NEW k \in 1..Len(r)
      PROVE  r[k].n <= w[r[k].id] /\ \A x \in s : x[1] = r[k].id => x[2] < r[k].n
  <2>1. k + 1 \in 1..Len(p) /\ 1 \in 1..Len(p) /\ 1 < k + 1 /\ r[k] = p[k + 1]
    BY <1>2
  <2>2. m.id = r[k].id => m.n < r[k].n
    BY <1>1, <1>2, <2>1
  <2>3. r[k].n <= w[r[k].id] /\ \A x \in t : x[1] = r[k].id => x[2] < r[k].n
    BY <1>1, <2>1
  <2> QED
    BY <1>7, <2>2, <2>3
<1>10. ASSUME NEW i \in Initiators, NEW n \in 1..w[i]
       PROVE  <<i, n>> \in s \/ <<i, n>> \in d \/ \E k \in 1..Len(r) : r[k].id = i /\ r[k].n = n
  <2>1. CASE <<i, n>> \in t \/ <<i, n>> \in d
    BY <2>1 DEF s
  <2>2. CASE \E k \in 1..Len(p) : p[k].id = i /\ p[k].n = n
    <3>1. PICK k \in 1..Len(p) : p[k].id = i /\ p[k].n = n
      BY <2>2
    <3>2. CASE k = 1
      BY <1>2, <3>1, <3>2 DEF s
    <3>3. CASE k # 1
      <4>1. k - 1 \in 1..Len(r) /\ r[k - 1] = p[(k - 1) + 1] /\ (k - 1) + 1 = k
        BY <1>2, <3>3
      <4> QED
        BY <3>1, <4>1
    <3> QED
      BY <3>2, <3>3
  <2> QED
    BY <1>1, <2>1, <2>2
<1>11. Streams(r, s, d, w)
  BY <1>1, <1>2, <1>4, <1>6, <1>8, <1>9, <1>10 DEF Streams
<1> QED
  BY <1>2, <1>5, <1>11 DEF r, s

(* And it goes to the line of its initiator. *)
LEMMA LineGrows ==
  ASSUME NEW t, Collected(queues, t), NEW m \in Messages,
         \A x \in t : x[1] = m.id => x[2] < m.n, t = taken, Muart!Collect(m)
  PROVE  Collected(queues', taken') /\ taken' = t \cup {<<m.id, m.n>>}
<1> DEFINE old == queues[m.id]
           line == IF m.char = "nl" THEN <<>>
                   ELSE IF m.char = "cr" THEN old ELSE Append(old, m)
<1>1. /\ m.id \in Initiators /\ m.n \in Nat /\ m.char \in {"x", "nl", "cr"}
      /\ queues \in [Initiators -> Seq(Messages)] /\ old \in Seq(Messages) /\ Len(old) \in Nat
  <2>1. m.id \in Initiators /\ m.n \in Nat /\ m.char \in {"x", "nl", "cr"}
    BY DEF Messages
  <2>2. queues \in [Initiators -> Seq(Messages)]
    BY DEF Collected
  <2>3. old \in Seq(Messages)
    BY <2>1, <2>2
  <2> QED
    BY <2>1, <2>2, <2>3
<1>2. /\ queues' = [queues EXCEPT ![m.id] = line]
      /\ taken' = t \cup {<<m.id, m.n>>}
  BY DEF Muart!Collect, Muart!Name
<1>3. /\ \A k \in 1..Len(old) : old[k].id = m.id /\ old[k].char = "x" /\ <<m.id, old[k].n>> \in t
      /\ \A j, k \in 1..Len(old) : j < k => old[j].n < old[k].n
  BY <1>1 DEF Collected
<1> HIDE DEF old
<1>4. \A k \in 1..Len(old) : old[k].n < m.n
  <2> SUFFICES ASSUME NEW k \in 1..Len(old) PROVE old[k].n < m.n
    OBVIOUS
  <2>1. <<m.id, old[k].n>> \in t /\ <<m.id, old[k].n>>[1] = m.id /\ <<m.id, old[k].n>>[2] = old[k].n
    BY <1>3
  <2> QED
    BY <2>1
<1>5. /\ line \in Seq(Messages)
      /\ \A k \in 1..Len(line) : line[k].id = m.id /\ line[k].char = "x" /\ <<m.id, line[k].n>> \in taken'
      /\ \A j, k \in 1..Len(line) : j < k => line[j].n < line[k].n
  <2>1. CASE m.char = "nl"
    <3>1. line = <<>> /\ line \in Seq(Messages) /\ Len(line) = 0
      BY <2>1
    <3> HIDE DEF line
    <3> QED
      BY <3>1
  <2>2. CASE m.char = "cr"
    BY <1>1, <1>2, <1>3, <2>2
  <2>3. CASE m.char = "x"
    <3>1. line = Append(old, m)
      BY <2>3
    <3> HIDE DEF line
    <3>2. /\ line \in Seq(Messages) /\ Len(line) = Len(old) + 1 /\ line[Len(old) + 1] = m
          /\ \A k \in 1..Len(old) : line[k] = old[k]
      BY <1>1, <3>1
    <3>3. \A k \in 1..Len(line) : k \in 1..Len(old) \/ k = Len(old) + 1
      BY <1>1, <3>2
    <3>4. \A k \in 1..Len(line) : line[k].id = m.id /\ line[k].char = "x" /\ <<m.id, line[k].n>> \in taken'
      BY <1>2, <1>3, <2>3, <3>2, <3>3
    <3>5. ASSUME NEW j \in 1..Len(line), NEW k \in 1..Len(line), j < k PROVE line[j].n < line[k].n
      <4>1. j \in 1..Len(old)
        BY <1>1, <3>2, <3>5
      <4> QED
        BY <1>3, <1>4, <3>2, <3>3, <3>5, <4>1
    <3> QED
      BY <3>2, <3>4, <3>5
  <2> QED
    BY <1>1, <2>1, <2>2, <2>3
<1> HIDE DEF line
<1>6. /\ queues' \in [Initiators -> Seq(Messages)] /\ queues'[m.id] = line
      /\ \A i \in Initiators : i # m.id => queues'[i] = queues[i]
  BY <1>1, <1>2, <1>5
<1>7. ASSUME NEW i \in Initiators
      PROVE  /\ \A k \in 1..Len(queues'[i]) :
                  queues'[i][k].id = i /\ queues'[i][k].char = "x" /\ <<i, queues'[i][k].n>> \in taken'
             /\ \A j, k \in 1..Len(queues'[i]) : j < k => queues'[i][j].n < queues'[i][k].n
  <2>1. CASE i = m.id
    BY <1>5, <1>6, <2>1
  <2>2. CASE i # m.id
    BY <1>2, <1>6, <2>2 DEF Collected
  <2> QED
    BY <2>1, <2>2
<1> QED
  BY <1>2, <1>6, <1>7 DEF Collected

LEMMA PipelineIs ==
  Muart!Pipeline = in_hand \o (tx_fifo.q \o tx_fifo.new) /\ Muart!Pipeline' = in_hand' \o (tx_fifo'.q \o tx_fifo'.new)
BY DEF Muart!Pipeline, Muart!Held

(* Sequences that are joined and taken apart. *)
LEMMA Concats ==
  ASSUME NEW S
  PROVE  /\ \A a \in Seq(S) : <<>> \o a = a /\ a \o <<>> = a
         /\ \A a \in Seq(S) : \A x \in S : Tail(<<x>> \o a) = a /\ Head(<<x>> \o a) = x /\ <<x>> \o a # <<>>
         /\ \A a, b \in Seq(S) : a # <<>> =>
              /\ Head(a \o b) = Head(a) /\ Tail(a \o b) = Tail(a) \o b /\ a \o b # <<>>
              /\ <<Head(a)>> \o (Tail(a) \o b) = a \o b
<1>1. ASSUME NEW a \in Seq(S) PROVE <<>> \o a = a /\ a \o <<>> = a
  OBVIOUS
<1>3. ASSUME NEW a \in Seq(S), NEW x \in S PROVE Tail(<<x>> \o a) = a /\ Head(<<x>> \o a) = x /\ <<x>> \o a # <<>>
  OBVIOUS
<1>4. ASSUME NEW a \in Seq(S), NEW b \in Seq(S), a # <<>>
      PROVE  /\ Head(a \o b) = Head(a) /\ Tail(a \o b) = Tail(a) \o b /\ a \o b # <<>>
             /\ <<Head(a)>> \o (Tail(a) \o b) = a \o b
  <2>1. Head(a \o b) = Head(a) /\ a \o b # <<>>
    BY <1>4
  <2>2. Tail(a \o b) = Tail(a) \o b
    BY <1>4
  <2>3. <<Head(a)>> \o (Tail(a) \o b) = a \o b
    BY <1>4
  <2> QED
    BY <2>1, <2>2, <2>3
<1>5. \A a \in Seq(S) : <<>> \o a = a /\ a \o <<>> = a
  BY <1>1
<1>7. \A a \in Seq(S) : \A x \in S : Tail(<<x>> \o a) = a /\ Head(<<x>> \o a) = x /\ <<x>> \o a # <<>>
  BY <1>3
<1>8. \A a, b \in Seq(S) : a # <<>> =>
        /\ Head(a \o b) = Head(a) /\ Tail(a \o b) = Tail(a) \o b /\ a \o b # <<>>
        /\ <<Head(a)>> \o (Tail(a) \o b) = a \o b
  BY <1>4
<1> QED
  BY <1>5, <1>7, <1>8

LEMMA MuartStep == ASSUME MuartInv, Muart!Next PROVE MuartInv' /\ Muart!DroppedOnlyUnasked
<1>1. /\ tx_fifo \in Fifos(Messages) /\ Fits(tx_fifo, TxDepth) /\ TxDepth \in Nat
      /\ Streams(Muart!Pipeline, taken, dropped, written) /\ Collected(queues, taken)
      /\ int_ctrl = {} /\ bit_true \in BOOLEAN /\ uart_in_reset \in BOOLEAN
      /\ sender \in {"waits", "woken", "runs", "sends"}
      /\ (sender = "sends") <=> (in_hand # <<>>)
      /\ sender = "waits" => tx_fifo.q = <<>>
      /\ in_hand = <<>> \/ \E m \in Messages : in_hand = <<m>>
      /\ asked # {} => num_free(tx_fifo, TxDepth) # 0
  BY SerialAssumption DEF MuartInv, Muart!TypeOK, Muart!NoneForgotten
(* What a step has to show. *)
<1>2. ASSUME tx_fifo' \in Fifos(Messages), Fits(tx_fifo', TxDepth),
             Streams(Muart!Pipeline', taken', dropped', written'), Collected(queues', taken'),
             int_ctrl' = {}, bit_true' \in BOOLEAN, uart_in_reset' \in BOOLEAN,
             sender' \in {"waits", "woken", "runs", "sends"},
             (sender' = "sends") <=> (in_hand' # <<>>),
             sender' = "waits" => tx_fifo'.q = <<>>,
             in_hand' = <<>> \/ \E m \in Messages : in_hand' = <<m>>,
             asked' # {} => num_free(tx_fifo', TxDepth) # 0
      PROVE  MuartInv'
  BY <1>2, MuartChannel DEF MuartInv, Muart!TypeOK, Muart!NoneForgotten, Fits
<1>3. /\ tx_fifo.q \in Seq(Messages) /\ tx_fifo.new \in Seq(Messages)
      /\ tx_fifo.q \o tx_fifo.new \in Seq(Messages)
  <2>1. tx_fifo.q \in Seq(Messages) /\ tx_fifo.new \in Seq(Messages)
    BY <1>1, FifoIs
  <2> QED
    BY <2>1
<1>4. in_hand \in Seq(Messages)
  <2>1. \A m \in Messages : <<m>> \in Seq(Messages)
    OBVIOUS
  <2>2. <<>> \in Seq(Messages)
    OBVIOUS
  <2> QED
    BY <1>1, <2>1, <2>2
<1>5. dropped' = dropped => Muart!DroppedOnlyUnasked
  BY DEF Muart!DroppedOnlyUnasked
<1>6. ASSUME NEW i \in Initiators, NEW c \in Muart!Chars, Muart!TxWrite(i, c)
      PROVE  MuartInv' /\ Muart!DroppedOnlyUnasked
  <2> DEFINE m == [id |-> i, n |-> written[i] + 1, char |-> c]
  <2>1. m \in Messages /\ m.id = i /\ m.n = written[m.id] + 1
    BY <1>1 DEF Messages, Muart!Chars, Streams
  <2>2. /\ tx_fifo' = nb_write(tx_fifo, m, TxDepth) /\ written' = [written EXCEPT ![m.id] = m.n]
        /\ dropped' = IF num_free(tx_fifo, TxDepth) = 0 THEN dropped \cup {<<m.id, m.n>>} ELSE dropped
        /\ UNCHANGED <<bit_true, uart_in_reset, sender, in_hand, queues, int_ctrl, taken>> /\ asked' = {}
    BY <1>6, MuartChannel DEF Muart!TxWrite, Muart!Name
  <2> HIDE DEF m
  <2>3. /\ tx_fifo' \in Fifos(Messages) /\ Fits(tx_fifo', TxDepth) /\ tx_fifo'.q = tx_fifo.q
        /\ num_free(tx_fifo, TxDepth) \in Nat
        /\ num_free(tx_fifo, TxDepth) = 0 => tx_fifo' = tx_fifo
    BY <1>1, <2>1, <2>2, FifoWrite
  <2>4. /\ Streams(Append(Muart!Pipeline, m), taken, dropped, written')
        /\ Streams(Muart!Pipeline, taken, dropped \cup {<<m.id, m.n>>}, written')
    BY <1>1, <2>1, <2>2, StreamGrows
  <2>5. Streams(Muart!Pipeline', taken', dropped', written')
    <3>1. CASE num_free(tx_fifo, TxDepth) = 0
      <4>1. Muart!Pipeline' = Muart!Pipeline
        BY <2>2, <2>3, <3>1, PipelineIs
      <4> QED
        BY <2>2, <2>4, <3>1, <4>1
    <3>2. CASE num_free(tx_fifo, TxDepth) # 0
      <4>1. tx_fifo'.new = Append(tx_fifo.new, m)
        <5>1. tx_fifo' = [tx_fifo EXCEPT !.new = Append(@, m)]
          BY <2>2, <2>3, <3>2 DEF nb_write
        <5> QED
          BY <1>1, <5>1 DEF Fifos
      <4>2. tx_fifo'.q \o tx_fifo'.new = Append(tx_fifo.q \o tx_fifo.new, m)
        <5>1. tx_fifo.q \o Append(tx_fifo.new, m) = Append(tx_fifo.q \o tx_fifo.new, m)
          <6> DEFINE a == tx_fifo.q
                     b == tx_fifo.new
          <6>1. a \in Seq(Messages) /\ b \in Seq(Messages) /\ m \in Messages
            BY <1>3, <2>1
          <6> HIDE DEF a, b
          <6>2. a \o Append(b, m) = Append(a \o b, m)
            BY ONLY <6>1
          <6> QED
            BY <6>2 DEF a, b
        <5> QED
          BY <2>3, <4>1, <5>1
      <4>3. Muart!Pipeline' = Append(Muart!Pipeline, m)
        <5>1. in_hand \o Append(tx_fifo.q \o tx_fifo.new, m) = Append(in_hand \o (tx_fifo.q \o tx_fifo.new), m)
          <6> DEFINE b == tx_fifo.q \o tx_fifo.new
          <6>1. in_hand \in Seq(Messages) /\ b \in Seq(Messages) /\ m \in Messages
            BY <1>3, <1>4, <2>1
          <6> HIDE DEF b
          <6>2. in_hand \o Append(b, m) = Append(in_hand \o b, m)
            BY ONLY <6>1
          <6> QED
            BY <6>2 DEF b
        <5> QED
          BY <2>2, <4>2, <5>1, PipelineIs
      <4> QED
        BY <2>2, <2>4, <3>2, <4>3
    <3> QED
      BY <3>1, <3>2
  <2>6. Muart!DroppedOnlyUnasked
    BY <1>1, <2>2 DEF Muart!DroppedOnlyUnasked
  <2> QED
    BY <1>1, <1>2, <2>2, <2>3, <2>5, <2>6
<1>7. CASE (\E i \in Initiators : Muart!StatusRead(i)) \/ Muart!IntCtrlWrite \/ Muart!reset_cb
  <2>1. /\ UNCHANGED <<bit_true, tx_fifo, sender, in_hand, queues, written, taken, dropped>>
        /\ int_ctrl' = {} /\ uart_in_reset' \in BOOLEAN
        /\ asked' # {} => num_free(tx_fifo, TxDepth) # 0
    <3>1. CASE \E i \in Initiators : Muart!StatusRead(i)
      BY <1>1, <3>1, MuartChannel DEF Muart!StatusRead
    <3>2. CASE Muart!IntCtrlWrite
      BY <1>1, <3>2 DEF Muart!IntCtrlWrite
    <3>3. CASE Muart!reset_cb
      BY <1>1, <3>3 DEF Muart!reset_cb
    <3> QED
      BY <1>7, <3>1, <3>2, <3>3
  <2>2. Muart!Pipeline' = Muart!Pipeline
    BY <2>1, PipelineIs
  <2> QED
    BY <1>1, <1>2, <1>5, <2>1, <2>2
<1>8. CASE Muart!FifoUpdate
  <2>1. /\ tx_fifo' = SettledOf(tx_fifo)
        /\ sender' = IF sender = "waits" /\ tx_fifo.new # <<>> THEN "woken" ELSE sender
        /\ UNCHANGED <<bit_true, uart_in_reset, in_hand, queues, int_ctrl, written, taken, dropped, asked>>
    BY <1>8, MuartChannel DEF Muart!FifoUpdate
  <2>2. /\ tx_fifo' \in Fifos(Messages) /\ Fits(tx_fifo', TxDepth)
        /\ tx_fifo'.q = tx_fifo.q \o tx_fifo.new /\ tx_fifo'.new = <<>>
        /\ tx_fifo.new = <<>> => tx_fifo'.q = tx_fifo.q
        /\ num_free(tx_fifo', TxDepth) = num_free(tx_fifo, TxDepth) + tx_fifo.freed
    <3>1. tx_fifo \in Fifos(Messages) /\ TxDepth \in Nat /\ Fits(tx_fifo, TxDepth)
      BY <1>1
    <3>2. tx_fifo' = SettledOf(tx_fifo)
      BY <2>1
    <3> QED
      BY ONLY <3>1, <3>2, FifoSettles, ZenonT(60)
  <2>3. Muart!Pipeline' = Muart!Pipeline
    <3>1. tx_fifo'.q \o tx_fifo'.new = tx_fifo.q \o tx_fifo.new
      BY <1>3, <2>2
    <3> QED
      BY <2>1, <3>1, PipelineIs
  <2>4. asked' # {} => num_free(tx_fifo', TxDepth) # 0
    <3>1. num_free(tx_fifo, TxDepth) \in Nat
      <4>1. tx_fifo \in Fifos(Messages) /\ TxDepth \in Nat /\ Fits(tx_fifo, TxDepth)
        BY <1>1
      <4>3. Len(Held(tx_fifo)) = Len(tx_fifo.q) + Len(tx_fifo.new) /\ Len(tx_fifo.q) \in Nat
            /\ Len(tx_fifo.new) \in Nat /\ tx_fifo.freed \in Nat
        BY <4>1, FifoIs
      <4>4. Len(Held(tx_fifo)) + tx_fifo.freed <= TxDepth
        BY <4>1 DEF Fits
      <4>5. num_free(tx_fifo, TxDepth) = TxDepth - Len(tx_fifo.q) - tx_fifo.freed - Len(tx_fifo.new)
        BY DEF num_free
      <4>6. \A a, b, c, d \in Nat : a + b + c <= d => d - a - c - b \in Nat
        OBVIOUS
      <4>7. Len(tx_fifo.q) + Len(tx_fifo.new) + tx_fifo.freed <= TxDepth
        BY <4>3, <4>4
      <4>8. TxDepth - Len(tx_fifo.q) - tx_fifo.freed - Len(tx_fifo.new) \in Nat
        BY ONLY <4>1, <4>3, <4>6, <4>7
      <4> QED
        BY <4>5, <4>8
    <3>2. tx_fifo.freed \in Nat
      BY <1>1, FifoIs
    <3> QED
      BY <1>1, <2>1, <2>2, <3>1, <3>2
  <2> QED
    BY <1>1, <1>2, <1>5, <2>1, <2>2, <2>3, <2>4
<1>9. CASE Muart!FrameSent
  <2>1. /\ sender = "sends" /\ sender' = "woken" /\ in_hand' = <<>> /\ Muart!Collect(in_hand[1])
        /\ UNCHANGED <<bit_true, uart_in_reset, tx_fifo, int_ctrl, written, dropped, asked>>
    BY <1>9 DEF Muart!FrameSent
  <2>2. PICK m \in Messages : in_hand = <<m>>
    BY <1>1, <2>1
  <2>3. Muart!Collect(m) /\ Muart!Pipeline' = Tail(Muart!Pipeline) /\ m = Head(Muart!Pipeline) /\ Muart!Pipeline # <<>>
    <3>1. Muart!Collect(m)
      BY <2>1, <2>2
    <3>2. /\ Muart!Pipeline = <<m>> \o (tx_fifo.q \o tx_fifo.new)
          /\ Muart!Pipeline' = <<>> \o (tx_fifo.q \o tx_fifo.new)
      BY <2>1, <2>2, PipelineIs
    <3>3. Muart!Pipeline' = Tail(Muart!Pipeline) /\ m = Head(Muart!Pipeline) /\ Muart!Pipeline # <<>>
      <4> DEFINE s == tx_fifo.q \o tx_fifo.new
      <4>1. s \in Seq(Messages) /\ Muart!Pipeline = <<m>> \o s /\ Muart!Pipeline' = <<>> \o s
        BY <1>3, <3>2
      <4> HIDE DEF s
      <4>2. Tail(<<m>> \o s) = s /\ Head(<<m>> \o s) = m /\ <<m>> \o s # <<>> /\ <<>> \o s = s
        BY <4>1, <2>2, Concats, ZenonT(60)
      <4> QED
        BY <4>1, <4>2
    <3> QED
      BY <3>1, <3>3
  <2>4. /\ Streams(Muart!Pipeline', taken \cup {<<m.id, m.n>>}, dropped, written)
        /\ \A x \in taken : x[1] = m.id => x[2] < m.n
    BY <1>1, <2>3, StreamMoves
  <2>5. Collected(queues', taken') /\ taken' = taken \cup {<<m.id, m.n>>}
    BY <1>1, <2>2, <2>3, <2>4, LineGrows
  <2> QED
    BY <1>1, <1>2, <1>5, <2>1, <2>4, <2>5
<1>10. CASE Muart!transmit_data
  <2>1. /\ sender \in {"woken", "runs"} /\ in_hand = <<>>
        /\ UNCHANGED <<bit_true, uart_in_reset, int_ctrl, written, dropped, asked>>
    BY <1>1, <1>10 DEF Muart!transmit_data
  <2>2. CASE Len(tx_fifo.q) = 0
    <3>1. sender' = "waits" /\ UNCHANGED <<tx_fifo, in_hand, queues, taken>>
      BY <1>10, <2>2, MuartChannel DEF Muart!transmit_data
    <3>2. tx_fifo.q = <<>>
      BY <1>1, <2>2, FifoIs
    <3>3. Muart!Pipeline' = Muart!Pipeline
      BY <3>1, PipelineIs
    <3> QED
      BY <1>1, <1>2, <1>5, <2>1, <3>1, <3>2, <3>3
  <2>3. CASE Len(tx_fifo.q) # 0
    <3> DEFINE m == Head(tx_fifo.q)
    <3>1. tx_fifo.q # <<>>
      BY <2>3
    <3>2. /\ tx_fifo' = nb_read(tx_fifo)
          /\ \/ bit_true /\ sender' = "sends" /\ in_hand' = <<m>> /\ UNCHANGED <<queues, taken>>
             \/ ~bit_true /\ sender' = "runs" /\ Muart!Collect(m) /\ UNCHANGED in_hand
      BY <1>10, <2>3, MuartChannel DEF Muart!transmit_data
    <3>3. /\ tx_fifo' \in Fifos(Messages) /\ Fits(tx_fifo', TxDepth) /\ m \in Messages
          /\ tx_fifo'.q = Tail(tx_fifo.q) /\ tx_fifo'.new = tx_fifo.new
          /\ num_free(tx_fifo', TxDepth) = num_free(tx_fifo, TxDepth)
      BY <1>1, <3>1, <3>2, FifoRead
    <3>4. /\ Muart!Pipeline = tx_fifo.q \o tx_fifo.new
          /\ Muart!Pipeline' = in_hand' \o (Tail(tx_fifo.q) \o tx_fifo.new)
          /\ Tail(tx_fifo.q) \o tx_fifo.new \in Seq(Messages)
          /\ Muart!Pipeline # <<>> /\ m = Head(Muart!Pipeline)
          /\ Tail(Muart!Pipeline) = Tail(tx_fifo.q) \o tx_fifo.new
          /\ <<m>> \o (Tail(tx_fifo.q) \o tx_fifo.new) = Muart!Pipeline
      <4>1. Muart!Pipeline = <<>> \o (tx_fifo.q \o tx_fifo.new)
        BY <2>1, PipelineIs
      <4>2. Muart!Pipeline = tx_fifo.q \o tx_fifo.new
        BY <1>3, <4>1
      <4>3. Muart!Pipeline' = in_hand' \o (Tail(tx_fifo.q) \o tx_fifo.new)
        BY <3>3, PipelineIs
      <4>4. Tail(tx_fifo.q) \in Seq(Messages)
        BY <1>3, <3>1
      <4>5. Tail(tx_fifo.q) \o tx_fifo.new \in Seq(Messages)
        BY <1>3, <4>4
      <4>6. /\ Head(tx_fifo.q \o tx_fifo.new) = m /\ tx_fifo.q \o tx_fifo.new # <<>>
            /\ Tail(tx_fifo.q \o tx_fifo.new) = Tail(tx_fifo.q) \o tx_fifo.new
            /\ <<m>> \o (Tail(tx_fifo.q) \o tx_fifo.new) = tx_fifo.q \o tx_fifo.new
        BY <1>3, <3>1, Concats, ZenonT(60)
      <4> QED
        BY <4>2, <4>3, <4>5, <4>6
    <3> HIDE DEF m
    <3>5. CASE sender' = "sends" /\ in_hand' = <<m>> /\ UNCHANGED <<queues, taken>>
      <4>1. <<m>> # <<>>
        OBVIOUS
      <4>2. (sender' = "sends") <=> (in_hand' # <<>>)
        BY <3>5, <4>1
      <4>3. Muart!Pipeline' = Muart!Pipeline
        BY <3>4, <3>5
      <4> QED
        BY <1>1, <1>2, <1>5, <2>1, <3>3, <3>5, <4>2, <4>3
    <3>6. CASE sender' = "runs" /\ Muart!Collect(m) /\ UNCHANGED in_hand
      <4>1. Muart!Pipeline' = Tail(Muart!Pipeline)
        <5>1. <<>> \o (Tail(tx_fifo.q) \o tx_fifo.new) = Tail(tx_fifo.q) \o tx_fifo.new
          BY <3>4, Concats, ZenonT(60)
        <5> QED
          BY <2>1, <3>4, <3>6, <5>1
      <4>2. /\ Streams(Muart!Pipeline', taken \cup {<<m.id, m.n>>}, dropped, written)
            /\ \A x \in taken : x[1] = m.id => x[2] < m.n
        <5>1. Streams(Muart!Pipeline, taken, dropped, written) /\ Muart!Pipeline # <<>> /\ m = Head(Muart!Pipeline)
          BY <1>1, <3>4
        <5>2. Streams(Tail(Muart!Pipeline), taken \cup {<<m.id, m.n>>}, dropped, written)
              /\ \A x \in taken : x[1] = m.id => x[2] < m.n
          BY ONLY <5>1, StreamMoves, ZenonT(60)
        <5> QED
          BY <4>1, <5>2
      <4>3. Collected(queues', taken') /\ taken' = taken \cup {<<m.id, m.n>>}
        BY <1>1, <3>3, <3>6, <4>2, LineGrows
      <4> QED
        BY <1>1, <1>2, <1>5, <2>1, <3>3, <3>6, <4>2, <4>3
    <3> QED
      BY <3>2, <3>5, <3>6
  <2> QED
    BY <2>2, <2>3
<1> QED
  BY <1>6, <1>7, <1>8, <1>9, <1>10 DEF Muart!Next

LEMMA MuartRests == ASSUME UNCHANGED muart PROVE (MuartInv => MuartInv') /\ Muart!DroppedOnlyUnasked
BY DEF muart, MuartInv, Muart!TypeOK, Muart!NoneForgotten, Muart!Pipeline, Muart!DroppedOnlyUnasked

LEMMA MuartStarts == ASSUME Muart!Init PROVE MuartInv
<1>1. tx_fifo \in Fifos(Messages) /\ Fits(tx_fifo, TxDepth) /\ tx_fifo.q = <<>> /\ tx_fifo.new = <<>>
  BY MuartChannel, FifoStarts, SerialAssumption DEF Muart!Init, EmptyFifo
<1>2. /\ bit_true \in BOOLEAN /\ uart_in_reset = FALSE /\ sender = "waits" /\ in_hand = <<>>
      /\ queues = [i \in Initiators |-> <<>>] /\ int_ctrl = {}
      /\ written = [i \in Initiators |-> 0] /\ taken = {} /\ dropped = {} /\ asked = {}
  BY DEF Muart!Init
<1>3. Collected(queues, taken)
  BY <1>2 DEF Collected
<1>4. Streams(Muart!Pipeline, taken, dropped, written)
  <2>1. Muart!Pipeline = <<>> /\ <<>> \in Seq(Messages) /\ Len(<<>>) = 0
    BY <1>1, <1>2, PipelineIs
  <2>2. \A i \in Initiators : 1..written[i] = {}
    BY <1>2
  <2> QED
    BY <1>2, <2>1, <2>2 DEF Streams
<1>5. (sender = "sends") = (in_hand # <<>>)
  BY <1>2
<1> QED
  BY <1>1, <1>2, <1>3, <1>4, <1>5, MuartChannel DEF MuartInv, Muart!TypeOK, Muart!NoneForgotten, Fits

(* What the invariant says in the words of the module. *)
LEMMA MuartSays == ASSUME MuartInv PROVE Muart!LinesApart /\ Muart!InOrder /\ Muart!NothingLost
<1>1. Streams(Muart!Pipeline, taken, dropped, written) /\ Collected(queues, taken)
  BY DEF MuartInv
<1>2. DOMAIN Muart!Pipeline = 1..Len(Muart!Pipeline)
  BY <1>1 DEF Streams
<1>3. \A i \in Initiators : DOMAIN queues[i] = 1..Len(queues[i])
  BY <1>1 DEF Collected
<1>4. Muart!LinesApart
  BY <1>1, <1>3 DEF Collected, Muart!LinesApart, Muart!Name
<1>5. Muart!InOrder
  BY <1>1, <1>2 DEF Streams, Muart!InOrder
<1>6. Muart!NothingLost
  <2>1. SUFFICES ASSUME NEW i \in Initiators, NEW n \in 1..written[i]
                 PROVE  <<i, n>> \in taken \/ <<i, n>> \in Muart!Names(Muart!Pipeline) \/ <<i, n>> \in dropped
    BY DEF Muart!NothingLost
  <2>2. CASE \E k \in 1..Len(Muart!Pipeline) : Muart!Pipeline[k].id = i /\ Muart!Pipeline[k].n = n
    BY <1>2, <2>2 DEF Muart!Names, Muart!Name
  <2> QED
    BY <1>1, <2>2 DEF Streams
<1> QED
  BY <1>4, <1>5, <1>6

-----------------------------------------------------------------------------
(* The UARTs of SiFive. Unless bits take no time the thread frees one place  *)
(* at a time, and a FIFO that it has emptied is not marked full.             *)
Plain == {"char"}

Instant == kind = "terminal" \/ (kind = "bits" /\ ~bit_time)

SuartInv ==
  /\ Suart!TypeOK
  /\ txfifo \in Fifos(Plain) /\ rxfifo \in Fifos(Plain)
  /\ kind \in Suart!Kinds /\ ticking \in BOOLEAN /\ suart_in_reset \in BOOLEAN /\ full \in BOOLEAN
  /\ txwm \in BOOLEAN /\ rxwm \in BOOLEAN /\ bit_time \in BOOLEAN
  /\ kind = "terminal" => ~bit_time /\ thread # "starts"
  /\ thread = "idle" => bit_time
  /\ thread = "woken" => txfifo.freed = 0
  /\ thread = "runs" => kind = "terminal" \/ (kind = "bits" /\ ~ticking)
  /\ ~Instant => txfifo.freed <= 1
  /\ (~Instant /\ txfifo.q = <<>> /\ txfifo.new = <<>> /\ txfifo.freed > 0) => ~full

SuartExplained ==
  Suart!ForgottenOnlyInIdleBit /\ Suart!DeceivedOnlyByReset /\ Suart!MarkedFullOnlyInNoTime

LEMMA SuartChannel ==
  /\ \A f, x, depth : Suart!nb_write(f, x, depth) = nb_write(f, x, depth)
  /\ \A f : Suart!nb_read(f) = nb_read(f) /\ Suart!SettledOf(f) = SettledOf(f)
  /\ \A f : Suart!Held(f) = Held(f) /\ Suart!num_available(f) = Len(f.q)
  /\ \A f, depth : Suart!num_free(f, depth) = num_free(f, depth)
  /\ \A f : Suart!FullOf(f) = (num_free(f, Depth) = 0)
  /\ Suart!EmptyFifo = EmptyFifo
BY DEF Suart!nb_write, nb_write, Suart!nb_read, nb_read, Suart!SettledOf, SettledOf,
       Suart!Held, Held, Suart!num_available, Suart!num_free, num_free, Suart!FullOf,
       Suart!EmptyFifo, EmptyFifo

(* A step that leaves what the thread works on alone. *)
LEMMA SuartAside ==
  ASSUME SuartInv, UNCHANGED <<kind, txfifo, thread, bit_time>>,
         full' = full \/ (full' = FALSE /\ suart_in_reset' /\ ~suart_in_reset),
         rxfifo' \in Fifos(Plain), Fits(rxfifo', Depth),
         ticking' \in BOOLEAN, suart_in_reset' \in BOOLEAN, txwm' \in BOOLEAN, rxwm' \in BOOLEAN,
         ticking' = ticking \/ thread # "runs",
         txcnt' \in Marks \cup {0}, rxcnt' \in Marks \cup {0}
  PROVE  SuartInv' /\ SuartExplained
<1>1. SuartExplained
  BY DEF SuartExplained, Suart!ForgottenOnlyInIdleBit, Suart!Forgotten,
         Suart!DeceivedOnlyByReset, Suart!Deceived, Suart!MarkedFullOnlyInNoTime, Suart!MarkedFull
<1>2. Suart!TypeOK'
  <2>1. full' \in BOOLEAN
    BY DEF SuartInv
  <2> QED
    BY <2>1, SuartChannel DEF SuartInv, Suart!TypeOK, Fits
<1>3. /\ txfifo' \in Fifos(Plain) /\ kind' \in Suart!Kinds /\ bit_time' \in BOOLEAN /\ full' \in BOOLEAN
      /\ kind' = "terminal" => ~bit_time' /\ thread' # "starts"
      /\ thread' = "idle" => bit_time'
      /\ thread' = "woken" => txfifo'.freed = 0
  BY DEF SuartInv
<1>4. thread' = "runs" => kind' = "terminal" \/ (kind' = "bits" /\ ~ticking')
  BY DEF SuartInv
<1>5. Instant' <=> Instant
  BY DEF Instant
<1>6. ~Instant' => txfifo'.freed <= 1
  BY <1>5 DEF SuartInv
<1>7. (~Instant' /\ txfifo'.q = <<>> /\ txfifo'.new = <<>> /\ txfifo'.freed > 0) => ~full'
  BY <1>5 DEF SuartInv
<1> QED
  BY <1>1, <1>2, <1>3, <1>4, <1>6, <1>7 DEF SuartInv

LEMMA SuartStep == ASSUME SuartInv, Suart!Next PROVE SuartInv' /\ SuartExplained
<1> USE DEF Suart!update_irq, Suart!ie
<1>1. /\ txfifo \in Fifos(Plain) /\ rxfifo \in Fifos(Plain)
      /\ Fits(txfifo, Depth) /\ Fits(rxfifo, Depth) /\ Depth \in Nat /\ Depth > 1
      /\ kind \in {"terminal", "bits", "frames"} /\ ticking \in BOOLEAN
      /\ suart_in_reset \in BOOLEAN /\ full \in BOOLEAN
      /\ txwm \in BOOLEAN /\ rxwm \in BOOLEAN /\ bit_time \in BOOLEAN
      /\ txcnt \in Marks \cup {0} /\ rxcnt \in Marks \cup {0}
      /\ thread \in {"starts", "waits", "woken", "runs", "frame", "idle"}
      /\ txfifo.freed \in Nat /\ "char" \in Plain
  <2>1. txfifo \in Fifos(Plain) /\ rxfifo \in Fifos(Plain)
    BY DEF SuartInv
  <2>2. txfifo.freed \in Nat
    BY <2>1, FifoIs
  <2>3. Fits(txfifo, Depth) /\ Fits(rxfifo, Depth)
    BY SuartChannel DEF SuartInv, Suart!TypeOK, Fits
  <2> QED
    BY <2>1, <2>2, <2>3, SerialAssumption DEF SuartInv, Suart!TypeOK, Suart!Kinds, Plain
<1>2. /\ kind = "terminal" => ~bit_time /\ thread # "starts"
      /\ thread = "idle" => bit_time
      /\ thread = "woken" => txfifo.freed = 0
      /\ thread = "runs" => kind = "terminal" \/ (kind = "bits" /\ ~ticking)
      /\ ~Instant => txfifo.freed <= 1
      /\ (~Instant /\ txfifo.q = <<>> /\ txfifo.new = <<>> /\ txfifo.freed > 0) => ~full
  BY DEF SuartInv
(* What a step of the transmitting side has to show. *)
<1>3. ASSUME txfifo' \in Fifos(Plain), Fits(txfifo', Depth),
             rxfifo' \in Fifos(Plain), Fits(rxfifo', Depth),
             full' \in BOOLEAN, txwm' \in BOOLEAN, bit_time' \in BOOLEAN,
             thread' \in {"starts", "waits", "woken", "runs", "frame", "idle"},
             UNCHANGED <<kind, ticking, suart_in_reset, rxwm, txcnt, rxcnt>>,
             kind = "terminal" => ~bit_time',
             thread' = "starts" => thread = "starts",
             thread' = "idle" => bit_time',
             thread' = "woken" => txfifo'.freed = 0,
             thread' = "runs" => kind = "terminal" \/ (kind = "bits" /\ ~ticking),
             ~Instant' => txfifo'.freed <= 1,
             (~Instant' /\ txfifo'.q = <<>> /\ txfifo'.new = <<>> /\ txfifo'.freed > 0) => ~full'
      PROVE  SuartInv'
  <2>1. Suart!TypeOK'
    BY <1>1, <1>3, SuartChannel DEF Suart!TypeOK, Fits
  <2>2. /\ kind' \in Suart!Kinds
        /\ kind' = "terminal" => ~bit_time' /\ thread' # "starts"
        /\ thread' = "runs" => kind' = "terminal" \/ (kind' = "bits" /\ ~ticking')
    BY <1>1, <1>2, <1>3 DEF Suart!Kinds
  <2> QED
    BY <1>1, <1>3, <2>1, <2>2 DEF SuartInv
<1>11. UNCHANGED <<kind, bit_time>> => (Instant' <=> Instant)
  BY DEF Instant
<1>4. CASE Suart!Txdata
  <2>1. /\ txfifo' = nb_write(txfifo, "char", Depth)
        /\ full' <=> (num_free(txfifo', Depth) = 0)
        /\ UNCHANGED <<kind, ticking, suart_in_reset, rxfifo, thread, bit_time, txcnt, rxcnt, rxwm>>
    BY <1>4, SuartChannel DEF Suart!Txdata
  <2>0. full' \in BOOLEAN /\ txwm' \in BOOLEAN
    BY <1>4 DEF Suart!Txdata, Suart!TxwmOf, Suart!FullOf
  <2>2. /\ txfifo' \in Fifos(Plain) /\ Fits(txfifo', Depth)
        /\ txfifo'.q = txfifo.q /\ txfifo'.freed = txfifo.freed
        /\ num_free(txfifo, Depth) \in Nat
        /\ num_free(txfifo, Depth) = 0 => txfifo' = txfifo
        /\ num_free(txfifo, Depth) > 0 => txfifo'.new # <<>>
    BY <1>1, <2>1, FifoWrite
  <2>3. ASSUME txfifo'.q = <<>>, txfifo'.new = <<>>, txfifo.freed <= 1 PROVE FALSE
    <3>1. txfifo' = txfifo /\ num_free(txfifo, Depth) = 0
      BY <2>2, <2>3
    <3>2. Len(txfifo.q) = 0 /\ Len(txfifo.new) = 0
      BY <2>2, <2>3, <3>1
    <3>3. num_free(txfifo, Depth) = Depth - Len(txfifo.q) - txfifo.freed - Len(txfifo.new)
      BY DEF num_free
    <3>4. num_free(txfifo, Depth) = Depth - 0 - txfifo.freed - 0
      BY <3>2, <3>3
    <3> QED
      BY <1>1, <2>3, <3>1, <3>4
  <2>4. SuartInv'
    <3>1. Instant' <=> Instant
      BY <1>11, <2>1
    <3>2. ~Instant' => txfifo'.freed <= 1
      BY <1>2, <2>2, <3>1
    <3>3. ~(~Instant' /\ txfifo'.q = <<>> /\ txfifo'.new = <<>>)
      BY <1>2, <2>3, <3>1
    <3> QED
      BY <1>1, <1>2, <1>3, <2>0, <2>1, <2>2, <3>2, <3>3
  <2>5. ~Suart!Forgotten' \/ Suart!Forgotten
    BY <2>1, <2>2 DEF Suart!Forgotten
  <2>6. ~Suart!Deceived'
    BY <2>1, SuartChannel DEF Suart!Deceived
  <2>7. ~Suart!MarkedFull'
    <3> SUFFICES ASSUME txfifo' = EmptyFifo PROVE FALSE
      BY SuartChannel DEF Suart!MarkedFull
    <3>1. txfifo'.q = <<>> /\ txfifo'.new = <<>> /\ txfifo.freed = 0
      BY <2>2 DEF EmptyFifo
    <3> QED
      BY <2>3, <3>1
  <2> QED
    BY <2>4, <2>5, <2>6, <2>7 DEF SuartExplained, Suart!ForgottenOnlyInIdleBit,
       Suart!DeceivedOnlyByReset, Suart!MarkedFullOnlyInNoTime
<1>5. CASE Suart!Rxdata \/ Suart!receive_data
  <2>1. /\ UNCHANGED <<kind, ticking, suart_in_reset, txfifo, thread, bit_time, full, txwm, txcnt, rxcnt>>
        /\ rxwm' \in BOOLEAN
        /\ rxfifo' = rxfifo \/ rxfifo' = nb_write(rxfifo, "char", Depth)
             \/ (rxfifo.q # <<>> /\ rxfifo' = nb_read(rxfifo))
    <3>1. CASE Suart!Rxdata
      <4>1. CASE Len(rxfifo.q) > 0
        <5>1. rxfifo' = nb_read(rxfifo) /\ rxwm' = (rxwm \/ rxcnt <= Len(rxfifo'.q))
          BY <3>1, <4>1, SuartChannel DEF Suart!Rxdata
        <5>2. rxwm' \in BOOLEAN
          BY <5>1
        <5>3. rxfifo.q # <<>>
          BY <4>1
        <5> QED
          BY <3>1, <5>1, <5>2, <5>3 DEF Suart!Rxdata
      <4>2. CASE ~(Len(rxfifo.q) > 0)
        <5>1. UNCHANGED <<rxfifo, rxwm>>
          BY <3>1, <4>2, SuartChannel DEF Suart!Rxdata
        <5> QED
          BY <1>1, <3>1, <5>1 DEF Suart!Rxdata
      <4> QED
        BY <4>1, <4>2
    <3>2. CASE Suart!receive_data
      BY <3>2, SuartChannel DEF Suart!receive_data
    <3> QED
      BY <1>5, <3>1, <3>2
  <2>2. rxfifo' \in Fifos(Plain) /\ Fits(rxfifo', Depth)
    <3>1. CASE rxfifo' = nb_write(rxfifo, "char", Depth)
      BY <1>1, <3>1, FifoWrite
    <3>2. CASE rxfifo.q # <<>> /\ rxfifo' = nb_read(rxfifo)
      BY <1>1, <3>2, FifoRead
    <3> QED
      BY <1>1, <2>1, <3>1, <3>2
  <2> QED
    BY <1>1, <2>1, <2>2, SuartAside
<1>6. CASE (\E a \in {"txdata", "rxdata"} : Suart!AccessWaits(a))
             \/ Suart!IrqWrite \/ Suart!CtrlWrite \/ Suart!clock_cb \/ Suart!reset_cb
  <2>1. /\ UNCHANGED <<kind, txfifo, rxfifo, thread, bit_time>>
        /\ full' = full \/ (full' = FALSE /\ suart_in_reset' /\ ~suart_in_reset)
        /\ ticking' \in BOOLEAN /\ suart_in_reset' \in BOOLEAN /\ txwm' \in BOOLEAN /\ rxwm' \in BOOLEAN
        /\ txcnt' \in Marks \cup {0} /\ rxcnt' \in Marks \cup {0}
        /\ ticking' = ticking \/ Suart!clock_cb
    <3>0. CASE \E a \in {"txdata", "rxdata"} : Suart!AccessWaits(a)
      BY <1>1, <3>0 DEF Suart!AccessWaits
    <3>1. CASE Suart!IrqWrite
      BY <1>1, <3>1 DEF Suart!IrqWrite
    <3>2. CASE Suart!CtrlWrite
      BY <1>1, <3>2 DEF Suart!CtrlWrite
    <3>3. CASE Suart!clock_cb
      BY <1>1, <3>3 DEF Suart!clock_cb
    <3>4. CASE Suart!reset_cb
      <4>1. /\ suart_in_reset' \in BOOLEAN /\ (suart_in_reset' <=> ~suart_in_reset)
            /\ UNCHANGED <<kind, ticking, txfifo, rxfifo, thread, bit_time>>
        BY <1>1, <3>4 DEF Suart!reset_cb
      <4>2. /\ suart_in_reset' => full' = FALSE /\ txwm' = FALSE /\ rxwm' = FALSE /\ txcnt' = 0 /\ rxcnt' = 0
            /\ ~suart_in_reset' => UNCHANGED <<full, txwm, rxwm, txcnt, rxcnt>>
        BY <3>4 DEF Suart!reset_cb
      <4> QED
        BY <1>1, <4>1, <4>2
    <3> QED
      BY <1>6, <3>0, <3>1, <3>2, <3>3, <3>4
  <2>2. ticking' = ticking \/ thread # "runs"
    BY <2>1 DEF Suart!Next, Suart!transmit_data, Suart!clock_cb
  <2> QED
    BY <1>1, <2>1, <2>2, SuartAside
<1>7. CASE Suart!FifoUpdate
  <2>1. /\ txfifo' = SettledOf(txfifo) /\ rxfifo' = SettledOf(rxfifo)
        /\ thread' = IF thread = "starts" THEN "waits"
                     ELSE IF thread = "waits" /\ txfifo.new # <<>> THEN "woken" ELSE thread
        /\ UNCHANGED <<kind, ticking, suart_in_reset, bit_time, full, txwm, rxwm, txcnt, rxcnt>>
    BY <1>7, SuartChannel DEF Suart!FifoUpdate
  <2>2. /\ txfifo' \in Fifos(Plain) /\ Fits(txfifo', Depth) /\ rxfifo' \in Fifos(Plain) /\ Fits(rxfifo', Depth)
        /\ txfifo'.q = txfifo.q \o txfifo.new /\ txfifo'.freed = 0
        /\ txfifo.new = <<>> => txfifo'.q = txfifo.q
        /\ num_free(txfifo', Depth) = num_free(txfifo, Depth) + txfifo.freed
    <3>1. rxfifo' \in Fifos(Plain) /\ Fits(rxfifo', Depth)
      BY <1>1, <2>1, FifoSettles
    <3>2. txfifo' \in Fifos(Plain) /\ Fits(txfifo', Depth)
      BY <1>1, <2>1, FifoSettles
    <3>3. txfifo'.q = txfifo.q \o txfifo.new /\ txfifo'.freed = 0
      BY <1>1, <2>1, FifoSettles, ZenonT(60)
    <3>4. txfifo.new = <<>> => txfifo'.q = txfifo.q
      BY <1>1, <2>1, FifoSettles, ZenonT(60)
    <3>5. num_free(txfifo', Depth) = num_free(txfifo, Depth) + txfifo.freed
      <4>1. txfifo \in Fifos(Plain) /\ Depth \in Nat /\ Fits(txfifo, Depth)
        BY <1>1
      <4>2. txfifo' = SettledOf(txfifo)
        BY <2>1
      <4> QED
        BY ONLY <4>1, <4>2, FifoSettles, ZenonT(60)
    <3> QED
      BY <3>1, <3>2, <3>3, <3>4, <3>5
  <2>3. SuartInv'
    <3>1. /\ thread' = "woken" => txfifo'.freed = 0
          /\ thread' \notin {"woken", "waits"} => thread' = thread
          /\ thread' = "starts" => thread = "starts"
          /\ thread' \in {"starts", "waits", "woken", "runs", "frame", "idle"}
          /\ ~(txfifo'.freed > 0) /\ txfifo'.freed <= 1
      BY <1>1, <2>1, <2>2
    <3>2. thread' = "idle" => bit_time'
      BY <1>2, <2>1, <3>1
    <3>3. thread' = "runs" => kind = "terminal" \/ (kind = "bits" /\ ~ticking)
      BY <1>2, <2>1, <3>1
    <3>4. kind = "terminal" => ~bit_time'
      BY <1>2, <2>1
    <3> QED
      BY <1>1, <1>3, <2>1, <2>2, <3>1, <3>2, <3>3, <3>4
  <2>4. ~Suart!Forgotten' \/ Suart!Forgotten \/ (thread = "starts" /\ kind # "terminal")
    BY <1>2, <2>1, <2>2 DEF Suart!Forgotten
  <2>5. ~Suart!Deceived' \/ Suart!Deceived
    <3>1. num_free(txfifo, Depth) \in Nat
      BY <1>1, FifoWrite
    <3> QED
      BY <1>1, <2>1, <2>2, <3>1, SuartChannel DEF Suart!Deceived
  <2>6. ASSUME Suart!MarkedFull', ~Instant PROVE Suart!MarkedFull
    <3>1. full /\ txfifo'.q = <<>>
      BY <2>1, <2>6, SuartChannel DEF Suart!MarkedFull, EmptyFifo
    <3>2. txfifo.q = <<>> /\ txfifo.new = <<>> /\ txfifo = [q |-> txfifo.q, new |-> txfifo.new, freed |-> txfifo.freed]
      <4>1. /\ txfifo.q \in Seq(Plain) /\ txfifo.new \in Seq(Plain)
            /\ txfifo = [q |-> txfifo.q, new |-> txfifo.new, freed |-> txfifo.freed]
        BY <1>1, FifoIs
      <4>2. txfifo.q \o txfifo.new = <<>>
        BY <2>2, <3>1
      <4>3. txfifo.q = <<>> /\ txfifo.new = <<>>
        BY <4>1, <4>2
      <4> QED
        BY <4>1, <4>3
    <3>3. txfifo.freed = 0
      BY <1>1, <1>2, <2>6, <3>1, <3>2
    <3> QED
      BY <3>1, <3>2, <3>3, SuartChannel DEF Suart!MarkedFull, EmptyFifo
  <2> QED
    BY <2>3, <2>4, <2>5, <2>6 DEF SuartExplained, Suart!ForgottenOnlyInIdleBit,
       Suart!DeceivedOnlyByReset, Suart!MarkedFullOnlyInNoTime, Instant
<1>8. CASE Suart!BitsSent
  <2>1. /\ (thread = "frame" /\ txfifo.freed = 0 /\ thread' = "woken") \/ (thread = "idle" /\ thread' = "waits")
        /\ UNCHANGED <<kind, ticking, suart_in_reset, txfifo, rxfifo, bit_time, full, txwm, rxwm, txcnt, rxcnt>>
    BY <1>8 DEF Suart!BitsSent
  <2>2. SuartInv'
    <3>1. Instant' <=> Instant
      BY <1>11, <2>1
    <3> QED
      BY <1>1, <1>2, <1>3, <2>1, <3>1
  <2>3. Suart!ForgottenOnlyInIdleBit
    BY <1>2, <2>1 DEF Suart!ForgottenOnlyInIdleBit, Suart!Forgotten
  <2> QED
    BY <2>1, <2>2, <2>3 DEF SuartExplained,
       Suart!DeceivedOnlyByReset, Suart!Deceived, Suart!MarkedFullOnlyInNoTime, Suart!MarkedFull
<1>9. CASE Suart!transmit_data
  <2>1. /\ thread \in {"woken", "runs"}
        /\ UNCHANGED <<kind, ticking, suart_in_reset, rxfifo, rxwm, txcnt, rxcnt>>
    BY <1>9 DEF Suart!transmit_data
  <2>2. CASE Len(txfifo.q) > 0
    <3>0. /\ txfifo' = Suart!nb_read(txfifo) /\ full' = Suart!FullOf(txfifo') /\ txwm' = Suart!TxwmOf(txfifo')
          /\ bit_time' = (ticking /\ kind # "terminal")
          /\ thread' = IF bit_time' \/ kind = "frames" THEN "frame" ELSE "runs"
      BY <1>9, <2>2, SuartChannel DEF Suart!transmit_data
    <3>1. /\ txfifo' = nb_read(txfifo) /\ (full' <=> (num_free(txfifo', Depth) = 0))
          /\ bit_time' <=> (ticking /\ kind # "terminal")
          /\ bit_time' \/ kind = "frames" => thread' = "frame"
          /\ ~(bit_time' \/ kind = "frames") => thread' = "runs"
      BY <3>0, SuartChannel
    <3>9. full' \in BOOLEAN /\ txwm' \in BOOLEAN /\ bit_time' \in BOOLEAN
      BY <3>0 DEF Suart!FullOf, Suart!TxwmOf
    <3>2. txfifo.q # <<>>
      BY <2>2
    <3>3. /\ txfifo' \in Fifos(Plain) /\ Fits(txfifo', Depth)
          /\ txfifo'.freed = txfifo.freed + 1 /\ txfifo'.freed > 0
      BY <1>1, <3>1, <3>2, FifoRead
    <3>4. ASSUME ~Instant' PROVE txfifo'.freed = 1
      <4>1. thread = "woken"
        BY <1>1, <1>2, <2>1, <3>1, <3>4 DEF Instant
      <4> QED
        BY <1>2, <3>3, <4>1
    <3>5. ASSUME ~Instant', txfifo'.q = <<>>, txfifo'.new = <<>> PROVE ~full'
      <4>1. Len(txfifo'.q) = 0 /\ Len(txfifo'.new) = 0
        BY <3>5
      <4>2. num_free(txfifo', Depth) = Depth - Len(txfifo'.q) - txfifo'.freed - Len(txfifo'.new)
        BY DEF num_free
      <4>3. num_free(txfifo', Depth) = Depth - 0 - 1 - 0
        <5>1. txfifo'.freed = 1
          BY <3>4, <3>5
        <5> QED
          BY <4>1, <4>2, <5>1
      <4> QED
        BY <1>1, <3>1, <4>3
    <3>6. SuartInv'
      <4>1. kind = "terminal" => ~bit_time'
        BY <3>1
      <4>2. thread' = "runs" => kind = "terminal" \/ (kind = "bits" /\ ~ticking)
        BY <1>1, <3>1
      <4>3. thread' \in {"runs", "frame"}
        BY <3>1, <3>9
      <4>4. ~Instant' => txfifo'.freed <= 1
        BY <3>4
      <4> QED
        BY <1>1, <1>3, <2>1, <3>3, <3>5, <3>9, <4>1, <4>2, <4>3, <4>4
    <3>7. ~Suart!Forgotten' /\ ~Suart!Deceived'
      BY <3>1, SuartChannel DEF Suart!Forgotten, Suart!Deceived
    <3>8. ~Suart!MarkedFull'
      BY <3>3, SuartChannel DEF Suart!MarkedFull, EmptyFifo
    <3> QED
      BY <3>6, <3>7, <3>8 DEF SuartExplained, Suart!ForgottenOnlyInIdleBit,
         Suart!DeceivedOnlyByReset, Suart!MarkedFullOnlyInNoTime
  <2>3. CASE ~(Len(txfifo.q) > 0)
    <3>1. thread' = (IF bit_time THEN "idle" ELSE "waits") /\ UNCHANGED <<txfifo, full, txwm, bit_time>>
      BY <1>9, <2>3, SuartChannel DEF Suart!transmit_data
    <3>2. txfifo.q = <<>>
      BY <1>1, <2>3, FifoIs
    <3>3. SuartInv'
      <4>1. Instant' <=> Instant
        BY <1>11, <2>1, <3>1
      <4>2. thread' \in {"idle", "waits"} /\ (thread' = "idle" => bit_time')
        BY <1>1, <3>1
      <4> QED
        BY <1>1, <1>2, <1>3, <2>1, <3>1, <4>1, <4>2
    <3> QED
      BY <2>1, <3>1, <3>2, <3>3 DEF SuartExplained, Suart!ForgottenOnlyInIdleBit, Suart!Forgotten,
         Suart!DeceivedOnlyByReset, Suart!Deceived, Suart!MarkedFullOnlyInNoTime, Suart!MarkedFull
  <2> QED
    BY <2>2, <2>3
<1> QED
  BY <1>4, <1>5, <1>6, <1>7, <1>8, <1>9
     DEF Suart!Next, Suart!TxdataWrite, Suart!TxdataDelayed, Suart!RxdataRead, Suart!RxdataDelayed

LEMMA SuartRests == ASSUME UNCHANGED suart PROVE (SuartInv => SuartInv') /\ SuartExplained
BY DEF suart, SuartInv, Suart!TypeOK, Instant, SuartExplained, Suart!ForgottenOnlyInIdleBit,
       Suart!Forgotten, Suart!DeceivedOnlyByReset, Suart!Deceived, Suart!MarkedFullOnlyInNoTime, Suart!MarkedFull

LEMMA SuartStarts == ASSUME Suart!Init PROVE SuartInv
<1>1. txfifo \in Fifos(Plain) /\ Fits(txfifo, Depth) /\ txfifo.freed = 0
  BY SuartChannel, FifoStarts, SerialAssumption DEF Suart!Init, EmptyFifo
<1>2. rxfifo \in Fifos(Plain) /\ Fits(rxfifo, Depth)
  BY SuartChannel, FifoStarts, SerialAssumption DEF Suart!Init
<1>3. Suart!TypeOK
  BY <1>1, <1>2, SuartChannel DEF Suart!Init, Suart!TypeOK, Fits
<1>4. thread \in {"starts", "waits"} /\ (kind = "terminal" => thread # "starts")
  BY DEF Suart!Init
<1>5. /\ kind \in Suart!Kinds /\ ticking = FALSE /\ suart_in_reset = FALSE /\ full = FALSE
      /\ txwm = FALSE /\ rxwm = FALSE /\ bit_time = FALSE
  BY DEF Suart!Init
<1>6. thread # "idle" /\ thread # "woken" /\ thread # "runs"
  BY <1>4
<1>7. txfifo.freed <= 1 /\ ~(txfifo.freed > 0)
  BY <1>1
<1> QED
  BY <1>1, <1>2, <1>3, <1>4, <1>5, <1>6, <1>7 DEF SuartInv

-----------------------------------------------------------------------------
(* The UART of Pulpino and the device that reads lines from a pipe. *)
Devices == [pipe : Seq(Nat), stream : Seq(Nat), inbuf : Nat]

PuartInv == Puart!TypeOK /\ device \in Devices

PuartExplained == Puart!UnannouncedOnlyByRead /\ Puart!WrongOnlyByWrite

(* What a report queues, and what a batch of events makes of the pending bits. *)
LEMMA ReportsAreEvents ==
  ASSUME NEW ready \in BOOLEAN
  PROVE  /\ Puart!Reported(ready) \subseteq Puart!SetEvents
         /\ ready /\ "RDATA_AVAILABLE" \in ier => "S_RDATA_AVAILABLE" \in Puart!Reported(ready)
BY DEF Puart!Reported, Puart!SetEvents

LEMMA PendingTells ==
  ASSUME iir \subseteq {1, 2}
  PROVE  /\ Puart!Pending(events) \subseteq {1, 2}
         /\ events \cap {"S_RDATA_AVAILABLE", "S_RLSR_CHANGE"} # {} => 2 \in Puart!Pending(events)
         /\ 2 \in iir /\ 2 \notin Puart!Pending(events) =>
              "R_RDATA_AVAILABLE" \in events /\ events \cap Puart!SetEvents = {}
<1>1. CASE events \cap Puart!SetEvents # {}
  <2>1. Puart!Pending(events) = IF "S_RLSR_CHANGE" \in events THEN {1, 2}
                                ELSE IF "S_RDATA_AVAILABLE" \in events THEN iir \cup {2} ELSE iir \cup {1}
    BY <1>1 DEF Puart!Pending
  <2> QED
    BY <2>1
<1>2. CASE events \cap Puart!SetEvents = {}
  <2>1. Puart!Pending(events) = iir \ ((IF "R_RDATA_AVAILABLE" \in events THEN {2} ELSE {})
                                        \cup (IF "R_TBR_EMPTY" \in events THEN {1} ELSE {}))
    BY <1>2 DEF Puart!Pending
  <2>2. events \cap {"S_RDATA_AVAILABLE", "S_RLSR_CHANGE"} = {}
    BY <1>2 DEF Puart!SetEvents
  <2> QED
    BY <1>2, <2>1, <2>2
<1> QED
  BY <1>1, <1>2

(* The device: a read takes a character, and polling takes all that was typed. *)
LEMMA DeviceTaken ==
  ASSUME device \in Devices
  PROVE  /\ Puart!Taken(device) \in Devices
         /\ Puart!Taken(device).inbuf <= device.inbuf
         /\ Puart!Taken(device).inbuf > 0 <=> (device.inbuf > 0 /\ ~Puart!TakesLast(device))
<1>1. device.inbuf \in Nat /\ device = [pipe |-> device.pipe, stream |-> device.stream, inbuf |-> device.inbuf]
      /\ device.pipe \in Seq(Nat) /\ device.stream \in Seq(Nat)
  BY DEF Devices
<1>2. Puart!Taken(device) = [pipe |-> device.pipe, stream |-> device.stream,
                             inbuf |-> IF device.inbuf > 0 THEN device.inbuf - 1 ELSE 0]
  BY <1>1, SMTT(40) DEF Puart!Taken
<1> QED
  BY <1>1, <1>2 DEF Devices, Puart!TakesLast

LEMMA DeviceSensed ==
  ASSUME device \in Devices, Puart!can_read(device)
  PROVE  /\ Puart!Sensed(device) \in Devices /\ Puart!Line(device) \in Nat
         /\ Puart!Sensed(device).inbuf = device.inbuf + Puart!Line(device)
<1>1. /\ device.inbuf \in Nat /\ device.pipe \in Seq(Nat) /\ device.stream \in Seq(Nat)
      /\ device.pipe # <<>>
  BY DEF Devices, Puart!can_read
<1> DEFINE s == device.stream \o device.pipe
<1>2. s \in Seq(Nat) /\ Len(s) = Len(device.stream) + Len(device.pipe)
  BY <1>1
<1>3. Len(device.pipe) > 0 /\ Len(device.stream) \in Nat /\ Len(device.pipe) \in Nat
  BY <1>1
<1>4. s # <<>>
  BY <1>2, <1>3
<1>5. Puart!Line(device) = Head(s)
      /\ Puart!Sensed(device) = [pipe |-> <<>>, stream |-> Tail(s), inbuf |-> device.inbuf + Head(s)]
  BY DEF Puart!Line, Puart!Sensed
<1> HIDE DEF s
<1>6. Head(s) \in Nat /\ Tail(s) \in Seq(Nat)
  <2>1. s \in Seq(Nat) /\ s # <<>>
    BY <1>2, <1>4
  <2>2. Head(s) \in Nat
    BY ONLY <2>1
  <2>3. Tail(s) \in Seq(Nat)
    BY ONLY <2>1
  <2> QED
    BY <2>2, <2>3
<1>7. <<>> \in Seq(Nat)
  OBVIOUS
<1> QED
  BY <1>1, <1>5, <1>6, <1>7 DEF Devices

(* A step that does not touch the device and queues no more than a change of  *)
(* the transmitter's state.                                                   *)
LEMMA PuartAside ==
  ASSUME PuartInv, device' = device, iir' = iir, puart_irq' = puart_irq,
         dlab' \in BOOLEAN, data_ready' \in BOOLEAN, ier' \subseteq Puart!Enables,
         events' = events \/ events' = events \cup {"R_TBR_EMPTY"}
           \/ events' = events \cup {"R_TBR_EMPTY", "S_TBR_EMPTY"}
  PROVE  PuartInv' /\ PuartExplained
<1>1. Puart!TypeOK'
  BY DEF PuartInv, Puart!TypeOK, Puart!SetEvents, Puart!ResetEvents
<1>2. device.inbuf \in Nat
  BY DEF PuartInv, Devices
<1>3. ASSUME Puart!Unannounced', ier' = ier PROVE Puart!Unannounced /\ ~(device'.inbuf > device.inbuf)
  <2>1. events \subseteq events'
    OBVIOUS
  <2> QED
    BY <1>2, <1>3, <2>1 DEF Puart!Unannounced
<1> QED
  BY <1>1, <1>3 DEF PuartInv, PuartExplained, Puart!UnannouncedOnlyByRead, Puart!WrongOnlyByWrite

LEMMA PuartStep == ASSUME PuartInv, Puart!Next PROVE PuartInv' /\ PuartExplained
<1>1. /\ device \in Devices /\ device.inbuf \in Nat /\ iir \subseteq {1, 2}
      /\ dlab \in BOOLEAN /\ ier \subseteq Puart!Enables /\ data_ready \in BOOLEAN
      /\ puart_irq = (iir # {}) /\ events \subseteq Puart!SetEvents \cup Puart!ResetEvents
  BY DEF PuartInv, Puart!TypeOK, Devices
<1>2. CASE \/ Puart!ThrWrite \/ Puart!IerWrite \/ Puart!LcrWrite \/ Puart!LsrWrite \/ Puart!IirRead
  <2>1. /\ device' = device /\ iir' = iir /\ puart_irq' = puart_irq
        /\ dlab' \in BOOLEAN /\ data_ready' \in BOOLEAN /\ ier' \subseteq Puart!Enables
        /\ events' = events \/ events' = events \cup {"R_TBR_EMPTY"}
             \/ events' = events \cup {"R_TBR_EMPTY", "S_TBR_EMPTY"}
    <3>1. CASE Puart!ThrWrite
      <4>1. events' = events \cup {"R_TBR_EMPTY"} \cup (IF "TBR_EMPTY" \in ier THEN {"S_TBR_EMPTY"} ELSE {})
        BY <3>1 DEF Puart!ThrWrite
      <4>2. events' = events \cup {"R_TBR_EMPTY"} \/ events' = events \cup {"R_TBR_EMPTY", "S_TBR_EMPTY"}
        BY <4>1
      <4> QED
        BY <1>1, <3>1, <4>2 DEF Puart!ThrWrite
    <3>2. CASE Puart!IerWrite
      BY <1>1, <3>2 DEF Puart!IerWrite
    <3>3. CASE Puart!LcrWrite
      BY <1>1, <3>3 DEF Puart!LcrWrite
    <3>4. CASE Puart!LsrWrite
      BY <1>1, <3>4 DEF Puart!LsrWrite
    <3>5. CASE Puart!IirRead
      BY <1>1, <3>5 DEF Puart!IirRead
    <3> QED
      BY <1>2, <3>1, <3>2, <3>3, <3>4, <3>5
  <2> QED
    BY <2>1, PuartAside
<1>3. CASE Puart!RbrRead
  <2>1. /\ device' = Puart!Taken(device)
        /\ data_ready' = (data_ready /\ ~Puart!TakesLast(device))
        /\ events' = events \cup {"R_RDATA_AVAILABLE"}
                       \cup (IF Puart!TakesLast(device) THEN Puart!Reported(FALSE) ELSE {})
        /\ UNCHANGED <<dlab, ier, iir, puart_irq>>
    BY <1>3 DEF Puart!RbrRead
  <2>2. device' \in Devices /\ device'.inbuf \in Nat /\ device'.inbuf <= device.inbuf
        /\ (device'.inbuf > 0 <=> (device.inbuf > 0 /\ ~Puart!TakesLast(device)))
    BY <1>1, <2>1, DeviceTaken DEF Devices
  <2>3. events \subseteq events' /\ events' \subseteq Puart!SetEvents \cup Puart!ResetEvents
    BY <1>1, <2>1, ReportsAreEvents DEF Puart!ResetEvents
  <2>4. PuartInv'
    BY <1>1, <2>1, <2>2, <2>3 DEF PuartInv, Puart!TypeOK
  <2>5. Puart!Unannounced' => Puart!Unannounced
    BY <1>1, <2>1, <2>2, <2>3 DEF Puart!Unannounced
  <2>6. ~(device'.inbuf > device.inbuf)
    BY <1>1, <2>2
  <2>7. Puart!Wrong' => Puart!Wrong
    BY <1>1, <2>1, <2>2 DEF Puart!Wrong, Puart!TakesLast
  <2> QED
    BY <2>4, <2>5, <2>6, <2>7 DEF PuartExplained, Puart!UnannouncedOnlyByRead, Puart!WrongOnlyByWrite
<1>4. CASE Puart!send_interrupt_process
  <2>1. /\ events' = {} /\ iir' = Puart!Pending(events) /\ puart_irq' = (iir' # {})
        /\ UNCHANGED <<dlab, ier, data_ready, device>>
    BY <1>4 DEF Puart!send_interrupt_process
  <2>2. PuartInv'
    BY <1>1, <2>1, PendingTells DEF PuartInv, Puart!TypeOK
  <2>3. ASSUME Puart!Unannounced', ~Puart!Unannounced
        PROVE  "R_RDATA_AVAILABLE" \in events /\ events \cap Puart!SetEvents = {}
    <3>1. events \cap {"S_RDATA_AVAILABLE", "S_RLSR_CHANGE"} = {}
      BY <1>1, <2>1, <2>3, PendingTells DEF Puart!Unannounced
    <3>2. 2 \in iir /\ 2 \notin Puart!Pending(events)
      BY <2>1, <2>3, <3>1 DEF Puart!Unannounced
    <3> QED
      BY <1>1, <3>2, PendingTells
  <2>4. ~(device'.inbuf > device.inbuf)
    BY <1>1, <2>1
  <2> QED
    BY <2>1, <2>2, <2>3, <2>4 DEF PuartExplained, Puart!UnannouncedOnlyByRead, Puart!WrongOnlyByWrite
<1>5. CASE Puart!sense_input
  <2>1. /\ Puart!can_read(device) /\ device' = Puart!Sensed(device)
        /\ UNCHANGED <<dlab, ier, iir, puart_irq>>
    BY <1>5 DEF Puart!sense_input
  <2>2. /\ device' \in Devices /\ Puart!Line(device) \in Nat
        /\ device'.inbuf = device.inbuf + Puart!Line(device)
    BY <1>1, <2>1, DeviceSensed
  <2>3. CASE Puart!Line(device) > 0
    <3>1. data_ready' = TRUE /\ events' = events \cup Puart!Reported(TRUE)
      BY <1>5, <2>3 DEF Puart!sense_input
    <3>2. /\ Puart!Reported(TRUE) \subseteq Puart!SetEvents
          /\ "RDATA_AVAILABLE" \in ier => "S_RDATA_AVAILABLE" \in Puart!Reported(TRUE)
      BY ReportsAreEvents
    <3>3. PuartInv'
      BY <1>1, <2>1, <2>2, <3>1, <3>2 DEF PuartInv, Puart!TypeOK
    <3>4. ~Puart!Unannounced'
      BY <2>1, <3>1, <3>2 DEF Puart!Unannounced
    <3>5. ~Puart!Wrong'
      <4>1. data_ready' /\ device'.inbuf > 0
        BY <1>1, <2>2, <2>3, <3>1
      <4> QED
        BY <4>1 DEF Puart!Wrong
    <3> QED
      BY <3>3, <3>4, <3>5 DEF PuartExplained, Puart!UnannouncedOnlyByRead, Puart!WrongOnlyByWrite
  <2>4. CASE ~(Puart!Line(device) > 0)
    <3>1. UNCHANGED <<data_ready, events>>
      BY <1>5, <2>4 DEF Puart!sense_input
    <3>2. device'.inbuf = device.inbuf
      BY <1>1, <2>2, <2>4
    <3>3. PuartInv'
      BY <1>1, <2>1, <2>2, <3>1 DEF PuartInv, Puart!TypeOK
    <3> QED
      BY <1>1, <2>1, <3>1, <3>2, <3>3 DEF PuartExplained, Puart!UnannouncedOnlyByRead,
         Puart!WrongOnlyByWrite, Puart!Unannounced, Puart!Wrong
  <2> QED
    BY <2>3, <2>4
<1>6. CASE Puart!LineTyped
  <2>1. PICK len \in Lengths : device' = Puart!Typed(device, len)
    BY <1>6 DEF Puart!LineTyped
  <2>2. UNCHANGED <<dlab, ier, data_ready, iir, puart_irq, events>>
    BY <1>6 DEF Puart!LineTyped
  <2>3. device' \in Devices /\ device'.inbuf = device.inbuf
    <3>1. len \in Nat /\ device.pipe \in Seq(Nat) /\ device.stream \in Seq(Nat)
      BY <1>1, SerialAssumption DEF Devices
    <3>2. device' = [pipe |-> Append(device.pipe, len), stream |-> device.stream, inbuf |-> device.inbuf]
      BY <1>1, <2>1 DEF Puart!Typed, Devices
    <3>3. Append(device.pipe, len) \in Seq(Nat)
      BY <3>1
    <3> QED
      BY <1>1, <3>1, <3>2, <3>3 DEF Devices
  <2>4. PuartInv'
    BY <1>1, <2>2, <2>3 DEF PuartInv, Puart!TypeOK
  <2> QED
    BY <1>1, <2>2, <2>3, <2>4 DEF PuartExplained, Puart!UnannouncedOnlyByRead,
       Puart!WrongOnlyByWrite, Puart!Unannounced, Puart!Wrong
<1> QED
  BY <1>2, <1>3, <1>4, <1>5, <1>6 DEF Puart!Next

LEMMA PuartRests == ASSUME UNCHANGED puart PROVE PuartInv => PuartInv' /\ PuartExplained
<1>1. PuartInv => device.inbuf \in Nat
  BY DEF PuartInv, Devices
<1> QED
  BY <1>1 DEF puart, PuartInv, Puart!TypeOK, PuartExplained, Puart!UnannouncedOnlyByRead,
     Puart!WrongOnlyByWrite, Puart!Unannounced, Puart!Wrong

LEMMA PuartStarts == ASSUME Puart!Init PROVE PuartInv
<1>1. <<>> \in Seq(Nat)
  OBVIOUS
<1>2. device \in Devices
  BY <1>1 DEF Puart!Init, Puart!EmptyDevice, Devices
<1> QED
  BY <1>2 DEF PuartInv, Puart!Init, Puart!TypeOK

-----------------------------------------------------------------------------
(* The QSPI controller and the memory. *)
Decoders == [command : {"none", "identify", "WRR"}, operands : 0..3, wren : BOOLEAN]

Sendings == [byte : Written, for_mem : BOOLEAN]

QspiInv ==
  /\ Qspi!TypeOK
  /\ qspi_in_reset \in BOOLEAN /\ selected \in BOOLEAN /\ no_answer \in BOOLEAN
  /\ cmd \in Seq(Sendings) /\ mem_cmd \in Seq(Written)
  /\ \E S : rsp \in Seq(S)
  /\ mem \in Decoders /\ meant \in Decoders

LEMMA DecodedIs ==
  ASSUME NEW m \in Decoders, NEW b
  PROVE  /\ Qspi!Decoded(m, b) \in Decoders
         /\ (m.operands = 0 <=> m.command = "none") =>
              (Qspi!Decoded(m, b).operands = 0 <=> Qspi!Decoded(m, b).command = "none")
<1>1. /\ m.command \in {"none", "identify", "WRR"} /\ m.operands \in 0..3 /\ m.wren \in BOOLEAN
      /\ m = [command |-> m.command, operands |-> m.operands, wren |-> m.wren]
  BY DEF Decoders
<1> DEFINE d == Qspi!Decoded(m, b)
<1>2. CASE m.operands > 0
  <2>1. d = [command |-> IF m.operands = 1 THEN "none" ELSE m.command,
             operands |-> m.operands - 1, wren |-> m.wren]
    BY <1>1, <1>2 DEF Qspi!Decoded
  <2>2. /\ d.command = IF m.operands = 1 THEN "none" ELSE m.command
        /\ d.operands = m.operands - 1 /\ d.wren = m.wren
        /\ d = [command |-> d.command, operands |-> d.operands, wren |-> d.wren]
    <3> HIDE DEF d
    <3> QED
      BY <2>1
  <2> HIDE DEF d
  <2>3. d.command \in {"none", "identify", "WRR"} /\ d.operands \in 0..3 /\ d.wren \in BOOLEAN
    BY <1>1, <1>2, <2>2
  <2>4. d \in Decoders
    BY <2>2, <2>3 DEF Decoders
  <2>5. m.command # "none" => (d.operands = 0 <=> d.command = "none")
    BY <1>1, <1>2, <2>2
  <2> QED
    BY <1>1, <1>2, <2>4, <2>5 DEF d
<1>3. CASE m.operands = 0
  <2>0. ~(m.operands > 0)
    BY <1>3
  <2>1. CASE b = "identify" \/ b = "WRR"
    <3>1. /\ Qspi!Operands.identify = 3 /\ Qspi!Operands.WRR = 2
          /\ b \in DOMAIN Qspi!Operands
      BY <2>1 DEF Qspi!Operands
    <3>2. Qspi!Operands[b] = 2 \/ Qspi!Operands[b] = 3
      BY <2>1, <3>1
    <3>3. d = [command |-> b, operands |-> Qspi!Operands[b], wren |-> m.wren]
      <4> HIDE DEF Qspi!Operands
      <4> QED
        BY <1>1, <2>0, <3>1 DEF Qspi!Decoded
    <3> HIDE DEF d
    <3>4. d \in Decoders /\ d.operands # 0 /\ d.command # "none"
      BY <1>1, <2>1, <3>2, <3>3 DEF Decoders
    <3> QED
      BY <3>4 DEF d
  <2>2. CASE ~(b = "identify" \/ b = "WRR")
    <3>1. b \notin DOMAIN Qspi!Operands
      BY <2>2 DEF Qspi!Operands
    <3>2. d = IF b = "WREN" THEN [m EXCEPT !.wren = TRUE]
              ELSE IF b = "WRDI" THEN [m EXCEPT !.wren = FALSE]
              ELSE m
      BY <2>0, <3>1 DEF Qspi!Decoded
    <3>3. \A w \in BOOLEAN : [m EXCEPT !.wren = w] = [command |-> m.command, operands |-> m.operands, wren |-> w]
      BY m \in Decoders DEF Decoders
    <3>4. \E w \in BOOLEAN : d = [command |-> m.command, operands |-> m.operands, wren |-> w]
      <4> HIDE DEF d
      <4> QED
        BY <1>1, <3>2, <3>3
    <3> HIDE DEF d
    <3>5. d \in Decoders /\ d.command = m.command /\ d.operands = m.operands
      BY <1>1, <3>4 DEF Decoders
    <3> QED
      BY <3>5 DEF d
  <2> QED
    BY <2>1, <2>2
<1> QED
  BY <1>1, <1>2, <1>3

(* What the decoder makes of one byte of the channel, and of a sequence of them. *)
Seen(m, x) == IF x.for_mem THEN Qspi!Decoded(m, x.byte) ELSE m

Sees(g, m, s) == g[0] = m /\ \A k \in 1..Len(s) : g[k] = Seen(g[k - 1], s[k])

LEMMA DecoderRuns ==
  ASSUME NEW N \in Nat, NEW m \in Decoders, NEW step \in [Decoders \X (1..N) -> Decoders]
  PROVE  \E g \in [0..N -> Decoders] : g[0] = m /\ \A k \in 1..N : g[k] = step[<<g[k - 1], k>>]
<1> DEFINE Run(g, a, f) == g[0] = a /\ \A k \in 1..N : g[k] = f[<<g[k - 1], k>>]
<1>1. \A S : \A a \in S, f \in [S \X (1..N) -> S] : \E g \in [0..N -> S] : Run(g, a, f)
  BY LoopHasRun
<1>2. \E g \in [0..N -> Decoders] : Run(g, m, step)
  <2> HIDE DEF Run
  <2> QED
    BY <1>1, Zenon
<1> QED
  BY <1>2

LEMMA SomethingSees ==
  ASSUME NEW m \in Decoders, NEW s \in Seq(Sendings)
  PROVE  \E g \in [0..Len(s) -> Decoders] : Sees(g, m, s)
<1> DEFINE N == Len(s)
           step == [p \in Decoders \X (1..N) |-> Seen(p[1], s[p[2]])]
<1>1. N \in Nat
  OBVIOUS
<1>2. step \in [Decoders \X (1..N) -> Decoders]
  <2>1. \A d \in Decoders : \A x : Seen(d, x) \in Decoders
    BY DecodedIs DEF Seen
  <2> QED
    BY <2>1
<1>3. \A d \in Decoders, k \in 1..N : step[<<d, k>>] = Seen(d, s[k])
  OBVIOUS
<1> HIDE DEF N, step
<1>4. PICK g \in [0..N -> Decoders] : g[0] = m /\ \A k \in 1..N : g[k] = step[<<g[k - 1], k>>]
  BY <1>1, <1>2, DecoderRuns, ZenonT(60)
<1>5. ASSUME NEW k \in 1..N PROVE g[k] = Seen(g[k - 1], s[k])
  <2>1. g[k - 1] \in Decoders
    BY <1>1
  <2> QED
    BY <1>3, <1>4, <2>1
<1> QED
  BY <1>4, <1>5 DEF Sees, N

LEMMA AfterIs ==
  ASSUME NEW m \in Decoders, NEW s \in Seq(Sendings), NEW g, Sees(g, m, s)
  PROVE  Qspi!After(m, s) = g[Len(s)]
<1> DEFINE N == Len(s)
           IsAfter(f) == f = [k \in 0..N |->
                               IF k = 0 THEN m
                               ELSE IF s[k].for_mem THEN Qspi!Decoded(f[k - 1], s[k].byte)
                               ELSE f[k - 1]]
           after == CHOOSE f : IsAfter(f)
           P == {k \in 0..N : after[k] = g[k]}
<1>1. N \in Nat
  OBVIOUS
<1>2. \E f : IsAfter(f)
  <2> DEFINE f == [k \in 0..N |-> g[k]]
  <2>1. ASSUME NEW k \in 0..N
        PROVE  f[k] = IF k = 0 THEN m
                      ELSE IF s[k].for_mem THEN Qspi!Decoded(f[k - 1], s[k].byte)
                      ELSE f[k - 1]
    <3>1. CASE k = 0
      BY <3>1 DEF Sees
    <3>2. CASE k # 0
      <4>1. k \in 1..N /\ k - 1 \in 0..N
        BY <1>1, <3>2
      <4>2. f[k] = g[k] /\ f[k - 1] = g[k - 1]
        BY <4>1
      <4>3. g[k] = Seen(g[k - 1], s[k])
        BY <4>1 DEF Sees
      <4> HIDE DEF f
      <4> QED
        BY <3>2, <4>2, <4>3 DEF Seen
    <3> QED
      BY <3>1, <3>2
  <2>2. f = [k \in 0..N |-> f[k]]
    OBVIOUS
  <2>3. IsAfter(f)
    <3> HIDE DEF f, N
    <3> QED
      BY <2>1, <2>2
  <2> HIDE DEF f, IsAfter
  <2> QED
    BY <2>3
<1>3. IsAfter(after)
  <2> HIDE DEF IsAfter
  <2> QED
    BY <1>2
<1>4. Qspi!After(m, s) = after[N]
  BY DEF Qspi!After
<1> HIDE DEF after, N
<1>5. 0 \in P
  BY <1>1, <1>3 DEF Sees
<1>6. ASSUME NEW k \in 0..N, k \in P, k < N PROVE k + 1 \in P
  <2>1. k + 1 \in 1..N /\ k + 1 \in 0..N /\ (k + 1) - 1 = k /\ k + 1 # 0 /\ after[k] = g[k]
    BY <1>1, <1>6
  <2>2. after[k + 1] = Seen(after[k], s[k + 1])
    BY <1>3, <2>1 DEF Seen
  <2>3. g[k + 1] = Seen(g[k], s[k + 1])
    BY <2>1 DEF Sees, N
  <2> QED
    BY <2>1, <2>2, <2>3
<1>7. N \in P
  <2> HIDE DEF P
  <2>1. \A k \in 0..N : k \in P
    BY ONLY <1>1, <1>5, <1>6, IntervalInduction
  <2> QED
    BY <1>1, <2>1
<1> QED
  BY <1>4, <1>7 DEF N

(* A decoder that sees one sequence and then another has seen both. *)
LEMMA AfterBoth ==
  ASSUME NEW m \in Decoders, NEW a \in Seq(Sendings), NEW b \in Seq(Sendings)
  PROVE  /\ Qspi!After(m, a) \in Decoders
         /\ Qspi!After(m, a \o b) = Qspi!After(Qspi!After(m, a), b)
<1>1. PICK g \in [0..Len(a) -> Decoders] : Sees(g, m, a)
  BY SomethingSees
<1> DEFINE d == Qspi!After(m, a)
<1>2. d = g[Len(a)] /\ Len(a) \in Nat /\ Len(b) \in Nat
  BY <1>1, AfterIs
<1>3. d \in Decoders
  BY <1>2
<1> HIDE DEF d
<1>4. PICK h \in [0..Len(b) -> Decoders] : Sees(h, d, b)
  BY <1>3, SomethingSees
<1>5. Qspi!After(d, b) = h[Len(b)]
  BY <1>3, <1>4, AfterIs
<1> DEFINE c == a \o b
           f == [k \in 0..Len(c) |-> IF k <= Len(a) THEN g[k] ELSE h[k - Len(a)]]
<1>6. /\ c \in Seq(Sendings) /\ Len(c) = Len(a) + Len(b)
      /\ \A k \in 1..Len(a) : c[k] = a[k]
      /\ \A k \in 1..Len(b) : c[Len(a) + k] = b[k]
  OBVIOUS
<1> HIDE DEF c
<1>7. f[0] = m
  BY <1>1, <1>2, <1>6 DEF Sees
<1>8. ASSUME NEW k \in 1..Len(c) PROVE f[k] = Seen(f[k - 1], c[k])
  <2>1. CASE k <= Len(a)
    <3>1. k \in 1..Len(a)
      BY <1>2, <2>1
    <3>2. k - 1 \in 0..Len(c) /\ k - 1 <= Len(a) /\ k \in 0..Len(c)
      BY <1>2, <1>6, <2>1
    <3>3. f[k] = g[k] /\ f[k - 1] = g[k - 1]
      BY <2>1, <3>2
    <3> QED
      BY <1>1, <1>6, <3>1, <3>3 DEF Sees
  <2>2. CASE ~(k <= Len(a))
    <3> DEFINE j == k - Len(a)
    <3>1. j \in 1..Len(b) /\ k = Len(a) + j /\ k \in 0..Len(c) /\ k - 1 \in 0..Len(c)
      BY <1>2, <1>6, <2>2
    <3>2. f[k] = h[j]
      BY <2>2, <3>1
    <3>3. f[k - 1] = h[j - 1]
      <4>1. CASE j = 1
        <5>1. k - 1 = Len(a) /\ j - 1 = 0
          BY <1>2, <3>1, <4>1
        <5>2. f[k - 1] = g[Len(a)]
          BY <1>2, <3>1, <5>1
        <5> QED
          BY <1>2, <1>4, <5>1, <5>2 DEF Sees
      <4>2. CASE j # 1
        <5>1. ~(k - 1 <= Len(a)) /\ (k - 1) - Len(a) = j - 1
          BY <1>2, <3>1, <4>2
        <5> QED
          BY <3>1, <5>1
      <4> QED
        BY <4>1, <4>2
    <3>4. h[j] = Seen(h[j - 1], b[j])
      BY <1>4, <3>1 DEF Sees
    <3>5. c[k] = b[j]
      BY <1>6, <3>1
    <3> QED
      BY <3>2, <3>3, <3>4, <3>5
  <2> QED
    BY <2>1, <2>2
<1>9. Sees(f, m, c)
  <2> HIDE DEF f
  <2> QED
    BY <1>7, <1>8 DEF Sees
<1>10. Qspi!After(m, c) = f[Len(c)]
  <2> HIDE DEF f
  <2> QED
    BY <1>6, <1>9, AfterIs
<1>11. f[Len(c)] = h[Len(b)]
  <2>1. Len(c) \in 0..Len(c) /\ Len(c) - Len(a) = Len(b)
    BY <1>2, <1>6
  <2>2. CASE Len(b) = 0
    <3>1. Len(c) <= Len(a) /\ Len(c) = Len(a)
      BY <1>2, <1>6, <2>2
    <3>2. f[Len(c)] = g[Len(a)]
      BY <2>1, <3>1
    <3> QED
      BY <1>2, <1>4, <2>2, <3>2 DEF Sees
  <2>3. CASE Len(b) # 0
    <3>1. ~(Len(c) <= Len(a))
      BY <1>2, <1>6, <2>3
    <3> QED
      BY <2>1, <3>1
  <2> QED
    BY <2>2, <2>3
<1> QED
  BY <1>3, <1>5, <1>10, <1>11 DEF c, d

LEMMA AfterOne ==
  ASSUME NEW m \in Decoders, NEW x \in Sendings
  PROVE  Qspi!After(m, <<x>>) = Seen(m, x) /\ Seen(m, x) \in Decoders
<1> DEFINE g == [k \in 0..1 |-> IF k = 0 THEN m ELSE Seen(m, x)]
<1>1. <<x>> \in Seq(Sendings) /\ Len(<<x>>) = 1 /\ <<x>>[1] = x
  OBVIOUS
<1>2. g[0] = m /\ g[1] = Seen(m, x)
  OBVIOUS
<1> HIDE DEF g
<1>3. Sees(g, m, <<x>>)
  <2>1. SUFFICES ASSUME NEW k \in 1..Len(<<x>>) PROVE g[k] = Seen(g[k - 1], <<x>>[k])
    BY <1>2 DEF Sees
  <2>2. k = 1 /\ k - 1 = 0
    BY <1>1
  <2> QED
    BY <1>1, <1>2, <2>2
<1>4. Seen(m, x) \in Decoders
  BY DecodedIs DEF Seen
<1> QED
  BY <1>1, <1>2, <1>3, <1>4, AfterIs

(* The bytes the memory has in its queue, one taken from or put into it. *)
LEMMA HeadAndTail ==
  ASSUME NEW S, NEW s \in Seq(S), s # <<>>
  PROVE  Head(s) \in S /\ Tail(s) \in Seq(S) /\ s = <<Head(s)>> \o Tail(s)
         /\ Len(Tail(s)) = Len(s) - 1 /\ Len(s) \in Nat \ {0}
<1>1. Head(s) \in S /\ Tail(s) \in Seq(S) /\ Len(Tail(s)) = Len(s) - 1 /\ Len(s) \in Nat \ {0}
  OBVIOUS
<1>2. s = <<Head(s)>> \o Tail(s)
  OBVIOUS
<1> QED
  BY <1>1, <1>2

LEMMA SentIs ==
  ASSUME mem_cmd \in Seq(Written)
  PROVE  /\ Qspi!Sent \in Seq(Sendings) /\ Len(Qspi!Sent) = Len(mem_cmd)
         /\ \A k \in 1..Len(mem_cmd) : Qspi!Sent[k] = [byte |-> mem_cmd[k], for_mem |-> TRUE]
<1>1. DOMAIN mem_cmd = 1..Len(mem_cmd) /\ Len(mem_cmd) \in Nat /\ \A k \in 1..Len(mem_cmd) : mem_cmd[k] \in Written
  OBVIOUS
<1>2. Qspi!Sent = [k \in 1..Len(mem_cmd) |-> [byte |-> mem_cmd[k], for_mem |-> TRUE]]
  BY <1>1 DEF Qspi!Sent
<1>3. \A k \in 1..Len(mem_cmd) : [byte |-> mem_cmd[k], for_mem |-> TRUE] \in Sendings
  BY <1>1 DEF Sendings
<1> QED
  BY <1>1, <1>2, <1>3

LEMMA SentIsNext ==
  ASSUME mem_cmd' \in Seq(Written)
  PROVE  /\ Qspi!Sent' \in Seq(Sendings) /\ Len(Qspi!Sent') = Len(mem_cmd')
         /\ \A k \in 1..Len(mem_cmd') : Qspi!Sent'[k] = [byte |-> mem_cmd'[k], for_mem |-> TRUE]
<1>1. DOMAIN mem_cmd' = 1..Len(mem_cmd') /\ Len(mem_cmd') \in Nat
      /\ \A k \in 1..Len(mem_cmd') : mem_cmd'[k] \in Written
  OBVIOUS
<1>2. Qspi!Sent' = [k \in 1..Len(mem_cmd') |-> [byte |-> mem_cmd'[k], for_mem |-> TRUE]]
  BY <1>1 DEF Qspi!Sent
<1>3. \A k \in 1..Len(mem_cmd') : [byte |-> mem_cmd'[k], for_mem |-> TRUE] \in Sendings
  BY <1>1 DEF Sendings
<1> QED
  BY <1>1, <1>2, <1>3

LEMMA SentGrows ==
  ASSUME mem_cmd \in Seq(Written), NEW b \in Written, mem_cmd' = Append(mem_cmd, b)
  PROVE  Qspi!Sent' = Qspi!Sent \o <<[byte |-> b, for_mem |-> TRUE]>>
<1> DEFINE x == [byte |-> b, for_mem |-> TRUE]
           r == Qspi!Sent \o <<x>>
<1>1. mem_cmd' \in Seq(Written) /\ Len(mem_cmd') = Len(mem_cmd) + 1 /\ Len(mem_cmd) \in Nat
  OBVIOUS
<1>2. Qspi!Sent' \in Seq(Sendings) /\ Len(Qspi!Sent') = Len(mem_cmd')
      /\ \A k \in 1..Len(mem_cmd') : Qspi!Sent'[k] = [byte |-> mem_cmd'[k], for_mem |-> TRUE]
  BY <1>1, SentIsNext
<1>3. x \in Sendings
  BY DEF Sendings
<1>4. Qspi!Sent \in Seq(Sendings) /\ Len(Qspi!Sent) = Len(mem_cmd)
      /\ \A k \in 1..Len(mem_cmd) : Qspi!Sent[k] = [byte |-> mem_cmd[k], for_mem |-> TRUE]
  BY SentIs
<1> HIDE DEF x
<1>5. /\ r \in Seq(Sendings) /\ Len(r) = Len(mem_cmd) + 1
      /\ \A k \in 1..Len(mem_cmd) : r[k] = Qspi!Sent[k]
      /\ r[Len(mem_cmd) + 1] = x
  BY <1>1, <1>3, <1>4, SMTT(40)
<1> HIDE DEF r
<1>6. ASSUME NEW k \in 1..Len(mem_cmd') PROVE Qspi!Sent'[k] = r[k]
  <2>1. CASE k = Len(mem_cmd) + 1
    <3>1. mem_cmd'[k] = b
      BY <1>1, <2>1
    <3>2. Qspi!Sent'[k] = x
      BY <1>2, <3>1 DEF x
    <3>3. r[k] = x
      BY <1>5, <2>1
    <3> QED
      BY <3>2, <3>3
  <2>2. CASE k # Len(mem_cmd) + 1
    <3>1. k \in 1..Len(mem_cmd) /\ mem_cmd'[k] = mem_cmd[k]
      BY <1>1, <2>2
    <3> QED
      BY <1>2, <1>4, <1>5, <3>1
  <2> QED
    BY <2>1, <2>2
<1>7. Qspi!Sent' = r
  BY <1>1, <1>2, <1>5, <1>6
<1> QED
  BY <1>7 DEF r, x

LEMMA SentShrinks ==
  ASSUME mem_cmd \in Seq(Written), mem_cmd # <<>>, mem_cmd' = Tail(mem_cmd)
  PROVE  Qspi!Sent = <<[byte |-> Head(mem_cmd), for_mem |-> TRUE]>> \o Qspi!Sent'
         /\ Qspi!Sent' \in Seq(Sendings)
<1> DEFINE x == [byte |-> Head(mem_cmd), for_mem |-> TRUE]
           r == <<x>> \o Qspi!Sent'
<1>1. /\ mem_cmd' \in Seq(Written) /\ Len(mem_cmd') = Len(mem_cmd) - 1 /\ Len(mem_cmd) \in Nat \ {0}
      /\ \A k \in 1..Len(mem_cmd') : mem_cmd'[k] = mem_cmd[k + 1]
      /\ Head(mem_cmd) = mem_cmd[1] /\ Head(mem_cmd) \in Written
  OBVIOUS
<1>2. Qspi!Sent' \in Seq(Sendings) /\ Len(Qspi!Sent') = Len(mem_cmd')
      /\ \A k \in 1..Len(mem_cmd') : Qspi!Sent'[k] = [byte |-> mem_cmd'[k], for_mem |-> TRUE]
  BY <1>1, SentIsNext
<1>3. x \in Sendings
  BY <1>1 DEF Sendings
<1>4. Qspi!Sent \in Seq(Sendings) /\ Len(Qspi!Sent) = Len(mem_cmd)
      /\ \A k \in 1..Len(mem_cmd) : Qspi!Sent[k] = [byte |-> mem_cmd[k], for_mem |-> TRUE]
  BY SentIs
<1>5. x = Qspi!Sent[1]
  BY <1>1, <1>4
<1> HIDE DEF x
<1>6. /\ r \in Seq(Sendings) /\ Len(r) = Len(mem_cmd)
      /\ \A k \in 1..Len(mem_cmd') : r[k + 1] = Qspi!Sent'[k]
      /\ r[1] = x
  <2>1. <<x>> \in Seq(Sendings) /\ Len(<<x>>) = 1 /\ <<x>>[1] = x
    BY <1>3
  <2>2. r \in Seq(Sendings) /\ Len(r) = 1 + Len(mem_cmd')
    BY <1>2, <2>1
  <2>3. r[1] = x
    BY <1>2, <2>1
  <2>4. \A k \in 1..Len(mem_cmd') : r[k + 1] = Qspi!Sent'[k]
    BY <1>1, <1>2, <2>1
  <2> HIDE DEF r
  <2>5. Len(r) = Len(mem_cmd)
    BY <1>1, <2>2
  <2> QED
    BY <2>2, <2>3, <2>4, <2>5
<1> HIDE DEF r
<1>7. ASSUME NEW k \in 1..Len(mem_cmd) PROVE Qspi!Sent[k] = r[k]
  <2>1. CASE k = 1
    <3>1. r[k] = x
      BY <1>6, <2>1
    <3>2. Qspi!Sent[k] = x
      BY <1>5, <2>1
    <3> QED
      BY <3>1, <3>2
  <2>2. CASE k # 1
    <3> DEFINE j == k - 1
    <3>1. j \in 1..Len(mem_cmd') /\ k = j + 1
      BY <1>1, <2>2
    <3> HIDE DEF j
    <3>2. mem_cmd'[j] = mem_cmd[k]
      BY <1>1, <3>1
    <3> QED
      BY <1>2, <1>4, <1>6, <3>1, <3>2
  <2> QED
    BY <2>1, <2>2
<1>8. Qspi!Sent = r
  BY <1>1, <1>4, <1>6, <1>7, SMTT(40)
<1> QED
  BY <1>2, <1>8 DEF r, x

LEMMA InStepNext == Qspi!InStep' <=> Qspi!After(mem', Qspi!Sent' \o cmd') = meant'
BY DEF Qspi!InStep, Qspi!After, Qspi!Decoded

LEMMA QspiStep == ASSUME QspiInv, Qspi!Next PROVE QspiInv' /\ Qspi!OutOfStepOnlyBySelection
<1>1. /\ qspi_in_reset \in BOOLEAN /\ selected \in BOOLEAN /\ no_answer \in BOOLEAN
      /\ cmd \in Seq(Sendings) /\ mem_cmd \in Seq(Written)
      /\ mem \in Decoders /\ meant \in Decoders
      /\ (mem.operands = 0) <=> (mem.command = "none")
      /\ Len(cmd) \in Nat /\ Len(mem_cmd) \in Nat
      /\ Len(cmd) + Len(mem_cmd) <= QueueBound /\ Len(rsp) <= QueueBound + 1 /\ QueueBound \in Nat
  BY SerialAssumption DEF QspiInv, Qspi!TypeOK
<1>2. PICK S : rsp \in Seq(S)
  BY DEF QspiInv
<1>3. Len(rsp) \in Nat
  BY <1>2
(* What a step has to show. *)
<1>4. ASSUME qspi_in_reset' \in BOOLEAN, selected' \in BOOLEAN, no_answer' \in BOOLEAN,
             cmd' \in Seq(Sendings), mem_cmd' \in Seq(Written),
             Len(cmd') + Len(mem_cmd') <= QueueBound,
             NEW R, rsp' \in Seq(R), Len(rsp') <= QueueBound + 1,
             mem' \in Decoders, meant' \in Decoders,
             mem'.operands = 0 <=> mem'.command = "none"
      PROVE  QspiInv'
  <2>1. mem'.operands \in 0..3
    BY <1>4 DEF Decoders
  <2>2. Qspi!TypeOK'
    BY <1>4, <2>1 DEF Qspi!TypeOK
  <2> QED
    BY <1>4, <2>2 DEF QspiInv
<1>5. Qspi!Sent \in Seq(Sendings)
  BY <1>1, SentIs
<1>6. CASE UNCHANGED <<cmd, mem_cmd, mem, meant>> /\ (Qspi!SsgenCmd \/ Qspi!DataRead \/ Qspi!reset_cb)
  <2>1. qspi_in_reset' \in BOOLEAN /\ selected' \in BOOLEAN /\ no_answer' \in BOOLEAN
    <3>1. CASE Qspi!SsgenCmd
      BY <1>1, <3>1 DEF Qspi!SsgenCmd
    <3>2. CASE Qspi!DataRead
      BY <1>1, <3>2 DEF Qspi!DataRead
    <3>3. CASE Qspi!reset_cb
      BY <1>1, <3>3 DEF Qspi!reset_cb
    <3> QED
      BY <1>6, <3>1, <3>2, <3>3
  <2>2. rsp' \in Seq(S) /\ Len(rsp') <= QueueBound + 1
    <3>1. rsp' = rsp \/ (rsp # <<>> /\ rsp' = Tail(rsp))
      BY <1>6 DEF Qspi!SsgenCmd, Qspi!DataRead, Qspi!reset_cb
    <3>2. CASE rsp # <<>> /\ rsp' = Tail(rsp)
      <4>1. Tail(rsp) \in Seq(S) /\ Len(Tail(rsp)) = Len(rsp) - 1
        BY <1>2, <3>2
      <4> QED
        BY <1>1, <1>3, <3>2, <4>1
    <3> QED
      BY <1>1, <1>2, <3>1, <3>2
  <2>3. QspiInv'
    BY <1>1, <1>4, <1>6, <2>1, <2>2
  <2>4. Qspi!InStep' <=> Qspi!InStep
    BY <1>6 DEF Qspi!InStep, Qspi!Sent, Qspi!After, Qspi!Decoded
  <2> QED
    BY <2>3, <2>4 DEF Qspi!OutOfStepOnlyBySelection
<1>7. ASSUME NEW b \in Written, Len(cmd) + Len(mem_cmd) < QueueBound, Qspi!WriteCmd(b)
      PROVE  QspiInv' /\ Qspi!OutOfStepOnlyBySelection
  <2> DEFINE x == [byte |-> b, for_mem |-> selected]
  <2>1. /\ cmd' = Append(cmd, x)
        /\ meant' = Seen(meant, x)
        /\ UNCHANGED <<qspi_in_reset, selected, rsp, mem_cmd, mem, no_answer>>
    BY <1>7 DEF Qspi!WriteCmd, Seen
  <2>2. x \in Sendings
    BY <1>1 DEF Sendings
  <2> HIDE DEF x
  <2>3. cmd' \in Seq(Sendings) /\ Len(cmd') = Len(cmd) + 1 /\ cmd' = cmd \o <<x>> /\ <<x>> \in Seq(Sendings)
    BY <1>1, <2>1, <2>2
  <2>4. meant' \in Decoders
    BY <1>1, <2>1, <2>2, AfterOne
  <2>5. Len(cmd') + Len(mem_cmd') <= QueueBound
    BY <1>1, <1>7, <2>1, <2>3
  <2>6. QspiInv'
    BY <1>1, <1>2, <1>4, <2>1, <2>3, <2>4, <2>5
  <2>7. ASSUME Qspi!InStep PROVE Qspi!InStep'
    <3>1. Qspi!Sent' = Qspi!Sent
      BY <2>1 DEF Qspi!Sent
    <3> DEFINE s == Qspi!Sent \o cmd
    <3>2. s \in Seq(Sendings) /\ Qspi!Sent \o cmd' = s \o <<x>>
      BY <1>1, <1>5, <2>3, SMTT(40)
    <3>3. Qspi!After(mem, s) = meant
      BY <2>7 DEF Qspi!InStep
    <3> HIDE DEF s
    <3>4. Qspi!After(mem, s \o <<x>>) = Qspi!After(meant, <<x>>)
      BY <1>1, <2>3, <3>2, <3>3, AfterBoth, ZenonT(60)
    <3>5. Qspi!After(meant, <<x>>) = meant'
      BY <1>1, <2>1, <2>2, AfterOne
    <3>6. mem' = mem
      BY <2>1
    <3> QED
      BY <3>1, <3>2, <3>4, <3>5, <3>6, InStepNext
  <2> QED
    BY <2>6, <2>7 DEF Qspi!OutOfStepOnlyBySelection
<1>8. CASE Qspi!peq_cb
  <2> DEFINE h == Head(cmd)
             T == Tail(cmd)
  <2>1. /\ cmd # <<>> /\ cmd' = T
        /\ selected => mem_cmd' = Append(mem_cmd, h.byte)
        /\ ~selected => mem_cmd' = mem_cmd
        /\ UNCHANGED <<qspi_in_reset, selected, rsp, mem, no_answer, meant>>
    BY <1>8 DEF Qspi!peq_cb
  <2>2. h \in Sendings /\ T \in Seq(Sendings) /\ cmd = <<h>> \o T /\ Len(T) = Len(cmd) - 1
    BY <1>1, <2>1, HeadAndTail
  <2> HIDE DEF h, T
  <2>3. h.byte \in Written /\ h.for_mem \in BOOLEAN /\ h = [byte |-> h.byte, for_mem |-> h.for_mem]
    BY <2>2 DEF Sendings
  <2>4. mem_cmd' \in Seq(Written) /\ Len(mem_cmd') <= Len(mem_cmd) + 1 /\ Len(mem_cmd') \in Nat
    <3>1. Append(mem_cmd, h.byte) \in Seq(Written) /\ Len(Append(mem_cmd, h.byte)) = Len(mem_cmd) + 1
      BY <1>1, <2>3
    <3>2. mem_cmd' = Append(mem_cmd, h.byte) \/ mem_cmd' = mem_cmd
      BY <1>1, <2>1
    <3>3. CASE mem_cmd' = Append(mem_cmd, h.byte)
      BY <1>1, <3>1, <3>3
    <3>4. CASE mem_cmd' = mem_cmd
      BY <1>1, <3>4
    <3> QED
      BY <3>2, <3>3, <3>4
  <2>5. Len(cmd') + Len(mem_cmd') <= QueueBound
    <3>1. Len(cmd') = Len(cmd) - 1
      BY <2>1, <2>2
    <3> QED
      BY <1>1, <2>4, <3>1
  <2>6. QspiInv'
    BY <1>1, <1>2, <1>4, <2>1, <2>2, <2>4, <2>5
  <2>7. ASSUME Qspi!InStep, h.for_mem = selected PROVE Qspi!InStep'
    <3> DEFINE d == Qspi!After(mem, Qspi!Sent)
    <3>1. d \in Decoders /\ Qspi!After(mem, Qspi!Sent \o cmd) = Qspi!After(d, cmd)
      BY <1>1, <1>5, AfterBoth
    <3> HIDE DEF d
    <3>2. <<h>> \in Seq(Sendings) /\ Qspi!After(d, <<h>>) = Seen(d, h) /\ Seen(d, h) \in Decoders
      BY <2>2, <3>1, AfterOne
    <3>3. Qspi!After(d, cmd) = Qspi!After(Seen(d, h), T)
      <4>1. Qspi!After(d, <<h>> \o T) = Qspi!After(Qspi!After(d, <<h>>), T)
        BY ONLY <2>2, <3>1, <3>2, AfterBoth
      <4> QED
        BY <2>2, <3>2, <4>1
    <3>4. meant = Qspi!After(Seen(d, h), T)
      BY <2>7, <3>1, <3>3 DEF Qspi!InStep
    <3>5. Qspi!After(mem, Qspi!Sent' \o T) = Qspi!After(Seen(d, h), T)
      <4>1. CASE selected
        <5>1. Qspi!Sent' = Qspi!Sent \o <<h>>
          BY <1>1, <2>1, <2>3, <2>7, <4>1, SentGrows
        <5>2. Qspi!After(mem, Qspi!Sent \o <<h>>) = Seen(d, h)
          BY <1>1, <1>5, <3>2, AfterBoth DEF d
        <5>3. Qspi!Sent \o <<h>> \in Seq(Sendings)
          BY <1>5, <3>2
        <5>4. Qspi!After(mem, (Qspi!Sent \o <<h>>) \o T) = Qspi!After(Qspi!After(mem, Qspi!Sent \o <<h>>), T)
          BY ONLY <1>1, <2>2, <5>3, AfterBoth, ZenonT(60)
        <5> QED
          BY <5>1, <5>2, <5>4
      <4>2. CASE ~selected
        <5>1. Qspi!Sent' = Qspi!Sent
          BY <2>1, <4>2 DEF Qspi!Sent
        <5>2. Seen(d, h) = d
          BY <2>7, <4>2 DEF Seen
        <5>3. Qspi!After(mem, Qspi!Sent \o T) = Qspi!After(d, T)
          BY <1>1, <1>5, <2>2, AfterBoth DEF d
        <5> QED
          BY <5>1, <5>2, <5>3
      <4> QED
        BY <1>1, <4>1, <4>2
    <3>6. cmd' = T /\ mem' = mem /\ meant' = meant
      BY <2>1
    <3> QED
      BY <3>4, <3>5, <3>6, InStepNext
  <2> QED
    BY <2>1, <2>6, <2>7 DEF Qspi!OutOfStepOnlyBySelection, h
<1>9. CASE Len(rsp) < QueueBound /\ Qspi!cmd_cb
  <2> DEFINE b == Head(mem_cmd)
             x == [byte |-> b, for_mem |-> TRUE]
  <2>1. /\ mem_cmd # <<>> /\ mem_cmd' = Tail(mem_cmd)
        /\ mem' = Qspi!Decoded(mem, b) /\ rsp' = rsp \o Qspi!Answer(mem, b)
        /\ UNCHANGED <<qspi_in_reset, selected, cmd, no_answer, meant>>
    BY <1>9 DEF Qspi!cmd_cb
  <2>2. b \in Written /\ mem_cmd' \in Seq(Written) /\ Len(mem_cmd') = Len(mem_cmd) - 1
    BY <1>1, <2>1, HeadAndTail
  <2>3. Qspi!Sent = <<x>> \o Qspi!Sent' /\ Qspi!Sent' \in Seq(Sendings)
    BY <1>1, <2>1, SentShrinks
  <2> HIDE DEF b
  <2>4. x \in Sendings /\ Seen(mem, x) = mem'
    BY <2>1, <2>2 DEF Sendings, Seen
  <2>5. mem' \in Decoders /\ (mem'.operands = 0 <=> mem'.command = "none")
    BY <1>1, <2>1, DecodedIs
  <2>6. \E R : rsp' \in Seq(R) /\ Len(rsp') <= QueueBound + 1
    <3> DEFINE a == Qspi!Answer(mem, b)
               R == S \cup {"maker", "device", "enabled", "disabled"}
    <3>1. a \in Seq(R) /\ Len(a) \in 0..2
      <4>1. \A u, v \in R : <<u, v>> \in Seq(R) /\ Len(<<u, v>>) = 2 /\ <<u>> \in Seq(R) /\ Len(<<u>>) = 1
        OBVIOUS
      <4>2. <<>> \in Seq(R) /\ Len(<<>>) = 0
        OBVIOUS
      <4>3. a = <<"maker", "device">> \/ a = <<"enabled">> \/ a = <<"disabled">> \/ a = <<>>
        BY DEF Qspi!Answer
      <4>4. "maker" \in R /\ "device" \in R /\ "enabled" \in R /\ "disabled" \in R
        OBVIOUS
      <4> HIDE DEF a, R
      <4>5. CASE a = <<"maker", "device">>
        BY <4>1, <4>4, <4>5
      <4>6. CASE a = <<"enabled">>
        BY <4>1, <4>4, <4>6
      <4>8. CASE a = <<"disabled">>
        BY <4>1, <4>4, <4>8
      <4>7. CASE a = <<>>
        BY <4>2, <4>7
      <4> QED
        BY <4>3, <4>5, <4>6, <4>7, <4>8
    <3> HIDE DEF a
    <3>2. rsp \in Seq(R)
      BY <1>2
    <3> HIDE DEF R
    <3>3. rsp' = rsp \o a
      BY <2>1 DEF a
    <3>4. rsp' \in Seq(R) /\ Len(rsp') = Len(rsp) + Len(a)
      BY <3>1, <3>2, <3>3
    <3>5. Len(rsp') <= QueueBound + 1
      <4>1. \A l, n \in Nat : l < n => \A k \in 0..2 : l + k <= n + 1
        OBVIOUS
      <4> QED
        BY <1>1, <1>3, <1>9, <3>1, <3>4, <4>1
    <3> QED
      BY <3>4, <3>5
  <2>7. Len(cmd') + Len(mem_cmd') <= QueueBound
    BY <1>1, <2>1, <2>2
  <2>8. QspiInv'
    BY <1>1, <1>4, <2>1, <2>2, <2>5, <2>6, <2>7
  <2> HIDE DEF x
  <2>9. ASSUME Qspi!InStep PROVE Qspi!InStep'
    <3>1. <<x>> \in Seq(Sendings) /\ Qspi!After(mem, <<x>>) = mem'
      BY <1>1, <2>4, AfterOne
    <3>2. Qspi!Sent' \o cmd \in Seq(Sendings)
          /\ (<<x>> \o Qspi!Sent') \o cmd = <<x>> \o (Qspi!Sent' \o cmd)
      BY <1>1, <2>3, <3>1, SMTT(40)
    <3>3. Qspi!After(mem, <<x>> \o (Qspi!Sent' \o cmd)) = Qspi!After(mem', Qspi!Sent' \o cmd)
      BY <1>1, <3>1, <3>2, AfterBoth
    <3>4. Qspi!After(mem, Qspi!Sent \o cmd) = meant
      BY <2>9 DEF Qspi!InStep
    <3>5. cmd' = cmd /\ meant' = meant
      BY <2>1
    <3> QED
      BY <2>3, <3>2, <3>3, <3>4, <3>5, InStepNext
  <2> QED
    BY <2>8, <2>9 DEF Qspi!OutOfStepOnlyBySelection
<1>10. CASE Qspi!SsgenCmd \/ Qspi!DataRead \/ Qspi!reset_cb
  <2>1. UNCHANGED <<cmd, mem_cmd, mem, meant>>
    BY <1>10 DEF Qspi!SsgenCmd, Qspi!DataRead, Qspi!reset_cb
  <2> QED
    BY <1>6, <1>10, <2>1
<1> QED
  BY <1>7, <1>8, <1>9, <1>10 DEF Qspi!Next

LEMMA QspiRests == ASSUME UNCHANGED qspi PROVE (QspiInv => QspiInv') /\ Qspi!OutOfStepOnlyBySelection
<1>1. Qspi!InStep' <=> Qspi!InStep
  BY DEF qspi, Qspi!InStep, Qspi!Sent, Qspi!After, Qspi!Decoded
<1> QED
  BY <1>1 DEF qspi, QspiInv, Qspi!TypeOK, Qspi!OutOfStepOnlyBySelection

LEMMA QspiStarts == ASSUME Qspi!Init PROVE QspiInv
<1>1. <<>> \in Seq(Sendings) /\ <<>> \in Seq(Written) /\ Len(<<>>) = 0
  OBVIOUS
<1>2. Qspi!PowerUp \in Decoders
  BY DEF Qspi!PowerUp, Decoders
<1>3. \E S : rsp \in Seq(S)
  BY <1>1 DEF Qspi!Init
<1>4. Qspi!TypeOK
  <2>1. /\ qspi_in_reset = FALSE /\ selected = FALSE /\ no_answer = FALSE
        /\ Len(cmd) = 0 /\ Len(mem_cmd) = 0 /\ Len(rsp) = 0
        /\ mem.operands = 0 /\ mem.command = "none"
    BY <1>1 DEF Qspi!Init, Qspi!PowerUp
  <2>2. {qspi_in_reset, selected, no_answer} \subseteq BOOLEAN
    BY <2>1
  <2>3. Len(cmd) + Len(mem_cmd) <= QueueBound /\ Len(rsp) <= QueueBound + 1
    BY <2>1, SerialAssumption
  <2>4. mem.operands \in 0..3 /\ (mem.operands = 0) = (mem.command = "none")
    BY <2>1
  <2> QED
    BY <2>2, <2>3, <2>4 DEF Qspi!TypeOK
<1> QED
  BY <1>1, <1>2, <1>3, <1>4 DEF Qspi!Init, QspiInv

-----------------------------------------------------------------------------
(* The SPI controller of SiFive. *)
Frames == {"byte"}

SpiInv ==
  /\ Spi!TypeOK
  /\ tx \in Fifos(Frames) /\ rx \in Fifos(Frames)
  /\ spi_in_reset \in BOOLEAN /\ tx_full \in BOOLEAN /\ spi_irq \in BOOLEAN

SpiExplained ==
  /\ Spi!StrayOnlyOutsideHold /\ Spi!IrqStaleOnlyByMarkOrReset /\ Spi!MisledOnlyByResetOrOverrun
  /\ Spi!OverheardOnlyAtStart

LEMMA SpiChannel ==
  /\ \A f, x, depth : Spi!nb_write(f, x, depth) = nb_write(f, x, depth)
  /\ \A f : Spi!nb_read(f) = nb_read(f) /\ Spi!SettledOf(f) = SettledOf(f)
  /\ \A f : Spi!Held(f) = Held(f) /\ Spi!num_available(f) = Len(f.q)
  /\ \A f : Spi!Settled(f) <=> (f.new = <<>> /\ f.freed = 0)
  /\ \A f, depth : Spi!num_free(f, depth) = num_free(f, depth)
  /\ Spi!EmptyFifo = EmptyFifo
BY DEF Spi!nb_write, nb_write, Spi!nb_read, nb_read, Spi!SettledOf, SettledOf, Spi!Settled,
       Spi!Held, Held, Spi!num_available, Spi!num_free, num_free, Spi!EmptyFifo, EmptyFifo

(* A step that leaves FIFOs, marks and bits alone: it may change lines. *)
LEMMA SpiAside ==
  ASSUME SpiInv, UNCHANGED <<spi_in_reset, tx, rx, xfer, txmark, rxmark, spi_ie, tx_full, spi_irq>>,
         low' \subseteq low, csid' \in Ids \cup {Spi!NoLine},
         csid' = csid \/ csmode # Spi!Hold \/ low' = low \ {csid}
  PROVE  SpiInv' /\ SpiExplained
<1>1. SpiInv'
  BY SpiChannel DEF SpiInv, Spi!TypeOK
<1>2. Spi!StrayOnlyOutsideHold
  BY DEF Spi!StrayOnlyOutsideHold, Spi!Stray
<1>3. Spi!IrqStaleOnlyByMarkOrReset
  BY DEF Spi!IrqStaleOnlyByMarkOrReset, Spi!IrqStale, Spi!Watermarks, Spi!Settled, Spi!num_available
<1>4. Spi!MisledOnlyByResetOrOverrun
  BY DEF Spi!MisledOnlyByResetOrOverrun, Spi!Misled, Spi!Settled, Spi!num_free
<1>5. Spi!OverheardOnlyAtStart
  BY DEF Spi!OverheardOnlyAtStart, Spi!Overheard
<1> QED
  BY <1>1, <1>2, <1>3, <1>4, <1>5 DEF SpiExplained

(* A step that computes interrupt and full bit anew, for the FIFOs it leaves. *)
LEMMA SpiRecomputes ==
  ASSUME SpiInv, Spi!update_irq(tx', rx', spi_ie'), UNCHANGED <<spi_in_reset, csid, txmark, rxmark>>,
         tx' \in Fifos(Frames), Fits(tx', SpiDepth), rx' \in Fifos(Frames), Fits(rx', SpiDepth),
         xfer' \in {"starts", "waits", "woken", "frame"}, xfer' = "woken" => tx'.q # <<>>,
         Spi!OverheardOnlyAtStart,
         low' = low \/ (low' = low \cup {csid} /\ csid # Spi!NoLine)
  PROVE  SpiInv' /\ SpiExplained
<1>1. /\ spi_irq' <=> (spi_ie' \cap Spi!Watermarks(tx', rx') # {})
      /\ tx_full' <=> (num_free(tx', SpiDepth) = 0)
      /\ spi_irq' \in BOOLEAN /\ tx_full' \in BOOLEAN
  BY SpiChannel DEF Spi!update_irq
<1>2. tx'.q # <<>> => Len(tx'.q) > 0
  BY FifoIs
<1>3. low' \subseteq Ids /\ csid' \in Ids \cup {Spi!NoLine}
  BY DEF SpiInv, Spi!TypeOK
<1>4. Spi!TypeOK'
  BY <1>2, <1>3, SpiChannel DEF Spi!TypeOK, Fits
<1>5. SpiInv'
  BY <1>1, <1>4 DEF SpiInv
<1>6. Spi!StrayOnlyOutsideHold
  BY DEF Spi!StrayOnlyOutsideHold, Spi!Stray
<1>7. ~Spi!IrqStale'
  BY <1>1 DEF Spi!IrqStale, Spi!Watermarks, Spi!num_available
<1>8. ~Spi!Misled'
  BY <1>1, SpiChannel DEF Spi!Misled
<1> QED
  BY <1>5, <1>6, <1>7, <1>8 DEF SpiExplained, Spi!IrqStaleOnlyByMarkOrReset, Spi!MisledOnlyByResetOrOverrun

LEMMA SpiStep == ASSUME SpiInv, Spi!Next PROVE SpiInv' /\ SpiExplained
<1>1. /\ tx \in Fifos(Frames) /\ rx \in Fifos(Frames) /\ "byte" \in Frames
      /\ Fits(tx, SpiDepth) /\ Fits(rx, SpiDepth) /\ SpiDepth \in Nat
      /\ xfer \in {"starts", "waits", "woken", "frame"} /\ (xfer = "woken" => tx.q # <<>>)
      /\ low \subseteq Ids /\ csid \in Ids \cup {Spi!NoLine}
      /\ spi_in_reset \in BOOLEAN /\ tx_full \in BOOLEAN /\ spi_irq \in BOOLEAN
  <2>1. xfer = "woken" => Len(tx.q) > 0
    BY SpiChannel DEF SpiInv, Spi!TypeOK
  <2>2. Fits(tx, SpiDepth) /\ Fits(rx, SpiDepth)
    BY SpiChannel DEF SpiInv, Spi!TypeOK, Fits
  <2>3. Len(tx.q) > 0 => tx.q # <<>>
    OBVIOUS
  <2> QED
    BY <2>1, <2>2, <2>3, SerialAssumption DEF SpiInv, Spi!TypeOK, Frames
<1>2. ASSUME NEW top_bit \in BOOLEAN, Spi!TxdataWrite(top_bit) PROVE SpiInv' /\ SpiExplained
  <2>1. /\ tx' = nb_write(tx, "byte", SpiDepth) /\ tx_full' \in BOOLEAN
        /\ UNCHANGED <<spi_in_reset, rx, xfer, low, csid, csmode, txmark, rxmark, spi_ie, spi_irq>>
    BY <1>2, SpiChannel DEF Spi!TxdataWrite
  <2>2. /\ tx' \in Fifos(Frames) /\ Fits(tx', SpiDepth) /\ tx'.q = tx.q
        /\ num_free(tx, SpiDepth) \in Nat
        /\ num_free(tx, SpiDepth) = 0 => tx' = tx
        /\ num_free(tx, SpiDepth) > 0 => tx'.new # <<>>
    BY <1>1, <2>1, FifoWrite
  <2>3. xfer' = "woken" => Len(tx'.q) > 0
    BY <1>1, <2>1, <2>2, FifoIs
  <2>4. Spi!TypeOK'
    BY <1>1, <2>1, <2>2, <2>3, SpiChannel DEF Spi!TypeOK, Fits
  <2>5. SpiInv'
    BY <1>1, <2>1, <2>2, <2>4 DEF SpiInv
  <2>6. Spi!Settled(tx)' => tx' = tx /\ num_free(tx, SpiDepth) = 0
    BY <2>2 DEF Spi!Settled
  <2>7. Spi!IrqStale' => Spi!IrqStale
    BY <2>1, <2>6 DEF Spi!IrqStale, Spi!Watermarks, Spi!Settled, Spi!num_available
  <2>8. Spi!Misled' => Spi!Misled \/ tx_full
    BY <2>1, <2>6, SpiChannel DEF Spi!Misled, Spi!Settled
  <2>9. Spi!StrayOnlyOutsideHold
    BY <2>1 DEF Spi!StrayOnlyOutsideHold, Spi!Stray
  <2>10. Spi!OverheardOnlyAtStart
    BY <2>1, <2>2 DEF Spi!OverheardOnlyAtStart, Spi!Overheard
  <2> QED
    BY <2>5, <2>7, <2>8, <2>9, <2>10 DEF SpiExplained, Spi!IrqStaleOnlyByMarkOrReset, Spi!MisledOnlyByResetOrOverrun
<1>3. CASE Spi!RxdataRead
  <2>1. /\ Len(rx.q) > 0 /\ rx' = nb_read(rx)
        /\ tx_full' = tx_full \/ (tx_full' <=> (num_free(tx, SpiDepth) = 0))
        /\ tx_full' \in BOOLEAN /\ spi_irq' \in BOOLEAN
        /\ UNCHANGED <<spi_in_reset, tx, xfer, low, csid, csmode, txmark, rxmark, spi_ie>>
    <3>1. /\ Len(rx.q) > 0 /\ rx' = nb_read(rx)
          /\ UNCHANGED <<spi_in_reset, tx, xfer, low, csid, csmode, txmark, rxmark, spi_ie>>
          /\ Spi!update_irq(tx, rx', spi_ie) \/ UNCHANGED <<spi_ip, tx_full, spi_irq>>
      BY <1>3, SpiChannel DEF Spi!RxdataRead
    <3>2. CASE Spi!update_irq(tx, rx', spi_ie)
      <4>1. (tx_full' <=> (num_free(tx, SpiDepth) = 0)) /\ tx_full' \in BOOLEAN /\ spi_irq' \in BOOLEAN
        BY <3>2, SpiChannel DEF Spi!update_irq
      <4> QED
        BY <3>1, <4>1
    <3> QED
      BY <1>1, <3>1, <3>2
  <2>2. rx.q # <<>>
    BY <2>1
  <2>3. rx' \in Fifos(Frames) /\ Fits(rx', SpiDepth) /\ rx'.freed > 0
    BY <1>1, <2>1, <2>2, FifoRead
  <2>4. SpiInv'
    BY <1>1, <2>1, <2>3, SpiChannel DEF SpiInv, Spi!TypeOK, Fits
  <2>5. ~Spi!IrqStale'
    BY <2>3 DEF Spi!IrqStale, Spi!Settled
  <2>6. Spi!Misled' => Spi!Misled
    BY <2>1, SpiChannel DEF Spi!Misled, Spi!Settled
  <2>7. Spi!StrayOnlyOutsideHold /\ Spi!OverheardOnlyAtStart
    BY <2>1 DEF Spi!StrayOnlyOutsideHold, Spi!Stray, Spi!OverheardOnlyAtStart, Spi!Overheard
  <2> QED
    BY <2>4, <2>5, <2>6, <2>7 DEF SpiExplained, Spi!IrqStaleOnlyByMarkOrReset, Spi!MisledOnlyByResetOrOverrun
<1>4. ASSUME \/ Spi!CsdefWrite
             \/ \E m \in {Spi!Auto, Spi!Hold, Spi!Off} : Spi!CsmodeWrite(m)
             \/ \E i \in Ids \cup {Spi!NoLine} : Spi!CsidWrite(i)
      PROVE  SpiInv' /\ SpiExplained
  <2>1. /\ UNCHANGED <<spi_in_reset, tx, rx, xfer, txmark, rxmark, spi_ie, tx_full, spi_irq>>
        /\ low' \subseteq low /\ csid' \in Ids \cup {Spi!NoLine}
        /\ csid' = csid \/ csmode # Spi!Hold \/ low' = low \ {csid}
    <3>1. CASE Spi!CsdefWrite
      BY <1>1, <3>1 DEF Spi!CsdefWrite, Spi!Raised
    <3>2. CASE \E m \in {Spi!Auto, Spi!Hold, Spi!Off} : Spi!CsmodeWrite(m)
      BY <1>1, <3>2 DEF Spi!CsmodeWrite, Spi!Raised
    <3>3. CASE \E i \in Ids \cup {Spi!NoLine} : Spi!CsidWrite(i)
      BY <1>1, <3>3 DEF Spi!CsidWrite, Spi!Raised
    <3> QED
      BY <1>4, <3>1, <3>2, <3>3
  <2> QED
    BY <2>1, SpiAside
<1>5. CASE Spi!MarkWrite \/ Spi!reset_cb
  <2>1. /\ UNCHANGED <<tx, rx, xfer, low, spi_irq>>
        /\ spi_in_reset' \in BOOLEAN /\ tx_full' \in BOOLEAN
        /\ csid' \in Ids \cup {Spi!NoLine}
        /\ \/ spi_in_reset'
           \/ UNCHANGED <<csid, spi_ie, tx_full, txmark, rxmark>>
           \/ UNCHANGED <<csid, spi_ie, tx_full>> /\ <<txmark, rxmark>>' # <<txmark, rxmark>>
    <3>1. CASE Spi!MarkWrite
      BY <1>1, <3>1 DEF Spi!MarkWrite
    <3>2. CASE Spi!reset_cb
      BY <1>1, <3>2, SerialAssumption DEF Spi!reset_cb
    <3> QED
      BY <1>5, <3>1, <3>2
  <2>2. SpiInv'
    BY <1>1, <2>1, SpiChannel DEF SpiInv, Spi!TypeOK, Fits
  <2>3. Spi!StrayOnlyOutsideHold /\ Spi!OverheardOnlyAtStart
    BY <2>1 DEF Spi!StrayOnlyOutsideHold, Spi!Stray, Spi!OverheardOnlyAtStart, Spi!Overheard
  <2>4. Spi!IrqStaleOnlyByMarkOrReset
    BY <2>1 DEF Spi!IrqStaleOnlyByMarkOrReset, Spi!IrqStale, Spi!Watermarks, Spi!Settled, Spi!num_available
  <2>5. Spi!MisledOnlyByResetOrOverrun
    BY <2>1 DEF Spi!MisledOnlyByResetOrOverrun, Spi!Misled, Spi!Settled, Spi!num_free
  <2> QED
    BY <2>2, <2>3, <2>4, <2>5 DEF SpiExplained
<1>6. CASE Spi!IeIpWrite
  <2>1. /\ Spi!update_irq(tx', rx', spi_ie')
        /\ UNCHANGED <<spi_in_reset, tx, rx, xfer, low, csid, csmode, txmark, rxmark>>
    BY <1>6 DEF Spi!IeIpWrite
  <2>2. Spi!OverheardOnlyAtStart
    BY <2>1 DEF Spi!OverheardOnlyAtStart, Spi!Overheard
  <2> QED
    BY <1>1, <2>1, <2>2, SpiRecomputes
<1>7. CASE Spi!FifoUpdate
  <2>1. /\ tx' = SettledOf(tx) /\ rx' = SettledOf(rx)
        /\ xfer' = IF xfer = "starts" THEN "waits"
                   ELSE IF xfer = "waits" /\ tx.new # <<>> THEN "woken" ELSE xfer
        /\ xfer # "woken"
        /\ UNCHANGED <<spi_in_reset, low, csid, csmode, txmark, rxmark, spi_ie>>
    BY <1>7, SpiChannel DEF Spi!FifoUpdate
  <2>2. /\ tx' \in Fifos(Frames) /\ Fits(tx', SpiDepth)
        /\ tx.new # <<>> => tx'.q # <<>>
        /\ tx.new = <<>> => tx'.q = tx.q
    BY <1>1, <2>1, FifoSettles
  <2>3. rx' \in Fifos(Frames) /\ Fits(rx', SpiDepth)
    BY <1>1, <2>1, FifoSettles
  <2>4. Spi!OverheardOnlyAtStart
    BY <2>1, <2>2 DEF Spi!OverheardOnlyAtStart, Spi!Overheard
  <2>5. xfer' \in {"starts", "waits", "woken", "frame"} /\ (xfer' = "woken" => tx'.q # <<>>)
    BY <1>1, <2>1, <2>2
  <2>6. CASE ~(Spi!Settled(tx) /\ Spi!Settled(rx))
    <3>1. Spi!update_irq(tx', rx', spi_ie')
      BY <1>7, <2>1, <2>6 DEF Spi!FifoUpdate
    <3> QED
      BY <2>1, <2>2, <2>3, <2>4, <2>5, <3>1, SpiRecomputes
  <2>7. CASE Spi!Settled(tx) /\ Spi!Settled(rx)
    <3>1. UNCHANGED <<spi_ip, tx_full, spi_irq>>
      BY <1>7, <2>7 DEF Spi!FifoUpdate
    <3>2. tx' = tx /\ rx' = rx
      <4>1. ASSUME NEW f \in Fifos(Frames), Spi!Settled(f) PROVE SettledOf(f) = f
        <5>1. f = [q |-> f.q, new |-> <<>>, freed |-> 0] /\ f.q \in Seq(Frames)
          BY <4>1, FifoIs, SpiChannel
        <5>2. f.q \o <<>> = f.q /\ f.new = <<>>
          BY <5>1
        <5> QED
          BY <5>1, <5>2 DEF SettledOf
      <4> QED
        BY <1>1, <2>1, <2>7, <4>1
    <3>3. Len(tx.q) > 0 => tx.q # <<>>
      OBVIOUS
    <3>4. xfer' = "woken" => Len(tx'.q) > 0
      BY <2>2, <2>5, FifoIs
    <3>5. SpiInv'
      <4>1. Spi!TypeOK'
        BY <1>1, <2>1, <2>2, <2>3, <2>5, <3>4, SpiChannel DEF Spi!TypeOK, Fits
      <4> QED
        BY <1>1, <2>1, <2>2, <2>3, <3>1, <4>1 DEF SpiInv
    <3>6. Spi!StrayOnlyOutsideHold
      BY <2>1 DEF Spi!StrayOnlyOutsideHold, Spi!Stray
    <3>7. Spi!IrqStaleOnlyByMarkOrReset
      BY <2>1, <3>1, <3>2 DEF Spi!IrqStaleOnlyByMarkOrReset, Spi!IrqStale, Spi!Watermarks, Spi!Settled, Spi!num_available
    <3>8. Spi!MisledOnlyByResetOrOverrun
      BY <2>1, <3>1, <3>2 DEF Spi!MisledOnlyByResetOrOverrun, Spi!Misled, Spi!Settled, Spi!num_free
    <3> QED
      BY <2>4, <3>5, <3>6, <3>7, <3>8 DEF SpiExplained
  <2> QED
    BY <2>6, <2>7
<1>8. CASE Spi!StartBurst
  <2>1. /\ xfer = "woken" /\ tx' = nb_read(tx) /\ xfer' = "frame"
        /\ low' = low \/ (low' = low \cup {csid} /\ csid # Spi!NoLine)
        /\ Spi!update_irq(tx', rx', spi_ie')
        /\ UNCHANGED <<spi_in_reset, rx, csid, csmode, txmark, rxmark, spi_ie>>
    BY <1>8, SpiChannel DEF Spi!StartBurst, Spi!Driven
  <2>2. tx' \in Fifos(Frames) /\ Fits(tx', SpiDepth)
    BY <1>1, <2>1, FifoRead
  <2>3. Spi!OverheardOnlyAtStart
    BY <2>1 DEF Spi!OverheardOnlyAtStart, Spi!Overheard
  <2> QED
    BY <1>1, <2>1, <2>2, <2>3, SpiRecomputes
<1>9. ASSUME NEW answered \in BOOLEAN, Spi!EndFrame(answered) PROVE SpiInv' /\ SpiExplained
  <2>1. /\ rx' = rx \/ rx' = nb_write(rx, "byte", SpiDepth)
        /\ tx' = tx \/ (tx.q # <<>> /\ tx' = nb_read(tx))
        /\ xfer' = "frame" \/ (xfer' = "waits" /\ tx'.q = <<>>)
        /\ low' = low \/ (low' = low \cup {csid} /\ csid # Spi!NoLine)
        /\ Spi!update_irq(tx', rx', spi_ie')
        /\ UNCHANGED <<spi_in_reset, csid, csmode, txmark, rxmark, spi_ie>>
    <3>1. /\ rx' = rx \/ rx' = nb_write(rx, "byte", SpiDepth)
          /\ Spi!update_irq(tx', rx', spi_ie')
          /\ UNCHANGED <<spi_in_reset, csid, csmode, txmark, rxmark, spi_ie>>
      BY <1>9, SpiChannel DEF Spi!EndFrame
    <3>2. CASE Len(tx.q) > 0
      <4>1. tx' = nb_read(tx) /\ xfer' = "frame" /\ low' = low
        BY <1>9, <3>2, SpiChannel DEF Spi!EndFrame
      <4>2. tx.q # <<>>
        BY <3>2
      <4> QED
        BY <3>1, <4>1, <4>2
    <3>3. CASE ~(Len(tx.q) > 0)
      <4>1. tx' = tx /\ xfer' = "waits" /\ low' = Spi!Driven(csmode = Spi!Auto)
        BY <1>9, <3>3, SpiChannel DEF Spi!EndFrame
      <4>2. tx.q = <<>>
        BY <1>1, <3>3, FifoIs
      <4> QED
        BY <3>1, <4>1, <4>2 DEF Spi!Driven
    <3> QED
      BY <3>2, <3>3
  <2>2. tx' \in Fifos(Frames) /\ Fits(tx', SpiDepth)
    BY <1>1, <2>1, FifoRead
  <2>3. rx' \in Fifos(Frames) /\ Fits(rx', SpiDepth)
    BY <1>1, <2>1, FifoWrite
  <2>4. Spi!OverheardOnlyAtStart
    BY <2>1 DEF Spi!OverheardOnlyAtStart, Spi!Overheard
  <2> QED
    BY <1>1, <2>1, <2>2, <2>3, <2>4, SpiRecomputes
<1> QED
  BY <1>2, <1>3, <1>4, <1>5, <1>6, <1>7, <1>8, <1>9 DEF Spi!Next

LEMMA SpiRests == ASSUME UNCHANGED spi PROVE (SpiInv => SpiInv') /\ SpiExplained
<1>1. SpiInv => SpiInv'
  BY SpiChannel DEF spi, SpiInv, Spi!TypeOK
<1>2. SpiExplained
  BY DEF spi, SpiExplained, Spi!StrayOnlyOutsideHold, Spi!Stray,
     Spi!IrqStaleOnlyByMarkOrReset, Spi!IrqStale, Spi!Watermarks, Spi!Settled, Spi!num_available,
     Spi!MisledOnlyByResetOrOverrun, Spi!Misled, Spi!num_free, Spi!OverheardOnlyAtStart, Spi!Overheard
<1> QED
  BY <1>1, <1>2

LEMMA SpiStarts == ASSUME Spi!Init PROVE SpiInv
<1>1. /\ tx \in Fifos(Frames) /\ Fits(tx, SpiDepth)
      /\ rx \in Fifos(Frames) /\ Fits(rx, SpiDepth)
  BY SpiChannel, FifoStarts, SerialAssumption DEF Spi!Init
<1> QED
  BY <1>1, SpiChannel, SerialAssumption DEF Spi!Init, SpiInv, Spi!TypeOK, Fits

-----------------------------------------------------------------------------
(* The SPI master of Pulpino. A transfer is under way in every state but IDLE, *)
(* in the mode of the state, and the thread is only at the bits of a state     *)
(* that has some.                                                              *)
Words == {"tx", "rx"}

TxStates == {"DUMMY_TX", "DATA_TX", "WAIT_TX"}
RxStates == {"DUMMY_RX", "DATA_RX", "WAIT_RX"}

InMode ==
  /\ state # "IDLE" => transferinProgress
  /\ state \in TxStates => tx_mode
  /\ state \in RxStates => rx_mode
  /\ sending > 0 => at \notin {"IDLE", "FINISHED"}

MasterInv ==
  /\ Master!TypeOK /\ Master!FinishedMeansIdle /\ InMode
  /\ transferinProgress \in BOOLEAN /\ tx_mode \in BOOLEAN /\ rx_mode \in BOOLEAN
  /\ rd \in BOOLEAN /\ started \in BOOLEAN
  /\ fifo \in Seq(Words) /\ tx_status_help \in 0..(TxWords - 1)

MasterExplained ==
  /\ Master!StuckOnlyByLastRead /\ Master!UnstartedOnlyByReset /\ Master!ResentExplained
  /\ Master!OtherCountsExplained /\ Master!WordsAreCounted

(* Counting up and down in the arithmetic of the counters. *)
LEMMA CountsWrap ==
  ASSUME NEW m \in Nat \ {0}, NEW n \in 0..(m - 1)
  PROVE  /\ (n + 1) % m \in 0..(m - 1) /\ (n + m - 1) % m \in 0..(m - 1)
         /\ n > 0 => (n + m - 1) % m = n - 1
<1>1. (n + 1) % m \in 0..(m - 1) /\ (n + m - 1) % m \in 0..(m - 1)
  BY ModSplit
<1>2. ASSUME n > 0 PROVE (n + m - 1) % m = n - 1
  <2>1. n + m - 1 = m * 1 + (n - 1) /\ n - 1 \in 0..(m - 1)
    BY <1>2
  <2>2. (m * 1 + (n - 1)) % m = n - 1
    BY <2>1, ModUnique
  <2> QED
    BY <2>1, <2>2
<1> QED
  BY <1>1, <1>2

(* Where state_change leads. *)
LEMMA NextState ==
  ASSUME MasterInv, NEW q \in Seq(Words), NEW c, NEW s, s = Master!state_change(q, c)
  PROVE  /\ s \in Master!States
         /\ s # "IDLE" => transferinProgress
         /\ s \in TxStates => tx_mode
         /\ s \in RxStates => rx_mode
         /\ s = "WAIT_RX" /\ q = <<>> => state = "WAIT_RX"
         /\ state = "FINISHED" => s = "FINISHED"
<1>1. /\ state \in Master!States
      /\ state # "IDLE" => transferinProgress
      /\ state \in TxStates => tx_mode
      /\ state \in RxStates => rx_mode
  BY DEF MasterInv, Master!TypeOK, InMode
<1>2. q = <<>> => Len(q) < 2
  OBVIOUS
<1> DEFINE Good(none) ==
      /\ s \in Master!States /\ s # "WAIT_RX"
      /\ s # "IDLE" \/ none = "IDLE"
      /\ s \in TxStates => tx_mode
      /\ s \in RxStates => rx_mode
<1>3. ASSUME NEW none \in {"IDLE", "FINISHED"}, s = Master!DataOr(none) PROVE Good(none)
  BY <1>3 DEF Master!DataOr, Master!States, TxStates, RxStates
<1>4. ASSUME NEW none \in {"IDLE", "FINISHED"}, s = Master!AddressOr(none) PROVE Good(none)
  <2>1. CASE "ADDRESS" \in prefix
    BY <1>4, <2>1 DEF Master!AddressOr, Master!States, TxStates, RxStates
  <2>2. CASE "ADDRESS" \notin prefix
    BY <1>3, <1>4, <2>2 DEF Master!AddressOr
  <2> QED
    BY <2>1, <2>2
<1>5. CASE state = "IDLE"
  <2>1. s = IF ~transferinProgress THEN "IDLE"
            ELSE IF "COMMAND" \in prefix THEN "COMMAND" ELSE Master!AddressOr("IDLE")
    BY <1>5 DEF Master!state_change
  <2>2. CASE ~transferinProgress
    BY <1>5, <2>1, <2>2 DEF Master!States, TxStates, RxStates
  <2>3. CASE transferinProgress /\ "COMMAND" \in prefix
    BY <1>5, <2>1, <2>3 DEF Master!States, TxStates, RxStates
  <2>4. CASE transferinProgress /\ "COMMAND" \notin prefix
    <3>1. Good("IDLE")
      BY <1>4, <2>1, <2>4
    <3> QED
      BY <1>5, <2>4, <3>1
  <2> QED
    BY <2>2, <2>3, <2>4
<1>6. CASE state = "COMMAND"
  <2>1. s = Master!AddressOr("FINISHED")
    BY <1>6 DEF Master!state_change
  <2> QED
    BY <1>1, <1>4, <1>6, <2>1
<1>7. CASE state = "ADDRESS"
  <2>1. s = Master!DataOr("FINISHED")
    BY <1>7 DEF Master!state_change
  <2> QED
    BY <1>1, <1>3, <1>7, <2>1
<1>8. CASE state = "DUMMY_TX" \/ state = "DUMMY_RX"
  <2>1. (state = "DUMMY_TX" /\ s = "DATA_TX") \/ (state = "DUMMY_RX" /\ s = "DATA_RX")
    BY <1>8 DEF Master!state_change
  <2> QED
    BY <1>1, <2>1 DEF Master!States, TxStates, RxStates
<1>9. CASE state = "DATA_TX" \/ state = "WAIT_TX"
  <2>1. s \in {"FINISHED", "DATA_TX", "WAIT_TX"}
    BY <1>9 DEF Master!state_change
  <2> QED
    BY <1>1, <1>9, <2>1 DEF Master!States, TxStates, RxStates
<1>10. CASE state = "DATA_RX" \/ state = "WAIT_RX"
  <2>1. s \in {"FINISHED", "DATA_RX", "WAIT_RX"} /\ (s = "WAIT_RX" => state = "WAIT_RX" \/ ~(Len(q) < 2))
    <3>1. CASE state = "DATA_RX"
      BY <3>1 DEF Master!state_change, Master!maxSizefifo
    <3>2. CASE state = "WAIT_RX"
      BY <3>2 DEF Master!state_change, Master!Waits
    <3> QED
      BY <1>10, <3>1, <3>2
  <2> QED
    BY <1>1, <1>2, <1>10, <2>1 DEF Master!States, TxStates, RxStates
<1>11. CASE state = "FINISHED"
  <2>1. s = "FINISHED"
    BY <1>11 DEF Master!state_change
  <2> QED
    BY <1>1, <1>11, <2>1 DEF Master!States, TxStates, RxStates
<1> QED
  BY <1>1, <1>5, <1>6, <1>7, <1>8, <1>9, <1>10, <1>11 DEF Master!States

(* The facts of the invariant, for the steps. *)
LEMMA MasterFacts ==
  ASSUME MasterInv
  PROVE  /\ state \in Master!States /\ at \in Master!States /\ sending \in 0..2
         /\ tx_status \in 0..(TxWords - 1) /\ rx_status \in 0..(RxWords - 1)
         /\ TxWords \in Nat \ {0} /\ RxWords \in Nat \ {0}
         /\ tx_status_help \in 0..(TxWords - 1)
         /\ ~(tx_mode /\ rx_mode) /\ fifo \in Seq(Words)
         /\ transferinProgress \in BOOLEAN /\ tx_mode \in BOOLEAN /\ rx_mode \in BOOLEAN
         /\ rd \in BOOLEAN /\ started \in BOOLEAN
         /\ (rd /\ transferinProgress) => state = "FINISHED"
         /\ state # "IDLE" => transferinProgress
         /\ state \in TxStates => tx_mode
         /\ state \in RxStates => rx_mode
         /\ sending > 0 => at \notin {"IDLE", "FINISHED"}
BY SerialAssumption DEF MasterInv, Master!TypeOK, Master!FinishedMeansIdle, InMode

(* What every step leads to. *)
LEMMA MasterKept ==
  ASSUME state' \in Master!States, at' \in Master!States, sending' \in 0..2,
         tx_status' \in 0..(TxWords - 1), rx_status' \in 0..(RxWords - 1),
         tx_status_help' \in 0..(TxWords - 1),
         ~(tx_mode' /\ rx_mode'), fifo' \in Seq(Words),
         transferinProgress' \in BOOLEAN, tx_mode' \in BOOLEAN, rx_mode' \in BOOLEAN,
         rd' \in BOOLEAN, started' \in BOOLEAN,
         (rd' /\ transferinProgress') => state' = "FINISHED",
         state' # "IDLE" => transferinProgress',
         state' \in TxStates => tx_mode',
         state' \in RxStates => rx_mode',
         sending' > 0 => at' \notin {"IDLE", "FINISHED"}
  PROVE  MasterInv'
BY DEF MasterInv, Master!TypeOK, Master!FinishedMeansIdle, InMode

(* The thread's own step into the next state. *)
LEMMA MasterContinues ==
  ASSUME MasterInv, Master!Continue, fifo' \in Seq(Words),
         tx_status' \in 0..(TxWords - 1), rx_status' \in 0..(RxWords - 1),
         tx_status_help' = tx_status_help, started' \in BOOLEAN,
         rd' = rd \/ (rd' = TRUE /\ state = "FINISHED")
  PROVE  /\ MasterInv' /\ Master!StuckOnlyByLastRead
         /\ tx_mode' => tx_mode
         /\ rx_mode' => rx_mode
         /\ transferinProgress' => transferinProgress
         /\ state = "FINISHED" => state' \in {"IDLE", "FINISHED"}
         /\ state = "IDLE" /\ ~transferinProgress => state' = "IDLE"
<1> USE MasterFacts
<1>1. CASE Master!Leaves(state)
  <2>1. /\ state' = "IDLE" /\ transferinProgress' = FALSE /\ tx_mode' = FALSE /\ rx_mode' = FALSE
        /\ sending' = 0 /\ at' = "IDLE"
    BY <1>1 DEF Master!Continue
  <2>2. MasterInv'
    <3>1. rd' \in BOOLEAN
      OBVIOUS
    <3>2. state' \in Master!States /\ at' \in Master!States /\ sending' \in 0..2
      BY <2>1 DEF Master!States
    <3>3. transferinProgress' \in BOOLEAN /\ tx_mode' \in BOOLEAN /\ rx_mode' \in BOOLEAN
      BY <2>1
    <3>4. state' \notin TxStates /\ state' \notin RxStates
      BY <2>1 DEF TxStates, RxStates
    <3> QED
      BY <2>1, <3>1, <3>2, <3>3, <3>4, MasterKept
  <2>3. Master!StuckOnlyByLastRead
    BY <2>1 DEF Master!StuckOnlyByLastRead, Master!Stuck
  <2> QED
    BY <2>1, <2>2, <2>3
<1>2. CASE ~Master!Leaves(state)
  <2>1. /\ state' = Master!state_change(fifo', data_counter')
        /\ transferinProgress' = transferinProgress /\ tx_mode' = tx_mode /\ rx_mode' = rx_mode
        /\ sending' = 0 /\ at' = "IDLE"
    BY <1>2 DEF Master!Continue
  <2>2. /\ state' \in Master!States
        /\ state' # "IDLE" => transferinProgress
        /\ state' \in TxStates => tx_mode
        /\ state' \in RxStates => rx_mode
        /\ state' = "WAIT_RX" /\ fifo' = <<>> => state = "WAIT_RX"
        /\ state = "FINISHED" => state' = "FINISHED"
    BY <2>1, NextState
  <2>3. (rd' /\ transferinProgress') => state' = "FINISHED"
    BY <2>1, <2>2
  <2>4. MasterInv'
    <3>1. rd' \in BOOLEAN /\ "IDLE" \in Master!States
      BY DEF Master!States
    <3> QED
      BY <2>1, <2>2, <2>3, <3>1, MasterKept
  <2>5. Master!StuckOnlyByLastRead
    BY <2>2 DEF Master!StuckOnlyByLastRead, Master!Stuck
  <2> QED
    BY <2>1, <2>2, <2>4, <2>5
<1> QED
  BY <1>1, <1>2

LEMMA MasterSoftware ==
  ASSUME MasterInv,
         \/ Master!SoftwareReset \/ Master!CsWrite \/ Master!TxWrite \/ Master!RxRead \/ Master!LengthWrite
         \/ \E mode \in {"tx", "rx"} : Master!StatusWrite(mode)
  PROVE  MasterInv' /\ MasterExplained
<1> USE MasterFacts DEF Master!thread, Master!regs
<1>0. Master!StatusStores =>
        tx_status' \in 0..(TxWords - 1) /\ rx_status' \in 0..(RxWords - 1) /\ rd' = FALSE
  BY SerialAssumption DEF Master!StatusStores
<1>1. CASE Master!SoftwareReset
  <2>1. /\ state' = "IDLE" /\ transferinProgress' = FALSE /\ tx_mode' = FALSE /\ rx_mode' = FALSE
        /\ fifo' = <<>> /\ tx_status' = 0 /\ tx_status_help' = 0 /\ rx_status' = 0 /\ rd' = FALSE
        /\ UNCHANGED <<sending, at, started>>
    BY <1>1 DEF Master!SoftwareReset, Master!Cleared
  <2>2. <<>> \in Seq(Words) /\ 0 \in 0..(TxWords - 1) /\ 0 \in 0..(RxWords - 1)
    OBVIOUS
  <2>3. MasterInv'
    BY <2>1, <2>2, MasterKept DEF Master!States, TxStates, RxStates
  <2> QED
    BY <2>1, <2>3 DEF MasterExplained, Master!StuckOnlyByLastRead, Master!Stuck,
       Master!UnstartedOnlyByReset, Master!Unstarted, Master!ResentExplained, Master!Resent,
       Master!OtherCountsExplained, Master!OtherCounts, Master!WordsAreCounted, Master!Miscounted
<1>2. ASSUME UNCHANGED <<state, sending, at, started>>, fifo' \in Seq(Words),
             tx_status' \in 0..(TxWords - 1), rx_status' \in 0..(RxWords - 1),
             tx_status_help' \in 0..(TxWords - 1),
             transferinProgress' \in BOOLEAN, tx_mode' \in BOOLEAN, rx_mode' \in BOOLEAN,
             ~(tx_mode' /\ rx_mode'),
             rd' = FALSE \/ UNCHANGED <<rd, transferinProgress>>,
             transferinProgress => transferinProgress' /\ UNCHANGED <<tx_mode, rx_mode>>
      PROVE  /\ MasterInv' /\ Master!StuckOnlyByLastRead /\ Master!UnstartedOnlyByReset
             /\ Master!WordsAreCounted
  <2>1. state # "IDLE" => transferinProgress'
    BY <1>2
  <2>2. state \in TxStates => tx_mode'
    BY <1>2 DEF TxStates
  <2>3. state \in RxStates => rx_mode'
    BY <1>2 DEF RxStates
  <2>4. rd' \in BOOLEAN /\ ((rd' /\ transferinProgress') => state = "FINISHED")
    <3>1. CASE rd' = FALSE
      BY <3>1
    <3>2. CASE rd' = rd /\ transferinProgress' = transferinProgress
      BY <3>2
    <3> QED
      BY <1>2, <3>1, <3>2
  <2>5. MasterInv'
    BY <1>2, <2>1, <2>2, <2>3, <2>4, MasterKept
  <2> QED
    BY <1>2, <2>5 DEF Master!StuckOnlyByLastRead, Master!Stuck, Master!UnstartedOnlyByReset,
       Master!Unstarted, Master!WordsAreCounted
<1>3. CASE Master!CsWrite \/ Master!LengthWrite
  <2>1. /\ UNCHANGED <<state, sending, at, started, fifo, tx_status_help, transferinProgress, tx_mode, rx_mode>>
        /\ rd' = FALSE \/ rd' = rd
        /\ tx_status' \in 0..(TxWords - 1) /\ rx_status' \in 0..(RxWords - 1)
        /\ Master!CsWrite \/ UNCHANGED <<tx_status, rx_status>>
    <3>1. CASE Master!CsWrite
      BY <1>0, <3>1 DEF Master!CsWrite
    <3>2. CASE Master!LengthWrite
      BY <3>2 DEF Master!LengthWrite
    <3> QED
      BY <1>3, <3>1, <3>2
  <2>2. tx_status_help' \in 0..(TxWords - 1)
    BY <2>1
  <2>3. /\ transferinProgress' \in BOOLEAN /\ tx_mode' \in BOOLEAN /\ rx_mode' \in BOOLEAN
        /\ ~(tx_mode' /\ rx_mode') /\ fifo' \in Seq(Words)
    BY <2>1
  <2>4. MasterInv' /\ Master!StuckOnlyByLastRead /\ Master!UnstartedOnlyByReset /\ Master!WordsAreCounted
    BY <1>2, <2>1, <2>2, <2>3
  <2>5. Master!ResentExplained
    BY <2>1 DEF Master!ResentExplained, Master!Resent
  <2>6. Master!OtherCountsExplained
    BY <2>1 DEF Master!OtherCountsExplained, Master!OtherCounts
  <2> QED
    BY <2>4, <2>5, <2>6 DEF MasterExplained
<1>4. CASE Master!TxWrite
  <2>1. /\ ~rx_mode /\ fifo' = Append(fifo, "tx")
        /\ tx_status' = (tx_status + 1) % TxWords
        /\ tx_status_help' = tx_status_help \/ tx_status_help' = tx_status'
        /\ UNCHANGED <<state, sending, at, started, transferinProgress, tx_mode, rx_mode, rx_status, rd>>
    BY <1>4 DEF Master!TxWrite
  <2>2. fifo' \in Seq(Words) /\ Len(fifo') = Len(fifo) + 1 /\ Len(fifo) \in Nat
        /\ fifo'[Len(fifo) + 1] = "tx"
    BY <2>1, SMTT(40) DEF Words
  <2>3. tx_status' \in 0..(TxWords - 1)
    BY <2>1, CountsWrap
  <2>4. MasterInv' /\ Master!StuckOnlyByLastRead /\ Master!UnstartedOnlyByReset /\ Master!WordsAreCounted
    BY <1>2, <2>1, <2>2, <2>3
  <2>5. ASSUME NEW k \in DOMAIN fifo', fifo'[k] = "rx" PROVE k \in DOMAIN fifo /\ fifo[k] = "rx"
    BY <2>1, <2>2, <2>5, SMTT(40)
  <2>6. Master!ResentExplained
    BY <2>1, <2>5 DEF Master!ResentExplained, Master!Resent
  <2>7. Master!OtherCountsExplained
    BY <2>1 DEF Master!OtherCountsExplained, Master!OtherCounts
  <2> QED
    BY <2>4, <2>6, <2>7 DEF MasterExplained
<1>5. CASE Master!RxRead
  <2>1. /\ fifo # <<>> /\ fifo' = Tail(fifo)
        /\ rx_status' = (rx_status + RxWords - 1) % RxWords
        /\ UNCHANGED <<state, sending, at, started, transferinProgress, tx_mode, rx_mode, tx_status, tx_status_help, rd>>
    BY <1>5 DEF Master!RxRead
  <2>2. fifo' \in Seq(Words) /\ Len(fifo') = Len(fifo) - 1 /\ Len(fifo) \in Nat \ {0}
    BY <2>1
  <2>3. rx_status' \in 0..(RxWords - 1)
    BY <2>1, CountsWrap
  <2>4. MasterInv' /\ Master!StuckOnlyByLastRead /\ Master!UnstartedOnlyByReset /\ Master!WordsAreCounted
    BY <1>2, <2>1, <2>2, <2>3
  <2>5. ASSUME NEW k \in DOMAIN fifo', fifo'[k] = "rx" PROVE k + 1 \in DOMAIN fifo /\ fifo[k + 1] = "rx"
    BY <2>1, <2>2, <2>5, SMTT(40)
  <2>6. Master!ResentExplained
    BY <2>1, <2>5 DEF Master!ResentExplained, Master!Resent
  <2>7. Master!OtherCountsExplained
    BY <1>5, <2>1 DEF Master!OtherCountsExplained, Master!OtherCounts
  <2> QED
    BY <2>4, <2>6, <2>7 DEF MasterExplained
<1>6. ASSUME NEW mode \in {"tx", "rx"}, Master!StatusWrite(mode) PROVE MasterInv' /\ MasterExplained
  <2>1. /\ UNCHANGED <<state, sending, at, started, fifo, tx_status_help>> /\ rd' = FALSE
        /\ tx_status' \in 0..(TxWords - 1) /\ rx_status' \in 0..(RxWords - 1) /\ transferinProgress' = TRUE
    BY <1>0, <1>6 DEF Master!StatusWrite
  <2>4. Master!OtherCountsExplained
    BY <1>6 DEF Master!OtherCountsExplained
  <2>2. CASE transferinProgress
    <3>1. UNCHANGED <<tx_mode, rx_mode>>
      BY <1>6, <2>2 DEF Master!StatusWrite
    <3>2. MasterInv' /\ Master!StuckOnlyByLastRead /\ Master!UnstartedOnlyByReset /\ Master!WordsAreCounted
      <4>1. /\ tx_status' \in 0..(TxWords - 1) /\ rx_status' \in 0..(RxWords - 1)
            /\ tx_status_help' \in 0..(TxWords - 1) /\ fifo' \in Seq(Words)
        BY <2>1
      <4>2. /\ transferinProgress' \in BOOLEAN /\ tx_mode' \in BOOLEAN /\ rx_mode' \in BOOLEAN
            /\ ~(tx_mode' /\ rx_mode')
        BY <2>1, <3>1
      <4> QED
        BY <1>2, <2>1, <3>1, <4>1, <4>2
    <3>3. Master!ResentExplained
      BY <2>1, <3>1 DEF Master!ResentExplained, Master!Resent
    <3> QED
      BY <2>4, <3>2, <3>3 DEF MasterExplained
  <2>3. CASE ~transferinProgress
    <3>1. tx_mode' = (mode = "tx") /\ rx_mode' = (mode = "rx")
      BY <1>6, <2>3 DEF Master!StatusWrite
    <3>2. tx_mode' \in BOOLEAN /\ rx_mode' \in BOOLEAN /\ ~(tx_mode' /\ rx_mode')
      BY <3>1
    <3>3. MasterInv' /\ Master!StuckOnlyByLastRead /\ Master!UnstartedOnlyByReset /\ Master!WordsAreCounted
      <4>1. /\ tx_status' \in 0..(TxWords - 1) /\ rx_status' \in 0..(RxWords - 1)
            /\ tx_status_help' \in 0..(TxWords - 1) /\ fifo' \in Seq(Words)
            /\ transferinProgress' \in BOOLEAN
        BY <2>1
      <4> QED
        BY <1>2, <2>1, <2>3, <3>2, <4>1
    <3>4. Master!ResentExplained
      BY <2>1 DEF Master!ResentExplained, Master!Resent
    <3> QED
      BY <2>4, <3>3, <3>4 DEF MasterExplained
  <2> QED
    BY <2>2, <2>3
<1> QED
  BY <1>1, <1>3, <1>4, <1>5, <1>6

LEMMA MasterThread ==
  ASSUME MasterInv, Master!Instant \/ Master!Finished \/ Master!Begin \/ Master!Rest \/ Master!End
  PROVE  MasterInv' /\ MasterExplained
<1> USE MasterFacts DEF Master!regs
<1>1. CASE Master!Instant
  <2>1. /\ Master!Continue /\ sending = 0 /\ state # "FINISHED"
        /\ started' <=> (started \/ (state = "IDLE" /\ transferinProgress))
        /\ started' \in BOOLEAN
        /\ tx_status' = tx_status \/ (tx_mode /\ tx_status' = tx_status_help)
        /\ UNCHANGED <<fifo, tx_status_help, rx_status, rd>>
    BY <1>1 DEF Master!Instant
  <2>2. tx_status' \in 0..(TxWords - 1)
    BY <2>1
  <2>3. /\ MasterInv' /\ Master!StuckOnlyByLastRead
        /\ tx_mode' => tx_mode
        /\ rx_mode' => rx_mode
        /\ state = "IDLE" /\ ~transferinProgress => state' = "IDLE"
    BY <2>1, <2>2, MasterContinues
  <2>4. Master!UnstartedOnlyByReset
    BY <2>1, <2>3 DEF Master!UnstartedOnlyByReset, Master!Unstarted
  <2>5. Master!ResentExplained /\ Master!OtherCountsExplained /\ Master!WordsAreCounted
    BY <2>1, <2>3 DEF Master!ResentExplained, Master!Resent, Master!OtherCountsExplained,
       Master!OtherCounts, Master!WordsAreCounted
  <2> QED
    BY <2>3, <2>4, <2>5 DEF MasterExplained
<1>2. CASE Master!Finished
  <2>1. /\ Master!Continue /\ sending = 0 /\ state = "FINISHED" /\ rd' = TRUE /\ started' = FALSE
        /\ UNCHANGED <<fifo, tx_status, tx_status_help, rx_status>>
    BY <1>2 DEF Master!Finished
  <2>2. /\ MasterInv' /\ Master!StuckOnlyByLastRead
        /\ tx_mode' => tx_mode
        /\ rx_mode' => rx_mode
        /\ state' \in {"IDLE", "FINISHED"}
    BY <2>1, MasterContinues
  <2>3. Master!UnstartedOnlyByReset
    BY <2>2 DEF Master!UnstartedOnlyByReset, Master!Unstarted
  <2>4. Master!ResentExplained /\ Master!OtherCountsExplained /\ Master!WordsAreCounted
    BY <2>1, <2>2 DEF Master!ResentExplained, Master!Resent, Master!OtherCountsExplained,
       Master!OtherCounts, Master!WordsAreCounted
  <2> QED
    BY <2>2, <2>3, <2>4 DEF MasterExplained
<1>3. CASE Master!Begin \/ Master!Rest
  <2>1. /\ UNCHANGED <<state, transferinProgress, tx_mode, rx_mode, fifo, tx_status, tx_status_help, rx_status, rd, started>>
        /\ sending' \in 0..2
        /\ at' \in Master!States /\ at' \notin {"IDLE", "FINISHED"}
        /\ sending # 1
    <3>1. CASE Master!Begin
      BY <3>1 DEF Master!Begin
    <3>2. CASE Master!Rest
      BY <3>2 DEF Master!Rest
    <3> QED
      BY <1>3, <3>1, <3>2
  <2>2. MasterInv'
    BY <2>1, MasterKept
  <2> QED
    BY <2>1, <2>2 DEF MasterExplained, Master!StuckOnlyByLastRead, Master!Stuck,
       Master!UnstartedOnlyByReset, Master!Unstarted, Master!ResentExplained, Master!Resent,
       Master!OtherCountsExplained, Master!OtherCounts, Master!WordsAreCounted
<1>4. CASE Master!End
  <2>1. /\ Master!Continue /\ sending = 1 /\ sending' = 0
        /\ undefined' <=> (at = "DATA_TX" /\ fifo = <<>>)
        /\ UNCHANGED <<tx_status_help, rd, started>>
    BY <1>4 DEF Master!End, Master!Continue
  <2>2. CASE at = "DATA_TX"
    <3>1. /\ tx_status' = (tx_status + TxWords - 1) % TxWords /\ rx_status' = rx_status
          /\ fifo' = IF fifo # <<>> THEN Tail(fifo) ELSE fifo
      BY <1>4, <2>2 DEF Master!End
    <3>2. tx_status' \in 0..(TxWords - 1) /\ (tx_status > 0 => tx_status' = tx_status - 1)
      BY <3>1, CountsWrap
    <3>3. fifo # <<>> => /\ Tail(fifo) \in Seq(Words) /\ Len(Tail(fifo)) = Len(fifo) - 1
                         /\ Len(fifo) \in Nat \ {0}
                         /\ \A k \in DOMAIN Tail(fifo) : k + 1 \in DOMAIN fifo /\ Tail(fifo)[k] = fifo[k + 1]
      OBVIOUS
    <3>4. fifo' \in Seq(Words)
      BY <3>1, <3>3
    <3>5. /\ MasterInv' /\ Master!StuckOnlyByLastRead
          /\ tx_mode' => tx_mode
          /\ rx_mode' => rx_mode
          /\ state = "FINISHED" => state' \in {"IDLE", "FINISHED"}
          /\ state = "IDLE" /\ ~transferinProgress => state' = "IDLE"
      BY <2>1, <3>1, <3>2, <3>4, MasterContinues
    <3>6. Master!UnstartedOnlyByReset
      BY <2>1, <2>2, <3>5 DEF Master!UnstartedOnlyByReset, Master!Unstarted, Master!Interrupted
    <3>7. Master!ResentExplained
      <4>1. ASSUME NEW k \in DOMAIN fifo', fifo'[k] = "rx" PROVE \E j \in DOMAIN fifo : fifo[j] = "rx"
        BY <3>1, <3>3, <4>1
      <4> QED
        BY <3>5, <4>1 DEF Master!ResentExplained, Master!Resent
    <3>8. at = state => tx_mode /\ ~rx_mode
      BY <2>2 DEF TxStates
    <3>9. Master!OtherCountsExplained
      BY <2>1, <3>1, <3>5, <3>8 DEF Master!OtherCountsExplained, Master!OtherCounts, Master!Interrupted
    <3>10. Master!WordsAreCounted
      <4>1. ASSUME fifo # <<>>, tx_status = Len(fifo) PROVE tx_status' = Len(fifo')
        BY <3>1, <3>2, <3>3, <4>1
      <4> QED
        BY <2>1, <2>2, <3>5, <4>1 DEF Master!WordsAreCounted, Master!Miscounted
    <3> QED
      BY <3>5, <3>6, <3>7, <3>9, <3>10 DEF MasterExplained
  <2>3. CASE at = "DATA_RX"
    <3>1. /\ rx_status' = (rx_status + 1) % RxWords /\ tx_status' = tx_status
          /\ fifo' = Append(fifo, "rx")
      BY <1>4, <2>3 DEF Master!End
    <3>2. rx_status' \in 0..(RxWords - 1)
      BY <3>1, CountsWrap
    <3>3. fifo' \in Seq(Words)
      BY <3>1 DEF Words
    <3>4. /\ MasterInv' /\ Master!StuckOnlyByLastRead
          /\ tx_mode' => tx_mode
          /\ rx_mode' => rx_mode
          /\ state = "FINISHED" => state' \in {"IDLE", "FINISHED"}
          /\ state = "IDLE" /\ ~transferinProgress => state' = "IDLE"
      BY <2>1, <3>1, <3>2, <3>3, MasterContinues
    <3>5. at = state => rx_mode /\ ~tx_mode
      BY <2>3 DEF RxStates
    <3>6. Master!UnstartedOnlyByReset
      BY <2>1, <2>3, <3>4 DEF Master!UnstartedOnlyByReset, Master!Unstarted, Master!Interrupted
    <3>7. Master!ResentExplained /\ Master!OtherCountsExplained /\ Master!WordsAreCounted
      BY <2>1, <3>1, <3>4, <3>5, SMTT(40) DEF Master!ResentExplained, Master!Resent, Master!OtherCountsExplained,
         Master!OtherCounts, Master!WordsAreCounted, Master!Miscounted, Master!Interrupted
    <3> QED
      BY <3>4, <3>6, <3>7 DEF MasterExplained
  <2>4. CASE at \notin {"DATA_TX", "DATA_RX"}
    <3>1. UNCHANGED <<rx_status, tx_status, fifo>>
      BY <1>4, <2>4 DEF Master!End
    <3>2. /\ MasterInv' /\ Master!StuckOnlyByLastRead
          /\ tx_mode' => tx_mode
          /\ rx_mode' => rx_mode
          /\ state = "FINISHED" => state' \in {"IDLE", "FINISHED"}
          /\ state = "IDLE" /\ ~transferinProgress => state' = "IDLE"
      BY <2>1, <3>1, MasterContinues
    <3>3. Master!UnstartedOnlyByReset
      BY <2>1, <3>2 DEF Master!UnstartedOnlyByReset, Master!Unstarted, Master!Interrupted
    <3>4. Master!ResentExplained /\ Master!OtherCountsExplained /\ Master!WordsAreCounted
      BY <3>1, <3>2 DEF Master!ResentExplained, Master!Resent, Master!OtherCountsExplained,
         Master!OtherCounts, Master!WordsAreCounted, Master!Miscounted
    <3> QED
      BY <3>2, <3>3, <3>4 DEF MasterExplained
  <2> QED
    BY <2>2, <2>3, <2>4
<1> QED
  BY <1>1, <1>2, <1>3, <1>4

LEMMA MasterStep == ASSUME MasterInv, Master!Next PROVE MasterInv' /\ MasterExplained
BY MasterSoftware, MasterThread DEF Master!Next

LEMMA MasterRests == ASSUME UNCHANGED master PROVE (MasterInv => MasterInv') /\ MasterExplained
<1>1. MasterInv => MasterInv'
  BY DEF master, MasterInv, InMode, Master!TypeOK, Master!FinishedMeansIdle
<1>2. MasterExplained
  BY DEF master, MasterExplained, Master!StuckOnlyByLastRead, Master!Stuck,
     Master!UnstartedOnlyByReset, Master!Unstarted, Master!ResentExplained, Master!Resent,
     Master!OtherCountsExplained, Master!OtherCounts, Master!WordsAreCounted, Master!Miscounted
<1> QED
  BY <1>1, <1>2

LEMMA MasterStarts == ASSUME Master!Init PROVE MasterInv
<1>1. <<>> \in Seq(Words) /\ 0 \in 0..(TxWords - 1) /\ 0 \in 0..(RxWords - 1)
  BY SerialAssumption
<1>2. Master!TypeOK /\ fifo \in Seq(Words) /\ tx_status_help \in 0..(TxWords - 1)
  BY <1>1 DEF Master!Init, Master!TypeOK, Master!States
<1>3. /\ transferinProgress \in BOOLEAN /\ tx_mode \in BOOLEAN /\ rx_mode \in BOOLEAN
      /\ rd \in BOOLEAN /\ started \in BOOLEAN
  BY DEF Master!Init
<1>4. Master!FinishedMeansIdle
  BY DEF Master!Init, Master!FinishedMeansIdle
<1>5. InMode
  BY DEF Master!Init, InMode, TxStates, RxStates
<1> QED
  BY <1>2, <1>3, <1>4, <1>5 DEF MasterInv
-----------------------------------------------------------------------------
(* The serial blocks together. *)
SerialInv == MuartInv /\ SuartInv /\ PuartInv /\ QspiInv /\ SpiInv /\ MasterInv

LEMMA SerialStarts == SerialInit => SerialInv
BY MuartStarts, SuartStarts, PuartStarts, QspiStarts, SpiStarts, MasterStarts DEF SerialInit, SerialInv

(* A step moves one block and leaves the others where they are. *)
LEMMA OneTransmits ==
  ASSUME [SerialNext]_serialVars
  PROVE  /\ Muart!Next \/ UNCHANGED muart
         /\ Suart!Next \/ UNCHANGED suart
         /\ Puart!Next \/ UNCHANGED puart
         /\ Qspi!Next \/ UNCHANGED qspi
         /\ Spi!Next \/ UNCHANGED spi
         /\ Master!Next \/ UNCHANGED master
BY DEF SerialNext, serialVars

LEMMA SerialStep ==
  ASSUME SerialInv, [SerialNext]_serialVars
  PROVE  /\ SerialInv' /\ Muart!DroppedOnlyUnasked /\ SuartExplained /\ PuartExplained
         /\ Qspi!OutOfStepOnlyBySelection /\ SpiExplained /\ MasterExplained
<1> USE DEF SerialInv
<1>1. MuartInv' /\ Muart!DroppedOnlyUnasked
  BY OneTransmits, MuartStep, MuartRests
<1>2. SuartInv' /\ SuartExplained
  BY OneTransmits, SuartStep, SuartRests
<1>3. PuartInv' /\ PuartExplained
  BY OneTransmits, PuartStep, PuartRests
<1>4. QspiInv' /\ Qspi!OutOfStepOnlyBySelection
  BY OneTransmits, QspiStep, QspiRests
<1>5. SpiInv' /\ SpiExplained
  BY OneTransmits, SpiStep, SpiRests
<1>6. MasterInv' /\ MasterExplained
  BY OneTransmits, MasterStep, MasterRests
<1> QED
  BY <1>1, <1>2, <1>3, <1>4, <1>5, <1>6

(* The inductive invariant of the serial blocks: what their FIFOs, queues    *)
(* and devices hold, and how far each thread is, for any depth and length.   *)
THEOREM SerialInvHolds == SerialSpec => []SerialInv
<1>1. SerialInv /\ [SerialNext]_serialVars => SerialInv'
  BY SerialStep
<1> QED
  BY <1>1, SerialStarts, PTL DEF SerialSpec

(* Every character written to the MINRES UART is in the line of its          *)
(* initiator, on its way or dropped, in the order of the writes, and none    *)
(* waits for a thread that waits; and an SPI master that reports itself      *)
(* finished is finished: for any depths, lengths and numbers of writes.      *)
THEOREM StreamsAreKeptHolds == SerialSpec => []StreamsAreKept
<1>1. SerialInv => StreamsAreKept
  BY MuartSays DEF SerialInv, StreamsAreKept, MuartInv, SuartInv, PuartInv, QspiInv, SpiInv, MasterInv
<1> QED
  BY <1>1, SerialInvHolds, PTL

(* Characters forgotten or dropped, bytes for the wrong slave, words sent    *)
(* again and reads that wait for ever have only the causes the modules name; *)
(* what a serial memory decodes leaves what was meant only by a selection.   *)
THEOREM LossesAreExplainedHolds == SerialSpec => LossesAreExplained
<1>1. SerialInv /\ [SerialNext]_serialVars =>
        [/\ Muart!DroppedOnlyUnasked
         /\ Suart!ForgottenOnlyInIdleBit /\ Suart!DeceivedOnlyByReset
         /\ Qspi!OutOfStepOnlyBySelection
         /\ Spi!MisledOnlyByResetOrOverrun /\ Spi!OverheardOnlyAtStart /\ Spi!StrayOnlyOutsideHold
         /\ Master!StuckOnlyByLastRead /\ Master!UnstartedOnlyByReset /\ Master!ResentExplained]_serialVars
  BY SerialStep DEF SuartExplained, SpiExplained, MasterExplained
<1> QED
  BY <1>1, SerialInvHolds, PTL DEF SerialSpec, LossesAreExplained

(* Interrupts, status bits and counts go wrong only by the hands the modules *)
(* name.                                                                     *)
THEOREM SignalsAreExplainedHolds == SerialSpec => SignalsAreExplained
<1>1. SerialInv /\ [SerialNext]_serialVars =>
        [/\ Suart!MarkedFullOnlyInNoTime
         /\ Puart!UnannouncedOnlyByRead /\ Puart!WrongOnlyByWrite
         /\ Spi!IrqStaleOnlyByMarkOrReset
         /\ Master!OtherCountsExplained /\ Master!WordsAreCounted]_serialVars
  BY SerialStep DEF SuartExplained, PuartExplained, SpiExplained, MasterExplained
<1> QED
  BY <1>1, SerialInvHolds, PTL DEF SerialSpec, SignalsAreExplained
=============================================================================
