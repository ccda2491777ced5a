-------------------------- MODULE NetworkProofs --------------------------
(***************************************************************************)
(* Theorems of MinresEthmac for rings of any size, any frames and any      *)
(* lengths announced, and of the bridge to a host interface of HostPhy for *)
(* any packets, words of any width, and any order of its threads' steps.   *)
(***************************************************************************)
EXTENDS MCNetwork, NatLemmas, TLAPS

Words == [of : Nat, at : Nat]

(* An empty ring, and a reader who has read nothing. *)
LEMMA EmptyRing ==
  /\ <<>> \in Seq([of : Nat, at : Nat])
  /\ Len(<<>>) = 0 /\ 0 <= RxWords
  /\ NoWord \in [of : Nat, at : Nat]
BY EthmacAssumption DEF NoWord

(* The values of counters at the start and after a reset. *)
LEMMA Sizes ==
  /\ 0 \in 0..(TxBytes \div 4) /\ 0 \in 0..TxBytes
  /\ SizeMod - 1 \in 0..(SizeMod - 1)
BY EthmacAssumption

(* What an arriving frame becomes in the ring. *)
LEMMA FrameIsWords ==
  ASSUME NEW n \in Nat
  PROVE  /\ FrameWords(n) \in Seq(Words)
         /\ Len(FrameWords(n)) \in Nat \ {0}
<1> DEFINE size == n + 4 + (IF "tx_aligner_enable" \in ctrl THEN 2 ELSE 0)
           words == (size + 3) \div 4
<1>1. words \in Nat
  OBVIOUS
<1> HIDE DEF words
<1>2. FrameWords(n) = [k \in 1..(words + 1) |-> [of |-> words, at |-> k - 1]]
  BY DEF FrameWords, words
<1>3. \A k \in 1..(words + 1) : [of |-> words, at |-> k - 1] \in Words
  BY <1>1 DEF Words
<1> QED
  BY <1>1, <1>2, <1>3

(* A frame goes into the ring as far as there is room. *)
LEMMA ReceiveFits ==
  ASSUME TypeOK, NEW n \in Nat, ReceiveFrame(n)
  PROVE  /\ rx_buffer' \in Seq(Words)
         /\ Len(rx_buffer') <= RxWords
         /\ rx_drops' \in {0, 1}
         /\ rx_pending' \in BOOLEAN
         /\ \/ UNCHANGED <<rx_buffer, rx_pending>>
            \/ rx_buffer' # <<>> /\ rx_pending' = TRUE
<1> DEFINE room == RxWords - Len(rx_buffer)
           frame == FrameWords(n)
<1>1. /\ rx_buffer \in Seq(Words) /\ Len(rx_buffer) \in Nat /\ Len(rx_buffer) <= RxWords
      /\ rx_drops \in {0, 1} /\ rx_pending \in BOOLEAN /\ RxWords \in Nat
  BY EthmacAssumption DEF TypeOK, Words
<1>2. frame \in Seq(Words) /\ Len(frame) \in Nat \ {0}
  BY FrameIsWords
<1>3. CASE room = 0
  <2>1. UNCHANGED <<rx_buffer, rx_pending>> /\ rx_drops' = 1
    BY <1>3 DEF ReceiveFrame
  <2> QED
    BY <1>1, <2>1
<1>4. CASE room # 0
  <2> DEFINE k == MinOf(room, Len(frame))
  <2>1. /\ rx_buffer' = rx_buffer \o SubSeq(frame, 1, k)
        /\ rx_pending' = TRUE
        /\ rx_drops' \in {rx_drops, 1}
    BY <1>4 DEF ReceiveFrame
  <2>2. k \in 1..Len(frame) /\ k <= room
    BY <1>1, <1>2, <1>4 DEF MinOf
  <2> HIDE DEF k, frame
  <2>3. SubSeq(frame, 1, k) \in Seq(Words) /\ Len(SubSeq(frame, 1, k)) = k
    BY <1>2, <2>2
  <2>4. /\ rx_buffer' \in Seq(Words)
        /\ Len(rx_buffer') = Len(rx_buffer) + k
    BY <1>1, <2>1, <2>3
  <2>5. k \in Nat /\ k > 0 /\ k <= RxWords - Len(rx_buffer)
    BY <1>1, <1>2, <2>2
  <2>6. Len(rx_buffer') <= RxWords /\ rx_buffer' # <<>>
    BY <1>1, <2>4, <2>5
  <2> QED
    BY <1>1, <2>1, <2>4, <2>6
<1> QED
  BY <1>3, <1>4

(* The transmitter's own registers after any write of mac_tx. *)
LEMMA WriteType ==
  ASSUME TypeOK, TxEpilogue,
         \/ \E len \in TxLens : WriteLength(len)
         \/ WriteData
  PROVE  /\ tx_state' \in {"LENGTH", "ALIGN", "DATA"}
         /\ tx_expected_bytes' \in 0..(SizeMod - 1)
         /\ tx_size' \in 0..TxBytes
         /\ words_avail' \in 0..(TxBytes \div 4)
         /\ words_avail' * 4 <= TxBytes - tx_size'
<1>1. /\ TxBytes \in Nat \ {0} /\ TxBytes % 4 = 0 /\ SizeMod \in Nat \ {0}
      /\ TxLens \subseteq 0..(SizeMod - 1)
  BY EthmacAssumption
<1>2. /\ tx_size' \in 0..TxBytes
      /\ tx_state' \in {"LENGTH", "ALIGN", "DATA"}
      /\ tx_expected_bytes' \in 0..(SizeMod - 1)
  <2>1. ASSUME NEW len \in TxLens, WriteLength(len)
        PROVE  tx_expected_bytes' \in 0..(SizeMod - 1)
    <3>1. len \in Int /\ len - 2 \in Int /\ len \in 0..(SizeMod - 1)
      BY <1>1
    <3>2. (len - 2) % SizeMod \in 0..(SizeMod - 1)
      BY <1>1, <3>1, ModSplit
    <3> QED
      BY <2>1, <3>1, <3>2 DEF WriteLength
  <2>2. CASE \E len \in TxLens : WriteLength(len)
    BY <2>1, <2>2 DEF WriteLength, TypeOK
  <2>3. CASE WriteData
    BY <1>1, <2>3 DEF WriteData, TypeOK, MinOf
  <2> QED
    BY <2>2, <2>3
<1>3. words_avail' = (TxBytes - MaxOf(tx_size', 1)) \div 4
  BY DEF TxEpilogue
<1>4. MaxOf(tx_size', 1) \in 1..TxBytes /\ tx_size' <= MaxOf(tx_size', 1)
  BY <1>1, <1>2 DEF MaxOf
<1>5. \A m \in 1..TxBytes : /\ (TxBytes - m) \div 4 \in 0..(TxBytes \div 4)
                            /\ ((TxBytes - m) \div 4) * 4 <= TxBytes - m
  BY <1>1
<1> QED
  BY <1>1, <1>2, <1>3, <1>4, <1>5

(* The three writes of mac_tx. *)
LEMMA TxWrites ==
  ASSUME \/ \E len \in TxLens : TxBegin(len)
         \/ TxData
  PROVE  /\ TxEpilogue
         /\ (\E len \in TxLens : WriteLength(len)) \/ WriteData
BY DEF TxBegin, TxData

-----------------------------------------------------------------------------
(* Every register, flag, ring and counter keeps its type. *)
LEMMA NextType ==
  ASSUME TypeOK, [Next]_vars
  PROVE  TypeOK'
<1> USE DEF Words
<1>1. ASSUME NEW n \in RxSizes, ReceiveFrame(n)
      PROVE  TypeOK'
  <2>1. n \in Nat
    BY EthmacAssumption
  <2> QED
    BY <1>1, <2>1, ReceiveFits DEF ReceiveFrame, TypeOK, update_irq, txVars, intrVars
<1>2. CASE ReadRx
  <2>1. rx_buffer' \in Seq(Words) /\ Len(rx_buffer') <= RxWords /\ last_read' \in Words
    <3>1. rx_buffer \in Seq(Words) /\ Len(rx_buffer) <= RxWords /\ last_read \in Words
      BY DEF TypeOK
    <3> HIDE DEF Words
    <3>2. CASE rx_buffer # <<>>
      <4>1. /\ Head(rx_buffer) \in Words /\ Tail(rx_buffer) \in Seq(Words)
            /\ Len(Tail(rx_buffer)) = Len(rx_buffer) - 1 /\ Len(rx_buffer) \in Nat
        BY <3>1, <3>2
      <4>2. rx_buffer' = Tail(rx_buffer) /\ last_read' = Head(rx_buffer)
        BY <1>2, <3>2 DEF ReadRx
      <4> QED
        BY <3>1, <4>1, <4>2, EthmacAssumption
    <3> QED
      BY <1>2, <3>1, <3>2 DEF ReadRx
  <2> QED
    BY <1>2, <2>1 DEF ReadRx, TypeOK, update_irq, txVars, intrVars
<1>3. CASE (\E len \in TxLens : TxBegin(len)) \/ TxData
  <2>1. /\ tx_state' \in {"LENGTH", "ALIGN", "DATA"}
        /\ tx_expected_bytes' \in 0..(SizeMod - 1)
        /\ tx_size' \in 0..TxBytes
        /\ words_avail' \in 0..(TxBytes \div 4)
    BY <1>3, TxWrites, WriteType
  <2>2. TxEpilogue
    BY <1>3, TxWrites
  <2>3. drv' \in Nat
    <3>1. \A len \in TxLens : len \in Nat
      BY EthmacAssumption
    <3>2. \A len \in Nat : (len + 3) \div 4 \in Nat
      OBVIOUS
    <3> QED
      BY <1>3, <3>1, <3>2 DEF TxBegin, TxData, TypeOK
  <2> QED
    BY <2>1, <2>2, <2>3 DEF TxEpilogue, TypeOK, update_irq, rxVars, intrVars
<1>4. ASSUME NEW bits \in SUBSET CtrlBits, CtrlWrite(bits)
      PROVE  TypeOK'
  <2>1. rx_buffer' \in Seq([of : Nat, at : Nat]) /\ Len(rx_buffer') <= RxWords
    BY <1>4, EmptyRing DEF CtrlWrite, TypeOK
  <2>2. /\ last_read' \in [of : Nat, at : Nat]
        /\ tx_size' \in 0..TxBytes
        /\ drv' \in Nat
    BY <1>4, EmptyRing, Sizes DEF CtrlWrite, TypeOK
  <2>3. tx_ready' \in BOOLEAN /\ rx_pending' \in BOOLEAN /\ ctrl' \subseteq CtrlBits
    BY <1>4 DEF CtrlWrite
  <2> QED
    BY <1>4, <2>1, <2>2, <2>3 DEF CtrlWrite, TypeOK, intrVars
<1>5. CASE CtrlRead
  BY <1>5 DEF CtrlRead, TypeOK, txVars, rxVars, intrVars, TxFull
<1>6. ASSUME NEW bits \in SUBSET IntrBits, IntrWriteBegins(bits)
      PROVE  TypeOK'
  BY <1>6 DEF IntrWriteBegins, TypeOK, ctrlRegs, txVars, rxVars
<1>7. CASE IntrWriteEnds
  BY <1>7 DEF IntrWriteEnds, TypeOK, ctrlRegs, txVars, rxVars, update_irq
<1>8. CASE ResetStart
  BY <1>8, EmptyRing, Sizes DEF ResetStart, TypeOK
<1>9. CASE ResetStop
  BY <1>9, EmptyRing, Sizes DEF ResetStop, TypeOK, ctrlRegs, intrVars
<1>10. CASE UNCHANGED vars
  BY <1>10 DEF vars, TypeOK
<1> QED
  BY <1>1, <1>2, <1>3, <1>4, <1>5, <1>6, <1>7, <1>8, <1>9, <1>10 DEF Next

(* Registers, rings and counters of the MAC stay in range; in particular no   *)
(* sequence of callbacks of mac_rx, mac_tx and mac_ctrl overfills a ring.     *)
THEOREM TypeCorrect == Spec => []TypeOK
<1>1. Init => TypeOK
  <2> SUFFICES ASSUME Init PROVE TypeOK
    OBVIOUS
  <2>1. /\ rx_buffer \in Seq([of : Nat, at : Nat]) /\ Len(rx_buffer) <= RxWords
        /\ last_read \in [of : Nat, at : Nat]
    BY EmptyRing DEF Init
  <2>2. /\ words_avail \in 0..(TxBytes \div 4) /\ tx_size \in 0..TxBytes
        /\ tx_expected_bytes \in 0..(SizeMod - 1)
    BY Sizes DEF Init
  <2> QED
    BY <2>1, <2>2 DEF Init, TypeOK
<1> QED
  BY <1>1, NextType, PTL DEF Spec

(* The words the availability register promises fit into the transmit ring,  *)
(* whenever it was read: src/minres/ethmac.cpp:205 rounds down, and between  *)
(* two writes of mac_tx only a flush or a reset changes the ring.            *)
THEOREM AvailIsSafeHolds == Spec => []AvailIsSafe
<1>1. Init => AvailIsSafe
  BY EthmacAssumption DEF Init, AvailIsSafe
<1>2. ASSUME TypeOK, AvailIsSafe, [Next]_vars
      PROVE  AvailIsSafe'
  <2>1. CASE (\E len \in TxLens : TxBegin(len)) \/ TxData
    BY <1>2, <2>1, TxWrites, WriteType DEF AvailIsSafe
  <2>2. CASE words_avail' = words_avail /\ tx_size' \in {tx_size, 0}
    <3>1. tx_size \in Nat /\ words_avail \in Nat /\ TxBytes \in Nat
      BY <1>2, EthmacAssumption DEF TypeOK
    <3>2. words_avail * 4 <= TxBytes - tx_size
      BY <1>2 DEF AvailIsSafe
    <3>3. words_avail * 4 <= TxBytes - tx_size'
      <4>1. CASE tx_size' = tx_size
        BY <3>2, <4>1
      <4>2. CASE tx_size' = 0
        BY <3>1, <3>2, <4>2
      <4> QED
        BY <2>2, <4>1, <4>2
    <3> QED
      BY <2>2, <3>3 DEF AvailIsSafe
  <2>3. CASE ResetStart
    BY <2>3, EthmacAssumption DEF ResetStart, AvailIsSafe
  <2>4. ASSUME NEW n \in RxSizes, ReceiveFrame(n)
        PROVE  AvailIsSafe'
    BY <2>2, <2>4 DEF ReceiveFrame, txVars
  <2>5. CASE ReadRx \/ CtrlRead \/ IntrWriteEnds \/ UNCHANGED vars
    BY <2>2, <2>5 DEF ReadRx, CtrlRead, IntrWriteEnds, txVars, vars
  <2>6. ASSUME NEW bits \in SUBSET CtrlBits, CtrlWrite(bits)
        PROVE  AvailIsSafe'
    BY <2>2, <2>6 DEF CtrlWrite
  <2>7. ASSUME NEW bits \in SUBSET IntrBits, IntrWriteBegins(bits)
        PROVE  AvailIsSafe'
    BY <2>2, <2>7 DEF IntrWriteBegins, txVars
  <2>8. CASE ResetStop
    BY <2>2, <2>8 DEF ResetStop
  <2> QED
    BY <1>2, <2>1, <2>3, <2>4, <2>5, <2>6, <2>7, <2>8 DEF Next
<1> QED
  BY <1>1, <1>2, TypeCorrect, PTL DEF Spec

-----------------------------------------------------------------------------
(* The output is computed from what the step leaves behind. *)
IrqIsDriven == update_irq(intr', tx_ready', rx_pending')

(* Every action but flush and reset either tells the truth in a flag or       *)
(* touches neither the flag nor its ring, and so it is with the output.       *)
LEMMA StepKinds ==
  ASSUME TypeOK, [Next]_vars
  PROVE  \/ in_reset' # in_reset
         \/ /\ tx_ready' = ~TxFull' \/ UNCHANGED <<tx_ready, TxFull>>
            /\ \/ rx_pending' = (rx_buffer' # <<>>)
               \/ UNCHANGED <<rx_pending, rx_buffer>>
            /\ \/ IrqIsDriven
               \/ UNCHANGED <<irq, intr, tx_ready, rx_pending>>
               \/ CtrlRead
         \/ \E bits \in SUBSET CtrlBits : CtrlWrite(bits)
<1>1. ASSUME NEW n \in RxSizes, ReceiveFrame(n)
      PROVE  /\ UNCHANGED <<tx_ready, TxFull>>
             /\ \/ rx_pending' = (rx_buffer' # <<>>)
                \/ UNCHANGED <<rx_pending, rx_buffer>>
             /\ IrqIsDriven \/ UNCHANGED <<irq, intr, tx_ready, rx_pending>>
  <2>1. n \in Nat
    BY EthmacAssumption
  <2>2. \/ UNCHANGED <<rx_buffer, rx_pending>>
        \/ rx_buffer' # <<>> /\ rx_pending' = TRUE
    BY <1>1, <2>1, ReceiveFits
  <2>3. UNCHANGED <<tx_ready, tx_size, intr>>
    BY <1>1 DEF ReceiveFrame, txVars, intrVars
  <2>4. update_irq(intr, tx_ready, rx_pending') \/ UNCHANGED <<irq, rx_pending>>
    BY <1>1 DEF ReceiveFrame
  <2> QED
    BY <2>2, <2>3, <2>4 DEF TxFull, IrqIsDriven, update_irq
<1>2. ASSUME ReadRx
      PROVE  /\ UNCHANGED <<tx_ready, TxFull>>
             /\ rx_pending' = (rx_buffer' # <<>>)
             /\ IrqIsDriven
  BY <1>2 DEF ReadRx, TxFull, txVars, intrVars, IrqIsDriven, update_irq
<1>3. ASSUME (\E len \in TxLens : TxBegin(len)) \/ TxData
      PROVE  /\ tx_ready' = ~TxFull'
             /\ UNCHANGED <<rx_pending, rx_buffer>>
             /\ IrqIsDriven
  <2>1. TxEpilogue
    BY <1>3, TxWrites
  <2> QED
    BY <2>1 DEF TxEpilogue, TxFull, rxVars, intrVars, IrqIsDriven, update_irq
<1>4. ASSUME CtrlRead
      PROVE  /\ tx_ready' = ~TxFull'
             /\ rx_pending' = (rx_buffer' # <<>>)
  BY <1>4 DEF CtrlRead, TxFull, txVars, rxVars
<1>5. ASSUME NEW bits \in SUBSET IntrBits, IntrWriteBegins(bits)
      PROVE  UNCHANGED <<tx_ready, tx_size, rx_pending, rx_buffer, irq, intr>>
  BY <1>5 DEF IntrWriteBegins, ctrlRegs, txVars, rxVars
<1>6. ASSUME IntrWriteEnds
      PROVE  /\ UNCHANGED <<tx_ready, tx_size, rx_pending, rx_buffer>>
             /\ IrqIsDriven
  BY <1>6 DEF IntrWriteEnds, ctrlRegs, txVars, rxVars, IrqIsDriven, update_irq
<1>7. ASSUME ResetStart \/ ResetStop
      PROVE  in_reset' # in_reset
  BY <1>7 DEF ResetStart, ResetStop
<1>8. ASSUME UNCHANGED vars
      PROVE  UNCHANGED <<tx_ready, tx_size, rx_pending, rx_buffer, irq, intr>>
  BY <1>8 DEF vars
<1>9. tx_size' = tx_size => UNCHANGED TxFull
  BY DEF TxFull
<1> QED
  BY <1>1, <1>2, <1>3, <1>4, <1>5, <1>6, <1>7, <1>8, <1>9 DEF Next

(* A write of mac_ctrl tells the truth about the rings as they are before its *)
(* flushes.                                                                   *)
LEMMA CtrlWriteFlags ==
  ASSUME TypeOK, NEW bits \in SUBSET CtrlBits, CtrlWrite(bits)
  PROVE  /\ tx_ready' = ~TxFull /\ rx_pending' = (rx_buffer # <<>>)
         /\ UNCHANGED <<irq, intr>> /\ ctrl' = bits
         /\ UNCHANGED tx_size \/ ("tx_flush" \in ctrl' /\ tx_size' = 0)
         /\ UNCHANGED rx_buffer \/ ("rx_flush" \in ctrl' /\ rx_buffer' = <<>>)
BY DEF CtrlWrite, intrVars

(* Steps that neither drive the output nor access mac_ctrl leave the rings,   *)
(* too: a frame for a full ring, and the first half of a write of mac_intr.   *)
LEMMA SilentSteps ==
  ASSUME TypeOK, [Next]_vars, ~IrqIsDriven, ~MacCtrl, in_reset' = in_reset
  PROVE  UNCHANGED <<ctrlRegs, tx_size, rx_buffer>>
<1>1. ASSUME NEW n \in RxSizes, ReceiveFrame(n)
      PROVE  UNCHANGED <<ctrlRegs, tx_size, rx_buffer>>
  <2>1. UNCHANGED <<ctrl, tx_ready, tx_size, intr>>
    BY <1>1 DEF ReceiveFrame, txVars, intrVars
  <2>2. update_irq(intr, tx_ready, rx_pending') \/ UNCHANGED <<rx_buffer, rx_pending>>
    BY <1>1 DEF ReceiveFrame
  <2>3. ~update_irq(intr, tx_ready, rx_pending')
    BY <2>1 DEF IrqIsDriven, update_irq
  <2> QED
    BY <2>1, <2>2, <2>3 DEF ctrlRegs
<1>2. ASSUME ReadRx PROVE IrqIsDriven
  BY <1>2 DEF ReadRx, txVars, intrVars, IrqIsDriven, update_irq
<1>3. ASSUME (\E len \in TxLens : TxBegin(len)) \/ TxData
      PROVE  IrqIsDriven
  <2>1. TxEpilogue
    BY <1>3, TxWrites
  <2> QED
    BY <2>1 DEF TxEpilogue, rxVars, intrVars, IrqIsDriven, update_irq
<1>4. ASSUME IntrWriteEnds PROVE IrqIsDriven
  BY <1>4 DEF IntrWriteEnds, ctrlRegs, txVars, rxVars, IrqIsDriven, update_irq
<1>5. ASSUME NEW bits \in SUBSET IntrBits, IntrWriteBegins(bits)
      PROVE  UNCHANGED <<ctrlRegs, tx_size, rx_buffer>>
  BY <1>5 DEF IntrWriteBegins, txVars, rxVars
<1>6. ~ResetStart /\ ~ResetStop
  BY DEF ResetStart, ResetStop
<1>7. UNCHANGED vars => UNCHANGED <<ctrlRegs, tx_size, rx_buffer>>
  BY DEF vars, ctrlRegs
<1> QED
  BY <1>1, <1>2, <1>3, <1>4, <1>5, <1>6, <1>7 DEF Next, MacCtrl

(* The flags disagree with the rings only after a flush that found something  *)
(* or a reset: everywhere else src/minres/ethmac.cpp refreshes the flag of    *)
(* the ring it has touched.                                                   *)
THEOREM StaleOnlyByFlushOrResetHolds == Spec => StaleOnlyByFlushOrReset
<1> DEFINE Explained ==
      \/ in_reset' # in_reset
      \/ "tx_flush" \in ctrl' /\ tx_size # 0
      \/ "rx_flush" \in ctrl' /\ rx_buffer # <<>>
<1>1. ASSUME TypeOK, [Next]_vars, ~Stale, Stale'
      PROVE  Explained
  <2>1. tx_ready = ~TxFull /\ rx_pending = (rx_buffer # <<>>)
    BY <1>1 DEF Stale, TypeOK, TxFull
  <2>2. TypeOK'
    BY <1>1, NextType
  <2>3. ~(tx_ready' = ~TxFull' /\ rx_pending' = (rx_buffer' # <<>>))
    BY <1>1, <2>2 DEF Stale, TypeOK, TxFull
  <2>4. ASSUME NEW bits \in SUBSET CtrlBits, CtrlWrite(bits)
        PROVE  Explained
    <3>1. ("tx_flush" \in ctrl' /\ tx_size # 0) \/ tx_size' = tx_size
      BY <1>1, <2>4, CtrlWriteFlags
    <3>2. ("rx_flush" \in ctrl' /\ rx_buffer # <<>>) \/ rx_buffer' = rx_buffer
      BY <1>1, <2>4, CtrlWriteFlags
    <3> QED
      BY <1>1, <2>3, <2>4, <3>1, <3>2, CtrlWriteFlags DEF TxFull
  <2> QED
    BY <1>1, <2>1, <2>3, <2>4, StepKinds
<1> QED
  BY <1>1, TypeCorrect, PTL DEF Spec, StaleOnlyByFlushOrReset

(* A transmitter in reset does not call itself ready. *)
LEMMA NotReadyInReset == Spec => [](in_reset => ~tx_ready)
<1> DEFINE Quiet == in_reset => ~tx_ready
<1>1. Init => Quiet
  BY DEF Init
<1>2. ASSUME Quiet, [Next]_vars PROVE Quiet'
  <2>1. CASE ResetStart \/ ResetStop
    BY <1>2, <2>1 DEF ResetStart, ResetStop
  <2>2. CASE ~in_reset /\ in_reset' = in_reset
    BY <2>2
  <2>3. CASE UNCHANGED <<in_reset, tx_ready>>
    BY <1>2, <2>3
  <2> QED
    BY <1>2, <2>1, <2>2, <2>3
       DEF Next, ReceiveFrame, ReadRx, TxBegin, TxData, TxEpilogue, CtrlWrite, CtrlRead,
           IntrWriteBegins, IntrWriteEnds, ctrlRegs, vars
<1> QED
  BY <1>1, <1>2, PTL DEF Spec

(* Wherever the flags of src/minres/ethmac.cpp are true, so is the interrupt, *)
(* but after an access of mac_ctrl that has just put a flag right: every      *)
(* other step that changes what is needed, and every one after it that drives *)
(* the output at all, leaves it right.                                        *)
THEOREM IrqFollowsNeedHolds == Spec => IrqFollowsNeed
<1>1. ASSUME TypeOK, in_reset => ~tx_ready, [Next]_vars, IrqWrong'
      PROVE  \/ MacCtrl /\ (Stale \/ IrqWrong)
             \/ IrqWrong /\ UNCHANGED <<ctrlRegs, intr, irq, tx_size, rx_buffer>>
  <2>1. irq' # Needed' /\ ~Stale'
    BY <1>1 DEF IrqWrong
  <2>2. TypeOK'
    BY <1>1, NextType
  <2>3. tx_ready' = ~TxFull' /\ rx_pending' = (rx_buffer' # <<>>)
    BY <2>1, <2>2 DEF Stale, TypeOK, TxFull
  <2>4. ~IrqIsDriven
    BY <2>1, <2>3 DEF IrqIsDriven, update_irq, Needed
  <2>5. in_reset' = in_reset
    <3>1. CASE ResetStart
      BY <2>3, <3>1, EthmacAssumption DEF ResetStart, TxFull
    <3>2. CASE ResetStop
      <4>1. ~tx_ready /\ tx_ready' = tx_ready /\ tx_size' = 0
        BY <1>1, <3>2 DEF ResetStop, ctrlRegs
      <4>2. ~TxFull'
        BY <4>1, EthmacAssumption DEF TxFull
      <4>3. ~tx_ready'
        BY <4>1
      <4>4. ~TxFull' => tx_ready'
        BY <2>3
      <4> QED
        BY <4>2, <4>3, <4>4
    <3> QED
      BY <1>1, <3>1, <3>2
         DEF Next, ReceiveFrame, ReadRx, TxBegin, TxData, TxEpilogue, CtrlWrite, CtrlRead,
             IntrWriteBegins, IntrWriteEnds, vars
  <2>6. CASE MacCtrl
    <3>1. CASE Stale
      BY <2>6, <3>1
    <3>2. CASE ~Stale
      <4>1. tx_ready = ~TxFull /\ rx_pending = (rx_buffer # <<>>)
        BY <1>1, <3>2 DEF Stale, TypeOK, TxFull
      <4>2. CASE CtrlRead
        BY <2>1, <2>6, <3>2, <4>2 DEF CtrlRead, IrqWrong, Needed, TxFull, txVars, rxVars, intrVars
      <4>3. ASSUME NEW bits \in SUBSET CtrlBits, CtrlWrite(bits)
            PROVE  IrqWrong
        <5>1. Needed' = Needed
          BY <1>1, <2>3, <4>1, <4>3, CtrlWriteFlags DEF Needed
        <5> QED
          BY <1>1, <2>1, <3>2, <4>3, <5>1, CtrlWriteFlags DEF IrqWrong
      <4> QED
        BY <2>6, <4>2, <4>3 DEF MacCtrl
    <3> QED
      BY <3>1, <3>2
  <2>7. CASE ~MacCtrl
    <3>1. /\ tx_ready' = ~TxFull' \/ UNCHANGED <<tx_ready, TxFull>>
          /\ rx_pending' = (rx_buffer' # <<>>) \/ UNCHANGED <<rx_pending, rx_buffer>>
          /\ UNCHANGED <<irq, intr, tx_ready, rx_pending>>
      BY <1>1, <2>4, <2>5, <2>7, StepKinds DEF MacCtrl
    <3>2. UNCHANGED <<ctrlRegs, tx_size, rx_buffer>>
      BY <1>1, <2>4, <2>5, <2>7, SilentSteps DEF MacCtrl
    <3> QED
      BY <2>1, <3>1, <3>2 DEF IrqWrong, Stale, Needed, TxFull
  <2> QED
    BY <2>6, <2>7
<1> QED
  BY <1>1, TypeCorrect, NotReadyInReset, PTL DEF Spec, IrqFollowsNeed

-----------------------------------------------------------------------------
(* The ring b holds the rest of what a reader goes on with after the word v,  *)
(* and ends with the last word of a frame.                                    *)
Continues(v, b) ==
  /\ b = <<>> => v.at = v.of
  /\ b # <<>> => /\ Follows(v, b[1])
                 /\ \A k \in 1..(Len(b) - 1) : Follows(b[k], b[k + 1])
                 /\ b[Len(b)].at = b[Len(b)].of

(* FramingIsFlagged is not inductive: a frame may be appended only because    *)
(* the one before it is complete in the ring.                                 *)
Framed == rx_drops = 1 \/ Continues(last_read, rx_buffer)

LEMMA AppendFrame ==
  ASSUME NEW v \in Words, NEW b \in Seq(Words), Continues(v, b), NEW n \in Nat
  PROVE  Continues(v, b \o FrameWords(n))
<1> DEFINE frame == FrameWords(n)
           size == n + 4 + (IF "tx_aligner_enable" \in ctrl THEN 2 ELSE 0)
           words == (size + 3) \div 4
<1>1. words \in Nat
  OBVIOUS
<1> HIDE DEF words
<1>2. frame = [k \in 1..(words + 1) |-> [of |-> words, at |-> k - 1]]
  BY DEF FrameWords, words
<1>3. frame \in Seq(Words) /\ Len(frame) = words + 1
  <2>1. frame \in Seq(Words)
    BY FrameIsWords
  <2>2. Len(frame) = words + 1
    BY <1>1, <1>2
  <2> QED
    BY <2>1, <2>2
<1>4. /\ frame[1].at = 0
      /\ frame[words + 1].at = frame[words + 1].of
      /\ \A k \in 1..words : Follows(frame[k], frame[k + 1])
  BY <1>1, <1>2 DEF Follows
<1> HIDE DEF frame
<1> DEFINE c == b \o frame
<1>5. /\ c \in Seq(Words) /\ Len(c) = Len(b) + words + 1 /\ c # <<>> /\ Len(b) \in Nat
      /\ \A k \in 1..Len(b) : c[k] = b[k]
      /\ \A k \in 1..(words + 1) : c[Len(b) + k] = frame[k]
  BY <1>1, <1>3
<1> HIDE DEF c
<1>6. c[Len(c)].at = c[Len(c)].of
  <2>1. Len(c) = Len(b) + (words + 1) /\ words + 1 \in 1..(words + 1)
    BY <1>1, <1>5
  <2> QED
    BY <1>4, <1>5, <2>1
<1>7. c[Len(b) + 1] = frame[1]
  BY <1>1, <1>5
<1>8. CASE b = <<>>
  <2>1. Len(b) = 0 /\ v.at = v.of
    BY <1>8 DEF Continues
  <2>2. Follows(v, c[1])
    BY <1>4, <1>7, <2>1 DEF Follows
  <2>3. \A k \in 1..(Len(c) - 1) : Follows(c[k], c[k + 1])
    BY <1>1, <1>4, <1>5, <2>1
  <2> QED
    BY <1>5, <1>6, <2>2, <2>3 DEF Continues, c, frame
<1>9. CASE b # <<>>
  <2>1. /\ Len(b) > 0 /\ Follows(v, b[1])
        /\ \A k \in 1..(Len(b) - 1) : Follows(b[k], b[k + 1])
        /\ b[Len(b)].at = b[Len(b)].of
    BY <1>9 DEF Continues
  <2>2. Follows(v, c[1])
    BY <1>5, <2>1
  <2>3. ASSUME NEW k \in 1..(Len(c) - 1)
        PROVE  Follows(c[k], c[k + 1])
    <3>1. CASE k < Len(b)
      <4>1. k \in 1..(Len(b) - 1) /\ k \in 1..Len(b) /\ k + 1 \in 1..Len(b)
        BY <1>5, <3>1
      <4>2. c[k] = b[k] /\ c[k + 1] = b[k + 1]
        BY <1>5, <4>1
      <4> QED
        BY <2>1, <4>1, <4>2
    <3>2. CASE k = Len(b)
      BY <1>4, <1>5, <1>7, <2>1, <3>2 DEF Follows
    <3>3. CASE k > Len(b)
      <4>1. k - Len(b) \in 1..words /\ k = Len(b) + (k - Len(b))
        BY <1>1, <1>5, <3>3
      <4>2. c[k] = frame[k - Len(b)] /\ c[k + 1] = frame[(k - Len(b)) + 1]
        <5>1. /\ (k - Len(b)) + 1 \in 1..(words + 1)
              /\ k + 1 = Len(b) + ((k - Len(b)) + 1)
          BY <1>1, <1>5, <4>1
        <5> QED
          BY <1>1, <1>5, <4>1, <5>1
      <4> QED
        BY <1>4, <4>1, <4>2
    <3> QED
      BY <1>5, <3>1, <3>2, <3>3
  <2> QED
    BY <1>5, <1>6, <2>2, <2>3 DEF Continues, c, frame
<1> QED
  BY <1>8, <1>9

LEMMA TakeWord ==
  ASSUME NEW v \in Words, NEW b \in Seq(Words), Continues(v, b), b # <<>>
  PROVE  Continues(Head(b), Tail(b))
<1>1. /\ Len(b) \in Nat /\ Len(b) > 0 /\ Head(b) = b[1]
      /\ Tail(b) \in Seq(Words) /\ Len(Tail(b)) = Len(b) - 1
      /\ \A k \in 1..(Len(b) - 1) : Tail(b)[k] = b[k + 1]
  OBVIOUS
<1>2. /\ \A k \in 1..(Len(b) - 1) : Follows(b[k], b[k + 1])
      /\ b[Len(b)].at = b[Len(b)].of
  BY DEF Continues
<1>3. CASE Len(b) = 1
  <2>1. Tail(b) = <<>>
    <3>1. Len(Tail(b)) = 0
      BY <1>1, <1>3
    <3>2. \A t \in Seq(Words) : Len(t) = 0 => t = <<>>
      OBVIOUS
    <3> QED
      BY <1>1, <3>1, <3>2
  <2> QED
    BY <1>1, <1>2, <1>3, <2>1 DEF Continues
<1>4. CASE Len(b) > 1
  <2> DEFINE t == Tail(b)
  <2>1. t # <<>> /\ t[1] = b[2] /\ t[Len(t)] = b[Len(b)]
    <3>1. Len(t) = Len(b) - 1 /\ Len(t) \in 1..(Len(b) - 1) /\ 1 \in 1..(Len(b) - 1)
      BY <1>1, <1>4
    <3>2. t[1] = b[1 + 1] /\ t[Len(t)] = b[Len(t) + 1]
      BY <1>1, <3>1
    <3>3. Len(t) # 0
      BY <1>1, <3>1
    <3>4. t # <<>>
      BY <3>3, EmptyRing
    <3> QED
      BY <1>1, <3>1, <3>2, <3>4
  <2>2. Follows(b[1], b[2])
    BY <1>1, <1>2, <1>4
  <2>3. \A k \in 1..(Len(t) - 1) : Follows(t[k], t[k + 1])
    BY <1>1, <1>2, <1>4
  <2> QED
    BY <1>1, <1>2, <2>1, <2>2, <2>3 DEF Continues
<1> QED
  BY <1>1, <1>3, <1>4

LEMMA FramedStep ==
  ASSUME TypeOK, Framed, [Next]_vars
  PROVE  Framed'
<1>1. rx_buffer \in Seq(Words) /\ last_read \in Words /\ RxWords \in Nat
  BY EthmacAssumption DEF TypeOK, Words
<1>2. CASE UNCHANGED rxVars
  BY <1>2 DEF Framed, Continues, rxVars
<1>3. CASE rx_buffer' = <<>> /\ last_read' = NoWord
  BY <1>3 DEF Framed, Continues, NoWord
<1>4. ASSUME NEW n \in RxSizes, ReceiveFrame(n)
      PROVE  Framed'
  <2> DEFINE room == RxWords - Len(rx_buffer)
             frame == FrameWords(n)
  <2>1. n \in Nat
    BY EthmacAssumption
  <2>2. frame \in Seq(Words) /\ Len(frame) \in Nat \ {0}
    BY <2>1, FrameIsWords
  <2>3. UNCHANGED last_read
    BY <1>4 DEF ReceiveFrame
  <2>4. \/ rx_drops' = 1
        \/ /\ room >= Len(frame) /\ rx_drops' = rx_drops
           /\ rx_buffer' = rx_buffer \o SubSeq(frame, 1, Len(frame))
    <3>1. Len(rx_buffer) \in Nat
      BY <1>1
    <3> HIDE DEF frame
    <3>2. CASE room = 0
      BY <1>4, <3>2 DEF ReceiveFrame
    <3>3. CASE room < Len(frame)
      <4>1. RxWords - Len(rx_buffer) < Len(FrameWords(n))
        BY <3>3 DEF frame
      <4> QED
        BY <1>4, <4>1 DEF ReceiveFrame
    <3>4. CASE room # 0 /\ ~(room < Len(frame))
      <4>1. MinOf(room, Len(frame)) = Len(frame) /\ room >= Len(frame)
        BY <1>1, <2>2, <3>1, <3>4 DEF MinOf
      <4>2. /\ rx_buffer' = rx_buffer \o SubSeq(frame, 1, MinOf(room, Len(frame)))
            /\ rx_drops' = IF room < Len(frame) THEN 1 ELSE rx_drops
        BY <1>4, <3>4 DEF ReceiveFrame, frame
      <4> QED
        BY <3>4, <4>1, <4>2
    <3> QED
      BY <3>2, <3>3, <3>4, <1>1, <2>2, <3>1
  <2>5. SubSeq(frame, 1, Len(frame)) = frame
    BY <2>2
  <2>6. CASE rx_drops' = 1
    BY <2>6 DEF Framed
  <2>7. CASE rx_drops' = rx_drops /\ rx_buffer' = rx_buffer \o frame
    <3>1. CASE rx_drops = 1
      BY <2>7, <3>1 DEF Framed
    <3>2. CASE Continues(last_read, rx_buffer)
      <4>1. Continues(last_read, rx_buffer \o frame)
        BY <1>1, <2>1, <3>2, AppendFrame
      <4> QED
        BY <2>3, <2>7, <4>1 DEF Framed, Continues
    <3> QED
      BY <3>1, <3>2 DEF Framed
  <2> QED
    BY <2>4, <2>5, <2>6, <2>7
<1>5. CASE ReadRx
  <2>1. UNCHANGED rx_drops
    BY <1>5 DEF ReadRx
  <2>2. CASE rx_buffer # <<>>
    <3>1. rx_buffer' = Tail(rx_buffer) /\ last_read' = Head(rx_buffer)
      BY <1>5, <2>2 DEF ReadRx
    <3>2. Continues(last_read, rx_buffer) => Continues(Head(rx_buffer), Tail(rx_buffer))
      BY <1>1, <2>2, TakeWord
    <3> QED
      BY <2>1, <3>1, <3>2 DEF Framed, Continues
  <2>3. CASE rx_buffer = <<>>
    BY <1>2, <1>5, <2>1, <2>3 DEF ReadRx, rxVars
  <2> QED
    BY <2>2, <2>3
<1>6. CASE (\E len \in TxLens : TxBegin(len)) \/ TxData
  BY <1>2, <1>6, TxWrites DEF TxEpilogue
<1>7. ASSUME NEW bits \in SUBSET CtrlBits, CtrlWrite(bits)
      PROVE  Framed'
  <2>1. UNCHANGED rx_drops
    BY <1>7 DEF CtrlWrite
  <2> QED
    BY <1>2, <1>3, <1>7, <2>1 DEF CtrlWrite, rxVars
<1>8. ASSUME NEW bits \in SUBSET IntrBits, IntrWriteBegins(bits)
      PROVE  Framed'
  BY <1>2, <1>8 DEF IntrWriteBegins
<1>9. CASE CtrlRead \/ IntrWriteEnds
  BY <1>2, <1>9 DEF CtrlRead, IntrWriteEnds
<1>10. CASE ResetStart \/ ResetStop
  BY <1>3, <1>10 DEF ResetStart, ResetStop
<1>11. CASE UNCHANGED vars
  BY <1>2, <1>11 DEF vars, rxVars
<1> QED
  BY <1>4, <1>5, <1>6, <1>7, <1>8, <1>9, <1>10, <1>11 DEF Next

(* What is read from mac_rx is whole frames in order, or rx_drops says that   *)
(* something is missing: for every size of the ring and of the frames that    *)
(* src/minres/ethmac.cpp:288 may find no room for.                            *)
THEOREM FramingIsFlaggedHolds == Spec => []FramingIsFlagged
<1>1. Init => Framed
  BY DEF Init, Framed, Continues, NoWord
<1>2. ASSUME TypeOK, Framed
      PROVE  FramingIsFlagged
  <2>1. rx_buffer \in Seq(Words) /\ last_read \in Words
    BY <1>2 DEF TypeOK, Words
  <2> DEFINE stream == <<last_read>> \o rx_buffer
  <2>2. /\ Len(stream) = Len(rx_buffer) + 1 /\ Len(rx_buffer) \in Nat
        /\ stream[1] = last_read
        /\ \A k \in 1..Len(rx_buffer) : stream[k + 1] = rx_buffer[k]
    BY <2>1
  <2>3. ASSUME Continues(last_read, rx_buffer), NEW k \in 1..(Len(stream) - 1)
        PROVE  Follows(stream[k], stream[k + 1])
    <3> HIDE DEF stream
    <3>1. rx_buffer # <<>> /\ k \in 1..Len(rx_buffer)
      BY <2>1, <2>2
    <3>2. CASE k = 1
      BY <2>2, <2>3, <3>1, <3>2 DEF Continues
    <3>3. CASE k > 1
      <4>1. k - 1 \in 1..(Len(rx_buffer) - 1)
        BY <2>2, <3>1, <3>3
      <4>2. stream[k] = rx_buffer[k - 1] /\ stream[k + 1] = rx_buffer[k]
        BY <2>2, <3>1, <4>1
      <4>3. Follows(rx_buffer[k - 1], rx_buffer[(k - 1) + 1])
        BY <2>3, <3>1, <4>1 DEF Continues
      <4> QED
        BY <4>1, <4>2, <4>3
    <3> QED
      BY <3>2, <3>3
  <2> QED
    BY <1>2, <2>3 DEF Framed, FramingIsFlagged
<1> QED
  BY <1>1, <1>2, FramedStep, TypeCorrect, PTL DEF Spec

-----------------------------------------------------------------------------
(* A frame begins in an empty ring, and a reset holds the transmitter at the  *)
(* beginning of one.  Both are needed to compare transmitter and driver.      *)
AtStart ==
  /\ tx_state \in {"LENGTH", "ALIGN"} => tx_size = 0
  /\ in_reset => tx_state = "LENGTH"

LEMMA AtStartStep ==
  ASSUME TypeOK, AtStart, [Next]_vars
  PROVE  AtStart'
<1>1. CASE UNCHANGED <<tx_state, tx_size, in_reset>>
  BY <1>1 DEF AtStart
<1>2. ASSUME NEW len \in TxLens, WriteLength(len), TxEpilogue, ~in_reset
      PROVE  AtStart'
  BY <1>2 DEF WriteLength, TxEpilogue, AtStart
<1>3. ASSUME WriteData, TxEpilogue, ~in_reset
      PROVE  AtStart'
  BY <1>3 DEF WriteData, TxEpilogue, AtStart
<1>4. ASSUME (\E len \in TxLens : TxBegin(len)) \/ TxData
      PROVE  AtStart'
  <2>1. ~in_reset
    BY <1>4 DEF TxBegin, TxData
  <2> QED
    BY <1>2, <1>3, <1>4, <2>1, TxWrites
<1>5. ASSUME NEW n \in RxSizes, ReceiveFrame(n)
      PROVE  AtStart'
  BY <1>1, <1>5 DEF ReceiveFrame, txVars
<1>6. ASSUME NEW bits \in SUBSET CtrlBits, CtrlWrite(bits)
      PROVE  AtStart'
  BY <1>6 DEF CtrlWrite, AtStart
<1>7. ASSUME NEW bits \in SUBSET IntrBits, IntrWriteBegins(bits)
      PROVE  AtStart'
  BY <1>1, <1>7 DEF IntrWriteBegins, txVars
<1>8. CASE ReadRx \/ CtrlRead \/ IntrWriteEnds \/ UNCHANGED vars
  BY <1>1, <1>8 DEF ReadRx, CtrlRead, IntrWriteEnds, txVars, vars
<1>9. CASE ResetStart \/ ResetStop
  BY <1>9 DEF ResetStart, ResetStop, AtStart
<1> QED
  BY <1>4, <1>5, <1>6, <1>7, <1>8, <1>9 DEF Next

(* Words that hold x bytes. *)
LEMMA WordCounts ==
  ASSUME NEW x \in Int
  PROVE  /\ x \in 1..4 => (x + 3) \div 4 = 1
         /\ x > 4 => (x + 3) \div 4 > 1 /\ ((x - 4) + 3) \div 4 = (x + 3) \div 4 - 1
         /\ x > 0 => (x + 3) \div 4 >= 1
         /\ (x + 3) \div 4 \in Int
OBVIOUS

(* What is due when the frame has begun, and nothing before. *)
LEMMA DueOrDone ==
  ASSUME TypeOK
  PROVE  WordsDue = 0 <=> tx_state = "LENGTH"
<1>1. tx_expected_bytes \in Nat /\ tx_size \in Nat /\ tx_state \in {"LENGTH", "ALIGN", "DATA"}
  BY EthmacAssumption DEF TypeOK
<1>2. CASE tx_state = "LENGTH"
  BY <1>2 DEF WordsDue
<1>3. CASE tx_state = "ALIGN"
  <2>1. WordsDue = (tx_expected_bytes + 5) \div 4
    BY <1>3 DEF WordsDue
  <2> QED
    BY <1>1, <1>3, <2>1
<1>4. CASE tx_state = "DATA"
  <2>1. WordsDue = MaxOf(1, (tx_expected_bytes - tx_size + 3) \div 4)
    BY <1>4 DEF WordsDue
  <2>2. (tx_expected_bytes - tx_size + 3) \div 4 \in Int
    BY <1>1
  <2> QED
    BY <1>1, <1>4, <2>1, <2>2 DEF MaxOf
<1> QED
  BY <1>1, <1>2, <1>3, <1>4

(* A length that fits: driver and transmitter expect the same words.          *)
LEMMA LengthInSync ==
  ASSUME TypeOK, AtStart, NEW len \in TxLens, WriteLength(len), drv' = (len + 3) \div 4,
         tx_expected_bytes' \in 1..TxBytes
  PROVE  InSync'
<1>1. /\ len \in Nat /\ len < SizeMod /\ SizeMod \in Nat /\ TxBytes \in Nat
      /\ SizeMod > TxBytes + 2
  BY EthmacAssumption
<1>2. tx_size' = 0
  BY DEF WriteLength, AtStart
<1>3. CASE "tx_aligner_enable" \in ctrl
  <2>1. tx_expected_bytes' = (len - 2) % SizeMod /\ tx_state' = "ALIGN"
    BY <1>3 DEF WriteLength
  <2>2. len >= 2
    <3>1. ASSUME len < 2
          PROVE  FALSE
      <4>1. (len - 2) % SizeMod = len - 2 + SizeMod
        <5>1. len - 2 + SizeMod \in 0..(SizeMod - 1)
          BY <1>1, <3>1
        <5>2. SizeMod * (-1) + (len - 2 + SizeMod) = len - 2
          BY <1>1
        <5>3. (SizeMod * (-1) + (len - 2 + SizeMod)) % SizeMod = len - 2 + SizeMod
          BY <1>1, <5>1, ModUnique
        <5> QED
          BY <5>2, <5>3
      <4> QED
        BY <1>1, <2>1, <4>1
    <3> QED
      BY <1>1, <3>1
  <2>3. tx_expected_bytes' = len - 2
    <3>1. len - 2 \in 0..(SizeMod - 1)
      BY <1>1, <2>2
    <3>2. (SizeMod * 0 + (len - 2)) % SizeMod = len - 2
      BY <1>1, <3>1, ModUnique
    <3>3. SizeMod * 0 + (len - 2) = len - 2
      BY <1>1
    <3> QED
      BY <2>1, <3>2, <3>3
  <2>4. (tx_expected_bytes' + 5) \div 4 = (len + 3) \div 4
    <3>1. tx_expected_bytes' + 5 = len + 3
      BY <1>1, <2>3
    <3> QED
      BY <3>1
  <2> QED
    BY <2>1, <2>4 DEF InSync, WordsDue
<1>4. CASE "tx_aligner_enable" \notin ctrl
  <2>1. tx_expected_bytes' = len /\ tx_state' = "DATA"
    BY <1>4 DEF WriteLength
  <2>2. len > 0 /\ len - 0 + 3 = len + 3
    BY <1>1, <2>1
  <2>3. MaxOf(1, (len + 3) \div 4) = (len + 3) \div 4
    BY <1>1, <2>2, WordCounts DEF MaxOf
  <2> QED
    BY <1>2, <2>1, <2>2, <2>3 DEF InSync, WordsDue
<1> QED
  BY <1>3, <1>4

(* A word of a frame that fits: it is the last for both or for neither.       *)
LEMMA DataInSync ==
  ASSUME TypeOK, AtStart, InSync, WriteData, drv' = drv - 1, tx_expected_bytes \in 1..TxBytes
  PROVE  InSync'
<1> DEFINE e == tx_expected_bytes
<1>1. /\ e \in Nat /\ e > 0 /\ e <= TxBytes /\ TxBytes \in Nat
      /\ tx_size \in Nat /\ tx_size <= TxBytes
  BY EthmacAssumption DEF TypeOK
<1>2. tx_expected_bytes' = e
  BY DEF WriteData
<1>3. ASSUME NEW d \in Int, drv = IF d \in Nat /\ d > 0 THEN (d + 3) \div 4 ELSE 1,
             \/ tx_state' = "LENGTH" /\ d <= 4
             \/ tx_state' = "DATA" /\ d > 4 /\ e - tx_size' = d - 4
      PROVE  InSync'
  <2>1. CASE tx_state' = "LENGTH" /\ d <= 4
    <3>1. drv = 1
      BY <1>3, <2>1, WordCounts
    <3>2. drv' = 0
      BY <3>1
    <3> QED
      BY <2>1, <3>2 DEF InSync, WordsDue
  <2>2. CASE tx_state' = "DATA" /\ d > 4 /\ e - tx_size' = d - 4
    <3>1. drv' = ((d - 4) + 3) \div 4 /\ drv' >= 1 /\ drv' \in Int
      BY <1>3, <2>2, WordCounts
    <3>2. WordsDue' = MaxOf(1, ((d - 4) + 3) \div 4)
      BY <1>2, <2>2 DEF WordsDue
    <3> QED
      BY <3>1, <3>2 DEF InSync, MaxOf
  <2> QED
    BY <1>3, <2>1, <2>2
<1>4. CASE tx_state = "ALIGN"
  <2>1. tx_size = 0 /\ drv = (e + 5) \div 4
    BY <1>4 DEF AtStart, InSync, WordsDue
  <2>2. e + 2 \in Nat /\ e + 2 > 0 /\ (e + 2) + 3 = e + 5
    BY <1>1
  <2>3. \/ tx_state' = "LENGTH" /\ MinOf(2, TxBytes) >= e
        \/ tx_state' = "DATA" /\ tx_size' = MinOf(2, TxBytes) /\ MinOf(2, TxBytes) < e
    BY <1>4, <2>1 DEF WriteData
  <2>4. \/ tx_state' = "LENGTH" /\ e + 2 <= 4
        \/ tx_state' = "DATA" /\ e + 2 > 4 /\ e - tx_size' = (e + 2) - 4
    BY <1>1, <2>3, EthmacAssumption DEF MinOf
  <2> QED
    BY <1>3, <2>1, <2>2, <2>4
<1>5. CASE tx_state = "DATA"
  <2> DEFINE d == e - tx_size
  <2>1. drv = MaxOf(1, (d + 3) \div 4)
    BY <1>5 DEF InSync, WordsDue
  <2>2. d \in Int
    BY <1>1
  <2>3. drv = IF d \in Nat /\ d > 0 THEN (d + 3) \div 4 ELSE 1
    <3> HIDE DEF d
    <3>1. CASE d > 0
      BY <2>1, <2>2, <3>1, WordCounts DEF MaxOf
    <3>2. CASE d <= 0
      <4>1. (d + 3) \div 4 <= 0 /\ (d + 3) \div 4 \in Int
        BY <2>2, <3>2
      <4> QED
        BY <2>1, <2>2, <3>2, <4>1 DEF MaxOf
    <3> QED
      BY <2>2, <3>1, <3>2
  <2>4. \/ tx_state' = "LENGTH" /\ MinOf(tx_size + 4, TxBytes) >= e
        \/ tx_state' = "DATA" /\ tx_size' = MinOf(tx_size + 4, TxBytes)
           /\ MinOf(tx_size + 4, TxBytes) < e
    BY <1>5 DEF WriteData
  <2>5. \/ tx_state' = "LENGTH" /\ d <= 4
        \/ tx_state' = "DATA" /\ d > 4 /\ e - tx_size' = d - 4
    BY <1>1, <2>4 DEF MinOf
  <2> HIDE DEF d
  <2> QED
    BY <1>3, <2>2, <2>3, <2>5
<1> QED
  BY <1>4, <1>5 DEF WriteData

(* Driver and transmitter lose the common view of where a frame ends only by  *)
(* a flush in the middle of one or by a length that src/minres/ethmac.cpp     *)
(* cannot hold: no order of receptions, interrupts, control accesses and      *)
(* resets does it.                                                            *)
THEOREM PartOnlyByFlushOrLengthHolds == Spec => PartOnlyByFlushOrLength
<1> DEFINE Explained ==
      \/ "tx_flush" \in ctrl' /\ drv # 0
      \/ tx_expected_bytes' \notin 1..TxBytes
<1>1. Init => AtStart
  BY DEF Init, AtStart
<1>2. ASSUME TypeOK, AtStart, [Next]_vars, InSync, ~InSync', ~Explained
      PROVE  FALSE
  <2>1. drv = WordsDue /\ (drv = 0 <=> tx_state = "LENGTH") /\ drv \in Nat
    BY <1>2, DueOrDone DEF InSync, TypeOK
  <2>2. CASE UNCHANGED <<drv, tx_state, tx_expected_bytes, tx_size>>
    BY <1>2, <2>2 DEF InSync, WordsDue
  <2>3. CASE drv' = 0 /\ tx_state' = "LENGTH"
    BY <1>2, <2>3 DEF InSync, WordsDue
  <2>4. ASSUME NEW len \in TxLens, TxBegin(len)
        PROVE  FALSE
    <3>1. WriteLength(len) /\ drv' = (len + 3) \div 4
      BY <2>1, <2>4 DEF TxBegin, WriteData
    <3> QED
      BY <1>2, <3>1, LengthInSync
  <2>5. CASE TxData
    <3>1. WriteData /\ drv' = drv - 1
      BY <2>1, <2>5 DEF TxData, WriteLength
    <3>2. tx_expected_bytes' = tx_expected_bytes
      BY <3>1 DEF WriteData
    <3> QED
      BY <1>2, <3>1, <3>2, DataInSync
  <2>6. ASSUME NEW bits \in SUBSET CtrlBits, CtrlWrite(bits)
        PROVE  FALSE
    <3>1. CASE "tx_flush" \in bits
      <4>1. drv = 0 /\ drv' = 0 /\ tx_state' = tx_state
        BY <1>2, <2>6, <3>1 DEF CtrlWrite
      <4> QED
        BY <2>1, <2>3, <4>1
    <3>2. CASE "tx_flush" \notin bits
      BY <2>2, <2>6, <3>2 DEF CtrlWrite
    <3> QED
      BY <3>1, <3>2
  <2>7. ASSUME NEW n \in RxSizes, ReceiveFrame(n)
        PROVE  FALSE
    BY <2>2, <2>7 DEF ReceiveFrame, txVars
  <2>8. ASSUME NEW bits \in SUBSET IntrBits, IntrWriteBegins(bits)
        PROVE  FALSE
    BY <2>2, <2>8 DEF IntrWriteBegins, txVars
  <2>9. CASE ReadRx \/ CtrlRead \/ IntrWriteEnds \/ UNCHANGED vars
    BY <2>2, <2>9 DEF ReadRx, CtrlRead, IntrWriteEnds, txVars, vars
  <2>10. CASE ResetStart
    BY <2>3, <2>10 DEF ResetStart
  <2>11. CASE ResetStop
    <3>1. tx_state = "LENGTH" /\ drv' = drv /\ tx_state' = "LENGTH"
      BY <1>2, <2>11 DEF ResetStop, AtStart
    <3> QED
      BY <2>1, <2>3, <3>1
  <2> QED
    BY <1>2, <2>4, <2>5, <2>6, <2>7, <2>8, <2>9, <2>10, <2>11 DEF Next
<1>3. ASSUME TypeOK, AtStart, [Next]_vars
      PROVE  InSync /\ ~InSync' => Explained
  BY <1>2, <1>3
<1> QED
  BY <1>1, <1>3, AtStartStep, TypeCorrect, PTL DEF Spec, PartOnlyByFlushOrLength

-----------------------------------------------------------------------------
(* The checksum of the bridge. *)

(* A sum of natural words is a natural number. *)
LEMMA TotalIsNat == ASSUME NEW words \in Seq(Nat) PROVE Phy!Total(words) \in Nat
<1> DEFINE N == Len(words)
           IsSum(f) == f = [i \in 0..N |-> IF i = 0 THEN 0 ELSE f[i - 1] + words[i]]
<1>1. N \in Nat /\ \A i \in 1..N : words[i] \in Nat
  OBVIOUS
<1> HIDE DEF N
<1>2. \E f : IsSum(f)
  BY <1>1, SumHasRun
<1> DEFINE sum == CHOOSE g : IsSum(g)
<1>3. IsSum(sum)
  <2> HIDE DEF IsSum
  <2> QED
    BY <1>2
<1>4. Phy!Total(words) = sum[N]
  BY DEF Phy!Total, N
<1> HIDE DEF sum
<1> DEFINE P == {i \in 0..N : sum[i] \in Nat}
<1>5. 0 \in P
  BY <1>1, <1>3
<1>6. ASSUME NEW i \in 0..N, i \in P, i < N PROVE i + 1 \in P
  <2>1. i + 1 \in 1..N /\ i + 1 \in 0..N /\ (i + 1) - 1 = i /\ i + 1 # 0
    BY <1>1, <1>6
  <2>2. sum[i + 1] = sum[i] + words[i + 1]
    BY <1>3, <2>1
  <2> QED
    BY <1>1, <1>6, <2>1, <2>2
<1>7. N \in P
  <2> HIDE DEF P
  <2>1. \A i \in 0..N : i \in P
    BY ONLY <1>1, <1>5, <1>6, IntervalInduction
  <2> QED
    BY <1>1, <2>1
<1> QED
  BY <1>4, <1>7

(* One round of adding the carries: a smaller number, and the same modulo    *)
(* Base - 1.                                                                 *)
Carried(sum) == (sum % Base) + (sum \div Base)

LEMMA CarryStep ==
  ASSUME NEW sum \in Nat, ~(sum < Base)
  PROVE  /\ Carried(sum) \in 0..(sum - 1)
         /\ sum = Carried(sum) + (Base - 1) * (sum \div Base) /\ sum \div Base \in Nat
<1> DEFINE q == sum \div Base
           r == sum % Base
<1>1. Base \in Nat \ {0} /\ Base > 1
  BY NetworkAssumption
<1>2. r \in 0..(Base - 1) /\ q \in Int /\ sum = Base * q + r
  BY <1>1, ModSplit
<1> HIDE DEF q, r
<1>3. q >= 1
  <2> SUFFICES ASSUME q <= 0 PROVE FALSE
    BY <1>2
  <2>1. Base * q <= 0
    BY <1>1, <1>2
  <2> QED
    BY <1>1, <1>2, <2>1
<1>4. Base * q = (Base - 1) * q + q
  BY <1>1, <1>2
<1>5. (Base - 1) * q \in Int /\ (Base - 1) * q >= 1
  BY <1>1, <1>2, <1>3
<1>6. sum = r + q + (Base - 1) * q /\ r + q \in 0..(sum - 1)
  BY <1>1, <1>2, <1>3, <1>4, <1>5
<1>7. Carried(sum) = r + q
  BY DEF Carried, q, r
<1> QED
  BY <1>2, <1>3, <1>6, <1>7 DEF q

(* Folding keeps a sum modulo Base - 1 and leaves one word of it. *)
LEMMA FoldIsRest ==
  ASSUME NEW total \in Nat
  PROVE  /\ Phy!checksum_fold(total) \in 0..(Base - 1)
         /\ \E k \in Nat : total = Phy!checksum_fold(total) + (Base - 1) * k
<1> DEFINE IsFold(f) == f = [sum \in 0..total |-> IF sum < Base THEN sum
                                                 ELSE f[(sum % Base) + (sum \div Base)]]
           fold == CHOOSE f : IsFold(f)
           Rest(sum) == /\ fold[sum] \in 0..(Base - 1)
                        /\ \E k \in Nat : sum = fold[sum] + (Base - 1) * k
<1>1. Base \in Nat \ {0} /\ Base - 1 \in Nat \ {0}
  BY NetworkAssumption
<1>2. \E f : IsFold(f)
  <2> DEFINE Stop == {sum \in 0..total : sum < Base}
             next == [sum \in 0..total |-> Carried(sum)]
  <2>1. \A sum \in (0..total) \ Stop : next[sum] \in 0..(sum - 1)
    BY CarryStep
  <2>2. \A sum \in 0..total : next[sum] = (sum % Base) + (sum \div Base) /\ (sum \in Stop <=> sum < Base)
    BY DEF Carried
  <2> HIDE DEF Stop, next
  <2>3. PICK f : Descends(f, total, Stop, next)
    BY <2>1, DescentHasRun
  <2>4. IsFold(f)
    BY <2>2, <2>3 DEF Descends
  <2> HIDE DEF IsFold
  <2> QED
    BY <2>4
<1>3. IsFold(fold)
  <2> HIDE DEF IsFold
  <2> QED
    BY <1>2
<1>4. Phy!checksum_fold(total) = fold[total]
  BY DEF Phy!checksum_fold
<1>5. \A sum \in 0..total : fold[sum] = IF sum < Base THEN sum ELSE fold[Carried(sum)]
  BY <1>3 DEF Carried
<1> HIDE DEF fold
<1> DEFINE P == {n \in 0..total : \A sum \in 0..n : Rest(sum)}
<1>6. ASSUME NEW n \in 0..total, \A sum \in 0..(n - 1) : Rest(sum) PROVE Rest(n)
  <2>1. CASE n < Base
    <3>1. fold[n] = n /\ n = n + (Base - 1) * 0
      BY <1>1, <1>5, <2>1
    <3> QED
      BY <1>1, <2>1, <3>1
  <2>2. CASE ~(n < Base)
    <3> DEFINE m == Carried(n)
               q == n \div Base
    <3>1. m \in 0..(n - 1) /\ n = m + (Base - 1) * q /\ q \in Nat
      BY <2>2, CarryStep
    <3>2. fold[n] = fold[m]
      BY <1>5, <2>2
    <3> HIDE DEF m, q
    <3>3. fold[m] \in 0..(Base - 1)
      BY <1>6, <3>1
    <3>4. PICK k \in Nat : m = fold[m] + (Base - 1) * k
      BY <1>6, <3>1
    <3>5. (Base - 1) * (k + q) = (Base - 1) * k + (Base - 1) * q
      BY <1>1, <3>1, Distributes
    <3>6. n = fold[m] + (Base - 1) * (k + q)
      <4>1. (Base - 1) * k \in Int /\ (Base - 1) * q \in Int
        BY <1>1, <3>1
      <4> QED
        BY <3>1, <3>3, <3>4, <3>5, <4>1
    <3> QED
      BY <3>1, <3>2, <3>3, <3>6
  <2> QED
    BY <2>1, <2>2
<1> HIDE DEF Rest
<1>7. 0 \in P
  <2>1. \A sum \in 0..(0 - 1) : Rest(sum)
    OBVIOUS
  <2>2. Rest(0)
    BY <1>6, <2>1
  <2> QED
    BY <2>2
<1>8. ASSUME NEW n \in 0..total, n \in P, n < total PROVE n + 1 \in P
  <2>1. n + 1 \in 0..total /\ \A sum \in 0..((n + 1) - 1) : Rest(sum)
    BY <1>8
  <2>2. Rest(n + 1)
    BY <1>6, <2>1
  <2>3. \A sum \in 0..(n + 1) : sum \in 0..((n + 1) - 1) \/ sum = n + 1
    OBVIOUS
  <2> QED
    BY <2>1, <2>2, <2>3
<1>9. \A n \in 0..total : n \in P
  <2> HIDE DEF P
  <2> QED
    BY <1>7, <1>8, IntervalInduction
<1> QED
  BY <1>4, <1>9 DEF Rest

Packet == [well_formed : BOOLEAN, fragment : BOOLEAN, protocol : STRING,
           pseudo : Seq(Nat), segment : Seq(Nat), checksum : Nat]

(* The checksum that the bridge puts into a packet is one that a receiver    *)
(* accepts: the words and the complement of their fold add up to nothing.    *)
LEMMA RepairVerifies ==
  ASSUME NEW p \in Packet
  PROVE  LET c == Phy!calculate_transport_checksum(p)
         IN  c \in Nat /\ (Phy!Total(p.pseudo \o p.segment) + c) % (Base - 1) = 0
<1> DEFINE M == Base - 1
           T == Phy!Total(p.pseudo \o p.segment)
           F == Phy!checksum_fold(T)
           c == Phy!calculate_transport_checksum(p)
<1>1. M \in Nat \ {0} /\ Base \in Nat /\ 0 \in 0..(M - 1)
  BY NetworkAssumption
<1>2. T \in Nat
  <2>1. p.pseudo \o p.segment \in Seq(Nat)
    BY DEF Packet
  <2> QED
    BY <2>1, TotalIsNat
<1>3. F \in 0..M /\ \E k \in Nat : T = F + M * k
  <2> HIDE DEF T
  <2> QED
    BY <1>2, FoldIsRest
<1>4. \/ c = M - F
      \/ M - F = 0 /\ c = M
  <2> HIDE DEF F, T
  <2>1. Phy!checksum_finish(T) = M - F
    BY DEF Phy!checksum_finish, F
  <2> QED
    BY <2>1 DEF Phy!calculate_transport_checksum, T
<1>5. PICK k \in Nat : T = F + M * k
  BY <1>3
<1> HIDE DEF M, T, F, c
<1>6. M * (k + 1) = M * k + M /\ M * (k + 2) = M * k + 2 * M /\ M * k \in Int
  BY <1>1
<1>7. T + c = M * (k + 1) \/ T + c = M * (k + 2)
  BY <1>1, <1>3, <1>4, <1>5, <1>6
<1>8. (M * (k + 1) + 0) % M = 0 /\ (M * (k + 2) + 0) % M = 0
  <2>1. k + 1 \in Int /\ k + 2 \in Int
    OBVIOUS
  <2> QED
    BY <1>1, <2>1, ModUnique
<1>9. (T + c) % M = 0
  BY <1>1, <1>7, <1>8
<1>10. c \in Nat
  BY <1>1, <1>3, <1>4
<1> QED
  BY <1>9, <1>10 DEF M, T, c

(* The repair: what was right and what was left to the hardware verifies,    *)
(* and nothing but the checksum of the latter changes.                       *)
LEMMA RepairIsFaithful ==
  ASSUME NEW p \in Packet, NEW fix \in BOOLEAN
  PROVE  LET q == IF fix THEN Phy!fix_ipv4_checksums(p) ELSE p
         IN  /\ q \in Packet
             /\ (fix /\ Phy!Repairable(p)) \/ Phy!Verifies(p) => Phy!Verifies(q)
             /\ ~(fix /\ Phy!Repairable(p)) => q = p
             /\ [q EXCEPT !.checksum = p.checksum] = p
<1> DEFINE c == Phy!calculate_transport_checksum(p)
           r == [p EXCEPT !.checksum = c]
           Due == /\ p.well_formed /\ ~p.fragment /\ p.protocol \in {"tcp", "udp"}
                  /\ ~(p.protocol = "udp" /\ p.checksum = 0)
                  /\ p.checksum = Phy!seed(p)
           Total == Phy!Total(p.pseudo \o p.segment)
<1>1. c \in Nat /\ (Total + c) % (Base - 1) = 0
  BY RepairVerifies
<1>2. Phy!fix_ipv4_checksums(p) = IF Due THEN r ELSE p
  BY DEF Phy!fix_ipv4_checksums
<1>3. [p EXCEPT !.checksum = p.checksum] = p
  BY DEF Packet
<1> HIDE DEF c
<1>4. /\ r \in Packet /\ r.checksum = c
      /\ r.pseudo = p.pseudo /\ r.segment = p.segment /\ r.protocol = p.protocol
      /\ [r EXCEPT !.checksum = p.checksum] = p
  BY <1>1 DEF Packet
<1> HIDE DEF r
<1>5. Phy!Verifies(r)
  BY <1>1, <1>4 DEF Phy!Verifies
<1>6. Phy!Repairable(p) => Due \/ Phy!Verifies(p)
  BY DEF Phy!Repairable, Phy!Verifies
<1>7. Due => Phy!Repairable(p)
  BY DEF Phy!Repairable
<1> HIDE DEF Due
<1> QED
  BY <1>2, <1>3, <1>4, <1>5, <1>6, <1>7

-----------------------------------------------------------------------------
(* The bridge. *)

(* The addresses a thread can see in a model_mac that is being written, and  *)
(* the frames that can come of them.                                         *)
Mixed  == {<<a[1], b[2]>> : a \in Macs \cup {Phy!Zero}, b \in Macs \cup {Phy!Zero}}
Dests  == Macs \cup Mixed \cup {hw_mac, Phy!Broadcast}
Frames == [dest : Dests, packet : Packet]
Held   == [at : {"received", "accepted", "addressed"}, dest : Dests, packet : Packet]

(* What the threads rely on: the receiving one holds one frame at most and   *)
(* has room for it, and nothing is being copied once model_mac is there.     *)
BridgeInv ==
  /\ {map_mac_addr, ipv4_checksum_fix, model_mac_init, listening, data_event, rx_busy} \subseteq BOOLEAN
  /\ que \in Seq(Frames) /\ Len(que) <= QueBound
  /\ que # <<>> => (rx_busy \/ data_event)
  /\ copying \subseteq Macs /\ model_mac \in Macs \cup {Phy!Zero}
  /\ model_mac_init => copying = {}
  /\ learned \subseteq {hw_mac}
  /\ \A frame \in buf : frame \in Held /\ buf = {frame}
  /\ buf # {} => Len(que) < QueBound

(* Addresses are pairs, so what is seen of one that nobody writes is that one. *)
LEMMA SeenIsMixed ==
  ASSUME BridgeInv
  PROVE  /\ Phy!SeenMacs \subseteq Mixed
         /\ copying = {} => Phy!SeenMacs = {model_mac}
<1>1. \A mac \in Macs \cup {Phy!Zero} : mac = <<mac[1], mac[2]>>
  BY NetworkAssumption DEF Phy!Zero
<1>2. copying \subseteq Macs /\ model_mac \in Macs \cup {Phy!Zero}
  BY DEF BridgeInv
<1>3. {model_mac} \cup copying \subseteq Macs \cup {Phy!Zero}
  BY <1>2
<1>4. Phy!SeenMacs \subseteq Mixed
  BY <1>3 DEF Phy!SeenMacs, Mixed
<1>5. ASSUME copying = {} PROVE Phy!SeenMacs = {<<model_mac[1], model_mac[2]>>}
  BY <1>5 DEF Phy!SeenMacs
<1> QED
  BY <1>1, <1>2, <1>4, <1>5

(* What Push puts at the end of the queue. *)
Item(frame) ==
  [dest   |-> frame.dest,
   packet |-> IF ipv4_checksum_fix THEN Phy!fix_ipv4_checksums(frame.packet) ELSE frame.packet]

LEMMA PushAppends ==
  ASSUME BridgeInv, Phy!Push
  PROVE  \E frame \in buf :
           /\ buf = {frame} /\ frame \in Held /\ frame.at = "addressed"
           /\ que' = Append(que, Item(frame))
           /\ que' \in Seq(Frames) /\ Len(que') = Len(que) + 1
           /\ Phy!Last(que') = Item(frame)
<1>1. PICK frame \in buf : frame.at = "addressed" /\ que' = Append(que, Item(frame))
  BY DEF Phy!Push, Item
<1>2. buf = {frame} /\ frame \in Held /\ que \in Seq(Frames) /\ ipv4_checksum_fix \in BOOLEAN
  BY <1>1 DEF BridgeInv
<1> DEFINE item == Item(frame)
<1>3. item \in Frames
  <2> DEFINE q == IF ipv4_checksum_fix THEN Phy!fix_ipv4_checksums(frame.packet) ELSE frame.packet
  <2>1. frame.packet \in Packet /\ frame.dest \in Dests
    BY <1>2 DEF Held
  <2>2. q \in Packet
    BY <1>2, <2>1, RepairIsFaithful
  <2>3. item = [dest |-> frame.dest, packet |-> q]
    BY DEF Item
  <2> HIDE DEF q, item
  <2> QED
    BY <2>1, <2>2, <2>3 DEF Frames
<1> HIDE DEF item
<1>4. que' = Append(que, item)
  BY <1>1 DEF item
<1>5. /\ que' \in Seq(Frames) /\ Len(que') = Len(que) + 1 /\ que'[Len(que')] = item
  BY <1>2, <1>3, <1>4
<1>6. Phy!Last(que') = item
  BY <1>5 DEF Phy!Last
<1> QED
  BY <1>1, <1>2, <1>3, <1>5, <1>6 DEF item

(* What the host thread does to the frame in its hands. *)
LEMMA Handled ==
  ASSUME BridgeInv, Phy!ForUs \/ Phy!MapAddress
  PROVE  \E frame \in buf, seen \in Phy!SeenMacs, next \in Held :
           /\ buf' = {next}
           /\ \/ /\ Phy!Accepts(frame.dest, seen) /\ next.dest = frame.dest
                 /\ next.at = IF map_mac_addr THEN "accepted" ELSE "addressed"
              \/ next.dest = seen
<1>1. Phy!SeenMacs \subseteq Dests
  BY SeenIsMixed DEF Dests
<1>2. CASE Phy!ForUs
  <2>1. PICK frame \in buf, seen \in Phy!SeenMacs :
          /\ Phy!Accepts(frame.dest, seen)
          /\ buf' = {[frame EXCEPT !.at = IF map_mac_addr THEN "accepted" ELSE "addressed"]}
    BY <1>2 DEF Phy!ForUs
  <2> DEFINE next == [frame EXCEPT !.at = IF map_mac_addr THEN "accepted" ELSE "addressed"]
  <2>2. frame \in Held
    BY DEF BridgeInv
  <2>3. /\ next \in Held /\ next.dest = frame.dest
        /\ next.at = IF map_mac_addr THEN "accepted" ELSE "addressed"
    BY <2>2 DEF Held
  <2> QED
    BY <2>1, <2>3
<1>3. CASE Phy!MapAddress
  <2>1. PICK frame \in buf, seen \in Phy!SeenMacs :
          buf' = {[frame EXCEPT !.at = "addressed", !.dest = seen]}
    BY <1>3 DEF Phy!MapAddress
  <2> DEFINE next == [frame EXCEPT !.at = "addressed", !.dest = seen]
  <2>2. frame \in Held
    BY DEF BridgeInv
  <2>3. next \in Held /\ next.dest = seen
    BY <1>1, <2>2 DEF Held
  <2> QED
    BY <2>1, <2>3
<1> QED
  BY <1>2, <1>3

LEMMA BridgeInvInit == ASSUME Phy!Init PROVE BridgeInv
<1>1. que = <<>> /\ buf = {} /\ copying = {} /\ learned = {} /\ model_mac = Phy!Zero
  BY DEF Phy!Init
<1>2. que \in Seq(Frames) /\ Len(que) <= QueBound
  <2>1. <<>> \in Seq(Frames) /\ Len(<<>>) = 0 /\ QueBound >= 0
    BY NetworkAssumption
  <2> QED
    BY <1>1, <2>1
<1>3. {map_mac_addr, ipv4_checksum_fix, model_mac_init, listening, data_event, rx_busy} \subseteq BOOLEAN
  BY DEF Phy!Init
<1> QED
  BY <1>1, <1>2, <1>3 DEF BridgeInv

LEMMA BridgeInvStep ==
  ASSUME BridgeInv, [Phy!Next]_phyVars
  PROVE  BridgeInv'
<1> USE DEF BridgeInv, Phy!params, Phy!tx, Phy!rx
<1>1. ASSUME NEW source \in Macs, Phy!FirstFrame(source) PROVE BridgeInv'
  BY <1>1 DEF Phy!FirstFrame
<1>2. CASE Phy!Copied
  BY <1>2 DEF Phy!Copied
<1>3. CASE Phy!LaterFrame
  BY <1>3 DEF Phy!LaterFrame
<1>4. ASSUME NEW dest \in Macs \cup {hw_mac, Phy!Broadcast}, NEW packet \in Packets,
             Phy!recvfrom(dest, packet)
      PROVE  BridgeInv'
  <2>1. packet \in Packet
    BY NetworkAssumption DEF Packet
  <2>2. [at |-> "received", dest |-> dest, packet |-> packet] \in Held
    BY <2>1 DEF Held, Dests
  <2>3. buf' = {[at |-> "received", dest |-> dest, packet |-> packet]} /\ Len(que) < QueBound
    BY <1>4 DEF Phy!recvfrom
  <2>4. \A frame \in buf' : frame \in Held /\ buf' = {frame}
    BY <2>2, <2>3
  <2> QED
    BY <1>4, <2>3, <2>4 DEF Phy!recvfrom
<1>5. CASE Phy!recvfrom_fails
  BY <1>5 DEF Phy!recvfrom_fails
<1>6. CASE Phy!NotForUs
  BY <1>6 DEF Phy!NotForUs
<1>7. CASE Phy!Push
  <2>1. que' \in Seq(Frames) /\ Len(que') = Len(que) + 1 /\ buf # {}
    BY <1>7, PushAppends
  <2>2. Len(que') <= QueBound /\ que' # <<>>
    BY <2>1, NetworkAssumption
  <2> QED
    BY <1>7, <2>1, <2>2 DEF Phy!Push
<1>8. CASE Phy!TakeFrame
  <2>1. CASE que # <<>> /\ que' = Tail(que) /\ UNCHANGED rx_busy
    <3>1. que' \in Seq(Frames) /\ Len(que') = Len(que) - 1
      BY <2>1
    <3>2. Len(que') <= QueBound /\ (buf # {} => Len(que') < QueBound)
      BY <3>1, NetworkAssumption
    <3> QED
      BY <1>8, <2>1, <3>1, <3>2 DEF Phy!TakeFrame
  <2>2. CASE que = <<>> /\ rx_busy' = FALSE /\ UNCHANGED que
    BY <1>8, <2>2 DEF Phy!TakeFrame
  <2> QED
    BY <1>8, <2>1, <2>2 DEF Phy!TakeFrame
<1>9. CASE Phy!Notified
  BY <1>9 DEF Phy!Notified
<1>10. CASE Phy!ForUs \/ Phy!MapAddress
  <2>1. PICK next \in Held : buf' = {next}
    BY <1>10, Handled
  <2>2. buf # {} /\ UNCHANGED <<map_mac_addr, ipv4_checksum_fix, model_mac, model_mac_init,
                                copying, learned, listening, que, data_event, rx_busy>>
    BY <1>10 DEF Phy!ForUs, Phy!MapAddress
  <2> QED
    BY <2>1, <2>2
<1>11. CASE UNCHANGED phyVars
  BY <1>11 DEF phyVars
<1> QED
  BY <1>1, <1>2, <1>3, <1>4, <1>5, <1>6, <1>7, <1>8, <1>9, <1>10, <1>11 DEF Phy!Next

(* The MAC and the bridge each take their own steps, or none. *)
LEMMA NetStepKinds == [NetNext]_netVars => [Next]_vars /\ [Phy!Next]_phyVars
BY DEF NetNext, netVars

LEMMA MacStep == ASSUME TypeOK, [NetNext]_netVars PROVE TypeOK'
<1>1. CASE Next
  BY <1>1, NextType
<1>2. CASE UNCHANGED vars
  BY <1>2 DEF vars, TypeOK
<1> QED
  BY <1>1, <1>2, NetStepKinds

(* What the MAC of src/minres/ethmac.cpp does beside the bridge is what it   *)
(* does alone: the two share nothing but whole frames.                       *)
THEOREM NetImplementsMac == NetSpec => Spec
<1>1. NetInit => Init
  BY DEF NetInit
<1> QED
  BY <1>1, NetStepKinds, PTL DEF NetSpec, Spec

(* The bridge keeps what its threads rely on. *)
LEMMA BridgeInvHolds == NetSpec => []BridgeInv
<1>1. NetInit => BridgeInv
  BY BridgeInvInit DEF NetInit
<1>2. BridgeInv /\ [NetNext]_netVars => BridgeInv'
  BY BridgeInvStep, NetStepKinds
<1> QED
  BY <1>1, <1>2, PTL DEF NetSpec

(* Whatever the host hears and the model sends, in any order of the two      *)
(* threads' steps, no frame lies in the queue of src/generic/host_phy.cpp    *)
(* while rx_thread sleeps and nothing will wake it.                          *)
THEOREM NoneStrandedHolds == NetSpec => []NoneStranded
<1>1. BridgeInv => Phy!NoneStranded
  BY DEF BridgeInv, Phy!NoneStranded
<1> QED
  BY <1>1, BridgeInvHolds, NetImplementsMac, TypeCorrect, PTL DEF NoneStranded

-----------------------------------------------------------------------------
(* A frame that is dropped was for somebody else. *)
LEMMA PushesAndDrops ==
  ASSUME BridgeInv, [Phy!Next]_phyVars
  PROVE  /\ Phy!Pushed => Phy!Push
         /\ Phy!Dropped => Phy!NotForUs
<1>1. que \in Seq(Frames)
  BY DEF BridgeInv
<1> USE DEF Phy!Pushed, Phy!Dropped, Phy!params, Phy!tx, Phy!rx
<1>2. Phy!Push => Phy!Pushed
  <2> SUFFICES ASSUME Phy!Push PROVE Len(que') > Len(que)
    OBVIOUS
  <2>1. Len(que') = Len(que) + 1 /\ Len(que) \in Nat
    BY <1>1, PushAppends
  <2> QED
    BY <2>1
<1>3. Phy!TakeFrame => ~(Len(que') > Len(que)) /\ buf' = buf
  <2>1. CASE que # <<>> /\ que' = Tail(que)
    BY <1>1, <2>1 DEF Phy!TakeFrame
  <2>2. CASE que' = que
    BY <1>1, <2>2 DEF Phy!TakeFrame
  <2> QED
    BY <2>1, <2>2 DEF Phy!TakeFrame
<1>4. ASSUME que' = que PROVE ~(Len(que') > Len(que))
  BY <1>1, <1>4
<1>5. ASSUME NEW source \in Macs, Phy!FirstFrame(source) PROVE que' = que /\ buf' = buf
  BY <1>5 DEF Phy!FirstFrame
<1>6. ASSUME NEW dest, NEW packet, Phy!recvfrom(dest, packet) PROVE que' = que /\ buf' # {}
  BY <1>6 DEF Phy!recvfrom
<1>7. ASSUME \/ Phy!Copied \/ Phy!LaterFrame \/ Phy!recvfrom_fails \/ Phy!Notified \/ UNCHANGED phyVars
      PROVE  que' = que /\ buf' = buf
  BY <1>7 DEF Phy!Copied, Phy!LaterFrame, Phy!recvfrom_fails, Phy!Notified, phyVars
<1>9. Phy!ForUs \/ Phy!MapAddress => que' = que /\ buf' # {}
  BY DEF Phy!ForUs, Phy!MapAddress
<1>8. Phy!NotForUs => que' = que
  BY DEF Phy!NotForUs
<1> QED
  BY <1>2, <1>3, <1>4, <1>5, <1>6, <1>7, <1>8, <1>9 DEF Phy!Next

(* Once the first frame has gone out, no other address is seen: a frame that *)
(* is astray then was so in the step before.                                 *)
LEMMA AddressesStep ==
  ASSUME BridgeInv, [Phy!Next]_phyVars
  PROVE  Phy!AddressedFromFirstFrameOn
<1> DEFINE Good == {model_mac} \cup (IF map_mac_addr THEN {} ELSE {Phy!Broadcast})
<1> SUFFICES ASSUME model_mac_init
             PROVE  /\ (\E frame \in buf : Phy!Astray(frame))' => buf' = buf
                    /\ Phy!Pushed => \E frame \in buf :
                         frame.dest = Phy!Last(que').dest /\ frame.at = "addressed"
                    /\ (Phy!Dropped /\ map_mac_addr) => \A frame \in buf : frame.dest \notin learned
                    /\ (Phy!Dropped /\ ~map_mac_addr) => \A frame \in buf : frame.dest # model_mac
  BY DEF Phy!AddressedFromFirstFrameOn
<1>1. Phy!SeenMacs = {model_mac} /\ learned \subseteq {hw_mac}
  BY SeenIsMixed DEF BridgeInv
<1>2. Phy!Push => \E frame \in buf : frame.dest = Phy!Last(que').dest /\ frame.at = "addressed"
  <2> SUFFICES ASSUME Phy!Push
               PROVE  \E frame \in buf : frame.dest = Phy!Last(que').dest /\ frame.at = "addressed"
    OBVIOUS
  <2>1. PICK frame \in buf : frame.at = "addressed" /\ Phy!Last(que') = Item(frame)
    BY PushAppends
  <2>2. Item(frame).dest = frame.dest
    BY DEF Item
  <2> QED
    BY <2>1, <2>2
<1>3. ASSUME Phy!NotForUs, NEW frame \in buf
      PROVE  /\ map_mac_addr => frame.dest \notin learned
             /\ ~map_mac_addr => frame.dest # model_mac
  <2>1. \E seen \in Phy!SeenMacs : ~Phy!Accepts(frame.dest, seen)
    BY <1>3 DEF Phy!NotForUs, BridgeInv
  <2> QED
    BY <1>1, <2>1 DEF Phy!Accepts
<1>4. ASSUME Phy!ForUs \/ Phy!MapAddress
      PROVE  ~(\E frame \in buf : Phy!Astray(frame))'
  <2>1. PICK frame \in buf, seen \in Phy!SeenMacs, next \in Held :
          /\ buf' = {next}
          /\ \/ /\ Phy!Accepts(frame.dest, seen) /\ next.dest = frame.dest
                /\ next.at = IF map_mac_addr THEN "accepted" ELSE "addressed"
             \/ next.dest = seen
    BY <1>4, Handled
  <2>2. UNCHANGED <<model_mac, map_mac_addr>> /\ seen = model_mac
    BY <1>1, <1>4 DEF Phy!ForUs, Phy!MapAddress, Phy!params, Phy!tx
  <2>3. next.at = "addressed" => next.dest \in Good
    BY <2>1, <2>2 DEF Phy!Accepts
  <2> QED
    BY <2>1, <2>2, <2>3 DEF Phy!Astray
<1>5. ASSUME NEW dest, NEW packet, Phy!recvfrom(dest, packet)
      PROVE  ~(\E frame \in buf : Phy!Astray(frame))'
  BY <1>5 DEF Phy!recvfrom, Phy!Astray
<1>6. Phy!NotForUs \/ Phy!Push => buf' = {}
  BY DEF Phy!NotForUs, Phy!Push
<1>7. ASSUME NEW source \in Macs, Phy!FirstFrame(source) PROVE buf' = buf
  BY <1>7 DEF Phy!FirstFrame
<1>8. ASSUME \/ Phy!Copied \/ Phy!LaterFrame \/ Phy!recvfrom_fails \/ Phy!TakeFrame
             \/ Phy!Notified \/ UNCHANGED phyVars
      PROVE  buf' = buf
  BY <1>8 DEF Phy!Copied, Phy!LaterFrame, Phy!recvfrom_fails, Phy!TakeFrame, Phy!Notified, phyVars
<1>9. buf' = {} => ~(\E frame \in buf : Phy!Astray(frame))'
  OBVIOUS
<1>10. buf' = buf \/ ~(\E frame \in buf : Phy!Astray(frame))'
  BY <1>4, <1>5, <1>6, <1>7, <1>8, <1>9 DEF Phy!Next
<1> QED
  BY <1>2, <1>3, <1>10, PushesAndDrops

LEMMA ChecksumsStep ==
  ASSUME BridgeInv, [Phy!Next]_phyVars
  PROVE  Phy!ChecksumsAreRepaired
<1> SUFFICES ASSUME Phy!Pushed, NEW frame \in buf
             PROVE  LET p == frame.packet
                        q == Phy!Last(que').packet
                    IN  /\ (ipv4_checksum_fix /\ Phy!Repairable(p)) \/ Phy!Verifies(p) => Phy!Verifies(q)
                        /\ ~(ipv4_checksum_fix /\ Phy!Repairable(p)) => q = p
                        /\ [q EXCEPT !.checksum = p.checksum] = p
  BY DEF Phy!ChecksumsAreRepaired
<1>1. Phy!Last(que') = Item(frame) /\ frame \in Held
  BY PushesAndDrops, PushAppends
<1>2. frame.packet \in Packet /\ ipv4_checksum_fix \in BOOLEAN
  BY <1>1 DEF Held, BridgeInv
<1>3. Phy!Last(que').packet
        = IF ipv4_checksum_fix THEN Phy!fix_ipv4_checksums(frame.packet) ELSE frame.packet
  BY <1>1 DEF Item
<1> QED
  BY <1>2, <1>3, RepairIsFaithful

(* Frames pass the bridge of src/generic/host_phy.cpp under the addresses    *)
(* that their receivers know from the model's first frame on, wherever its    *)
(* two threads are cut, but for the one frame in hand at that moment.         *)
THEOREM BridgeIsFaithfulHolds == NetSpec => BridgeIsFaithful
<1>1. BridgeInv /\ [NetNext]_netVars => Phy!AddressedFromFirstFrameOn
  BY NetStepKinds, AddressesStep
<1> QED
  BY <1>1, BridgeInvHolds, PTL DEF NetSpec, BridgeIsFaithful

(* Transport checksums verify wherever they were right or left to the         *)
(* hardware, for words of any width and packets of any length.                *)
THEOREM ChecksumsVerifyHolds == NetSpec => ChecksumsVerify
<1>1. BridgeInv /\ [NetNext]_netVars => Phy!ChecksumsAreRepaired
  BY NetStepKinds, ChecksumsStep
<1> QED
  BY <1>1, BridgeInvHolds, PTL DEF NetSpec, ChecksumsVerify
=============================================================================
