------------------------------- MODULE MinresQspi -------------------------------
(***************************************************************************)
(* The QSPI controller of src/minres/qspi.cpp, the memory and the channel  *)
(* between them, which carries a byte to the slave it is addressed to and  *)
(* the answer back.  Software writes bytes and selections; the bytes wait  *)
(* in a queue, the selection does not.                                     *)
(***************************************************************************)
EXTENDS Naturals, Sequences

CONSTANTS
  Written,      \* the bytes software writes
  QueueBound    \* bound on the bytes and on the answers on their way

VARIABLES
  qspi_in_reset,
  selected,     \* sel_slv_id is the memory's
  cmd, rsp,     \* the queues of the controller; a byte has the selection it was written under
  mem_cmd, mem, \* queue and decoder of the memory
  no_answer,    \* the top bit of the data register as last read
  meant         \* the decoder had it seen exactly the bytes written for the memory

qspiVars == <<qspi_in_reset, selected, cmd, rsp, mem_cmd, mem, no_answer, meant>>

-----------------------------------------------------------------------------
(***************************************************************************)
(* The command decoder of the SPI memory of src/generic/spi_mem.cpp: a     *)
(* thread takes byte after byte from its queue.  It never sees its slave   *)
(* select, so nothing but the last operand ends a command.  A state is the *)
(* command whose operands are still to come, their number, and the write   *)
(* enable latch.                                                           *)
(***************************************************************************)
Bytes == {"identify", "reset", "WREN", "WRDI", "WRR", "RDSR", "other"}

PowerUp == [command |-> "none", operands |-> 0, wren |-> FALSE]

Operands == [identify |-> 3, WRR |-> 2]

(* The state after the byte b: an operand, if one is expected, or a command. *)
Decoded(m, b) ==
  IF m.operands > 0
  THEN [m EXCEPT !.operands = @ - 1, !.command = IF m.operands = 1 THEN "none" ELSE @]
  ELSE IF b \in DOMAIN Operands THEN [m EXCEPT !.command = b, !.operands = Operands[b]]
  ELSE IF b = "WREN" THEN [m EXCEPT !.wren = TRUE]
  ELSE IF b = "WRDI" THEN [m EXCEPT !.wren = FALSE]
  ELSE m

(* What the memory answers to it: the identification after its last operand, *)
(* and the status register.                                                  *)
Answer(m, b) ==
  IF m.operands = 1 /\ m.command = "identify" THEN <<"maker", "device">>
  ELSE IF m.operands = 0 /\ b = "RDSR" THEN <<IF m.wren THEN "enabled" ELSE "disabled">>
  ELSE <<>>

-----------------------------------------------------------------------------
Init ==
  /\ qspi_in_reset = FALSE /\ selected = FALSE
  /\ cmd = <<>> /\ rsp = <<>> /\ mem_cmd = <<>> /\ mem = PowerUp
  /\ no_answer = FALSE /\ meant = PowerUp

WriteCmd(b) ==
  /\ ~qspi_in_reset
  /\ cmd' = Append(cmd, [byte |-> b, for_mem |-> selected])
  /\ meant' = IF selected THEN Decoded(meant, b) ELSE meant
  /\ UNCHANGED <<qspi_in_reset, selected, rsp, mem_cmd, mem, no_answer>>

SsgenCmd ==
  /\ ~qspi_in_reset /\ selected' = ~selected
  /\ UNCHANGED <<qspi_in_reset, cmd, rsp, mem_cmd, mem, no_answer, meant>>

DataRead ==
  /\ ~qspi_in_reset
  /\ no_answer' = (rsp = <<>>)
  /\ rsp' = IF rsp = <<>> THEN rsp ELSE Tail(rsp)
  /\ UNCHANGED <<qspi_in_reset, selected, cmd, mem_cmd, mem, meant>>

(* reset_cb: registers only; bytes, answers and the selection stay. *)
reset_cb ==
  /\ qspi_in_reset' = ~qspi_in_reset
  /\ no_answer' = (no_answer /\ ~qspi_in_reset')
  /\ UNCHANGED <<selected, cmd, rsp, mem_cmd, mem, meant>>

(* peq_cb sends the next byte, to the slave selected now. *)
peq_cb ==
  /\ cmd # <<>>
  /\ mem_cmd' = IF selected THEN Append(mem_cmd, Head(cmd).byte) ELSE mem_cmd
  /\ cmd' = Tail(cmd)
  /\ UNCHANGED <<qspi_in_reset, selected, rsp, mem, no_answer, meant>>

(* cmd_cb of the memory; every byte of the answer is confirmed and queued. *)
cmd_cb ==
  /\ mem_cmd # <<>>
  /\ mem_cmd' = Tail(mem_cmd)
  /\ mem' = Decoded(mem, Head(mem_cmd))
  /\ rsp' = rsp \o Answer(mem, Head(mem_cmd))
  /\ UNCHANGED <<qspi_in_reset, selected, cmd, no_answer, meant>>

(* Software writes while there are few bytes on their way, and the memory     *)
(* goes on when some of its answers have been read.                           *)
Next ==
  \/ Len(cmd) + Len(mem_cmd) < QueueBound /\ \E b \in Written : WriteCmd(b)
  \/ Len(rsp) < QueueBound /\ cmd_cb
  \/ SsgenCmd \/ DataRead \/ reset_cb \/ peq_cb

Spec == Init /\ [][Next]_qspiVars

-----------------------------------------------------------------------------
TypeOK ==
  /\ {qspi_in_reset, selected, no_answer} \subseteq BOOLEAN
  /\ Len(cmd) + Len(mem_cmd) <= QueueBound /\ Len(rsp) <= QueueBound + 1
  /\ mem.operands \in 0..3 /\ (mem.operands = 0) = (mem.command = "none")

(* The decoder after those bytes of s that are for the memory. *)
After(m, s) ==
  LET after[k \in 0..Len(s)] ==
        IF k = 0 THEN m
        ELSE IF s[k].for_mem THEN Decoded(after[k - 1], s[k].byte)
        ELSE after[k - 1]
  IN  after[Len(s)]

(* The memory will have seen exactly the bytes written for it, in their order, *)
(* whatever is still on its way.                                               *)
Sent   == [k \in DOMAIN mem_cmd |-> [byte |-> mem_cmd[k], for_mem |-> TRUE]]
InStep == After(mem, Sent \o cmd) = meant

(* The memory gets out of step, and takes operands for commands from then on,  *)
(* only by a byte that is sent under another selection than it was written     *)
(* under, never by a reset or a read.                                          *)
OutOfStepOnlyBySelection == (InStep /\ ~InStep') => cmd # <<>> /\ Head(cmd).for_mem # selected
=============================================================================
