# A TLA+ model of VPV-Peripherals

VPV-Peripherals is a library of SystemC/TLM models of on-chip peripherals:
interrupt controllers, timers, DMA, Ethernet, UART, SPI, GPIO.  Each peripheral
is a class over a generated register file (`src/*/gen/*_regs.h`); software
reaches it through TLM transactions, the outside world through TLM signals,
sockets and ports.  This project models the peripherals whose control is worth
checking, checks them with TLC on small instances and proves the central
results with TLAPS for every instance.

## How time and concurrency work in this code

Everything but two host threads runs in one SystemC kernel, which is cooperative:

* a register callback runs inside the transaction of its initiator and is
  atomic unless it calls `wait(d)`; one that waits is two actions here, or one at
  the end of the delay where nothing is read or changed before it;
* an `SC_METHOD` runs to completion, and several notifications before it runs
  make one run; an `SC_THREAD` yields only at a `wait` or inside a blocking
  transport call, and an event notified while it is elsewhere is lost;
* a register of the SCC library stores what is written unless it has a write
  callback, which then replaces the store;
* a reset puts the registers back to their reset values.  Members of the class
  that are not registers, outputs and threads keep what they had unless
  `reset_cb` says otherwise: most hazards of this library start there.

Software is arbitrary unless a module says otherwise: any register, any time.

## The system's parts

| Part (under `src/`) | State it keeps | Operations | What is hard in it | What makes it right |
|---|---|---|---|---|
| RVI PLIC `rvi/plic.h` | priority, pending, enable, threshold, claim registers; the gateway flag of each source; outputs | source event (two builds), claim, complete, configuration writes, reset | several harts race for one source; outputs are evaluated only at some events; the gateway survives a reset | one owner per source, none lost, outputs right except after named causes |
| RVI APLIC `rvi/aplic.cpp` | domaincfg, sourcecfg, targetcfg, pending, enable, delivery, threshold, topi/claimi; output | wires, 9 register callbacks, claim read, reset | topi/claimi and the output are recomputed only in some callbacks, the output is gated | which writes may leave them stale |
| MINRES DMA `minres/dma.cpp` | control, status, ie, ip, channel registers; two threads | trigger, register writes, transfer loop, reset | lost events, two channels sharing one status, one interrupt and one stride pair | busy flag tells the truth, jobs are carried out exactly, line follows ip and ie |
| MINRES Ethernet MAC `minres/ethmac.cpp` | two rings, the transmitter's state machine, flags, interrupt enables | frame arrival, `mac_rx`, `mac_tx`, `mac_ctrl`, `mac_intr`, reset | rings at their limit, flushes and resets in the middle of a frame, a callback that waits | framing is kept or flagged, driver and transmitter agree, interrupt follows need |
| Host PHY `generic/host_phy.cpp` | receive queue and its event, the learned address, a host thread | b_transport, host thread, SystemC thread | two preemptive threads share an address without a lock | addresses mapped, checksums repaired, nothing stranded |
| MINRES ACLINT, SiFive CLINT | mtime, mtimecmp, msip, next timer event | register accesses, clock change, reset | events cancelled and re-armed, fractions of a clock, several harts behind one event | mtip iff mtime >= mtimecmp |
| Pulpino CLINT and timer, MINRES timer, SiFive PWM | counters, compare values, one process asleep or one event | register accesses, queued updates | registers rewritten under a wait, unsigned differences, counters never initialised | an event ahead of every compare, every deviation has a known cause |
| SiFive PRCI and AON | oscillators, PLL, reset | callbacks, two settling events | an event without a process; a clock selected before it runs | the clock is that of the registers |
| SiFive and Pulpino PLIC | like the RVI PLIC | lines, claim, complete, configuration | a scan only at some events; ids that go stale | no source unseen, outputs wrong only after named writes |
| MINRES irq, GPIOs of MINRES, SiFive, PULPissimo and Pulpino | registers, pins, edge detection | callbacks, input methods, event queues | methods of one instant in any order, stale copies of the pins | pins and status follow the registers and the edges |
| UARTs of MINRES, SiFive and Pulpino | FIFOs, a transmit thread, flags | callbacks, thread, the poll of an external device | events nobody waits for, FIFO limits, several initiators | no character forgotten or dropped but for named causes, flags true |
| MINRES QSPI with the generic SPI memory; SPI masters of SiFive and Pulpino | queues, engine state, select lines; command decoder | callbacks, thread, software reset | selection changes under queued bytes; a decoder that loses step; a reset within a word | bytes reach the slave they are for, counts true |
| Terminal, websocket, reset generator; register-only blocks; generated register files | connections; registers | - | - | - |

Interactions: interrupt outputs of every block are inputs of a PLIC/APLIC; the
MAC talks to the host PHY through Ethernet sockets; the QSPI controller to the
SPI memory through an SPI socket; the Pulpino UART to an external device by
direct calls; the DMA is an initiator on the bus.

`PROJECT.json` lists every component with its status, and every hazard with
its line and the properties that would catch it.

## What is modelled

### The platform-level interrupt controller

| Module | Role |
|---|---|
| `RviPlic` | `rvi/plic.h`, both builds (`SC_SIGNAL_IF`), arbitrary software; `Scan` is `get_source_irq` as the loop it is, against its definition |
| `PlicGateway` | abstract: a source is idle, accepted, owned by one hart, or shut |
| `RviPlicSystem` | the controller with harts that claim and complete, boot and reset |
| `MCRviPlic` | both builds side by side for TLC |
| `MCRviPlicSystem` | boot configurations for TLC |
| `RviPlicProofs`, `NatLemmas` | proofs |

`SourceIrq` is `source_irq_cb` of the TLM build; `LinesChange` and
`SourceIrqScan` are the sc_signal build, where rising edges schedule one method
that samples every line later.  `ClaimRead` and `CompleteWrite` are the two
callbacks of the claim register; `PriorityWrite`, `EnabledWrite` and
`ThresholdWrite` are plain stores, which evaluate nothing.  `Reset` clears the
registers and nothing else.  `claim_complete_write_cb` does not test the id for
having been claimed, so `CompleteWrite` takes any source.

The priority registers end one word before the last source id
(`rvi/plic.h:381`): what the scan reads there is undefined, so each evaluation
picks it from `Strays` (smaller than, equal to or greater than any priority
software writes).  `NumSources` a multiple of 32 is excluded: then even the
pending bit of the last source lies outside its array.  Completion ids above
the number of sources, which index outside an array as well, are excluded too.

`RviPlicSystem` adds harts.  A hart claims while its output is high, may nest,
and completes each claim once.  `Boot` takes the boot code's register writes
together, once after power-up and after each reset.

### The advanced interrupt controller

`RviAplic` is `rvi/aplic.cpp` in the TLM build, with one action per register
callback, `External` for a wire (split into the branch that sets a pending bit
and the one that resets it), `ClaimRead` and `Reset`.  `handle_pending_int` and
`reset_pending_int` are operators on the new register values, as the code
calls them at the end of a callback.  `Wired` leaves out the last source, which
has registers but no wire callback and is never scanned.

`NumIrq` is the size of the wire vector, `MaxPrio` is `num_irq_prio`.
`Boot` takes the writes of sourcecfg and targetcfg that follow a power-up or a
reset together; `Rewritten` are the sources whose registers software rewrites
one by one at any time after that.  `Boots`, `Modes` and `Thresholds` bound the
values written.

### The DMA

`MinresDma` has one action per register callback, `EventFires` for the delta
cycle in which notified events reach the threads that wait for them (and are
lost on those that do not), and per thread `Begin`, `ReadReturns` and
`WriteReturns`, cut at the `b_transport` calls where the thread may yield.
`do_transfer` serves both channels with the strides and the segment interrupt
of channel 0, and so does the model.  `asked` and `moved` are history.

`DmaChannel` is the abstract channel: a job is carried out segment by segment.
With `Polite` (a driver that leaves a busy channel alone) each channel
implements it; channel 1 does so only with the strides of channel 0.
`JobsTracked` is the invariant the refinement rests on; `MinresDmaProofs` holds
the proofs.

### The Ethernet MAC

`MinresEthmac` models the receive ring in words (header and padded frame are
pushed and popped in words), the transmit ring in bytes (the aligner drops two).
A driver writes a length and then the words of the frame; `drv` counts the
words it still has to write.  The MAC does not know `drv`: a word is a length
or data by `tx_state` alone.  `IntrWriteBegins` and `IntrWriteEnds` are the
two halves of the `mac_intr` callback around its `wait`.  `size_t` arithmetic
(`tx_expected_bytes -= 2`) wraps modulo `SizeMod`.  `NetworkProofs` holds the
proofs, with those of the bridge.

### The core-local interruptor

`MinresAclint` keeps time relative to now: `since` is the time since the last
`update_mtime`, `timer` the time until `mtime_evt`.  `Elapse` lets one unit pass
once everything due has run.  `update_mtime` is an operator on the registers as
its caller leaves them.  A callback's `wait(d)` comes before it reads or changes
anything, so each write is one action at the end of its delay.  `bound` is chosen
once: whether the optional output of mtime is bound, in which case the event
comes every clock.  `steady` is history: no clock change since the last
evaluation.  `MinresAclintProofs` holds the proofs.

### The families

Most other peripherals share no signal with one another.  Each has a module of
its own with its `Init`, `Next` and properties, and is checked in a family: the MC
module of the family instantiates the modules over disjoint variables, one
variable (`which`, in `MCSerial` `serial`) chooses once which block runs, and the others rest in their
initial state.  The state space is the sum of the state spaces of the blocks, not
their product.  A property of a family is the conjunction of the named
properties of its modules (`Irq!Silent`, `Pwm!StandsStillExplained`, ...): they are
stated, with the code they are about, in the module of the block.  Where blocks do
talk to each other, they are composed in one module: the QSPI controller with
the memory, the Pulpino UART with its external device.  `LinesSerialProofs`,
`TimersProofs` and `NetworkProofs` prove what the families check.

**Lines** (`MCLines`): controllers and pins.

| Module | Code | State and actions |
|---|---|---|
| `MinresIrq` | `minres/irq.cpp` | inputs, pending, mask; both callbacks, the method that samples the inputs a delta cycle later |
| `MinresGpio` | `minres/gpio.cpp` | the two event queues through which values reach the pins, and the method that drains them |
| `SifiveGpio` | `sifive/gpio.cpp` | register pins and the pins of functions, bound or not; the levels of every function that are under way, each in its own thread, so that they may overtake each other; the copy of the port value each callback works on |
| `PulpissimoGpio` | `pulpissimo/gpio.cpp` | two banks, with what one handler does to the other's pins and status |
| `PulpinoGpio` | `pulpino/gpio.h` | the two methods of one input change in either order |
| `SifivePlic` | `sifive/plic.cpp` | lines sampled after a rising edge, one context, claim by completion |
| `PulpinoPlic` | `pulpino/plic.h` | gateways with levels and edges, targets, the scan on a change of the inputs; thresholds and priorities in registers of `MaxLevel`, so that the threshold plus one wraps |

`NothingIsOverlooked` says of every step that no edge or level the sampling method
has seen is left out of the pending or status bits, and names, for each block, the
accesses that may clear one (`OverlookedOnlyByReset`, `UnseenExplained`,
`EdgesLostOnlyByRead`).  A completion of the SiFive PLIC with an id of 256 or more indexes outside
the array of pending registers (`plic.cpp:133-135`), which has no defined outcome, and
is excluded.

**Timers** (`MCTimers`).  Time is discrete, in periods of a clock, and nothing
that is due may be passed over: `Tick` is disabled by a
process that has to run in this instant.

| Module | Code | State and actions |
|---|---|---|
| `SifiveClint` | `sifive/clint.cpp` | a stopping and starting clock, mtime brought up to date when somebody looks, the event |
| `PulpinoClint` | `pulpino/clint.h` | registers written in halves, the queue of updates, the process that sleeps for a computed time |
| `PulpinoTimer` | `pulpino/timer.h` | one channel; what the other holds is an input where the code reads it |
| `MinresTimer` | `minres/timer.cpp` | prescaler, a clock period that is changed or zero, tick event, counters that start at an unknown value; `heard` is history: how a counter answered the ticks that reached it |
| `SifivePwm` | `sifive/pwm.cpp` | counter, scale, four comparators of which two values differ, the update event; `at_zero`: time has not begun |
| `SifivePrci` | `sifive/prci.cpp`, `sifive/aon.cpp` | oscillators with their settling events, PLL, the clock selected, the reset handed on |

The updates of the MINRES timer and of the PWM return at time 0 before they arm
anything: what is started then does not run until another access (`Asleep`,
`Unarmed`).  In the MINRES timer the mask of the tick pins begins one bit above that of
the clears in a field of two bits, so pin 0 is masked by bit 1 and no other pin can
tick; a counter above its limit is a huge unsigned number of clocks away, whose
conversion to a time is undefined (`Waits` chooses none or a time beyond the run);
a counter whose unknown value is within one of the largest is excluded.

**Serial** (`MCSerial`).

| Module | Code | State and actions |
|---|---|---|
| `MinresUart` | `minres/uart.cpp` | FIFO, thread, the lines collected per initiator; every character carries its initiator and number, and `written`, `taken`, `dropped` and `asked` (who has seen tx_free set since the last write) are history |
| `SifiveUart` | `sifive/uart.cpp`, `uart_terminal.cpp` | the terminal and the UART that sends bits or whole frames; both FIFOs, watermarks, a period that may be zero; the thread with its first delta cycle; accesses with a delay in two actions (`AccessWaits`, `TxdataDelayed`, `RxdataDelayed`) |
| `PulpinoUart` | `pulpino/uart.h`, `experimental/external_uart_device.cpp` | interrupt events queued and handled in batches; the polled pipe, line by line |
| `MinresQspi` | `minres/qspi.cpp`, `generic/spi_mem.cpp` | queued bytes, a selection that is not queued, the channel, the decoder |
| `SifiveSpi` | `sifive/spi.cpp` | both FIFOs, thread with its first delta cycle, select lines in three modes, watermarks, the full bit as software writes it |
| `PulpinoSpiMaster` | `pulpino/spi_master.h` | the state machine, one queue for both directions, counts, which software may store as well (`StatusStores`), software reset within a word |
| `ScFifo` | SystemC's `sc_fifo` | what is written is visible in the next delta cycle (external) |

**Network** (`MCNetwork`): `MinresEthmac` beside `HostPhy`.  They share frames, which
the MAC counts in words and the bridge tells apart by address and checksum, so
they are a family as well (`bridging`).  In `HostPhy` the simulation thread and
the host thread are interleaved freely.  `FirstFrame` begins and `Copied` ends the
copy of the first source address into `model_mac`.  The host thread is cut at every
access of what the two share: `recvfrom`, the comparison (`ForUs`, `NotForUs`), the
copy of the address into the frame (`MapAddress`) and `Push`; each of its two reads
of `model_mac` may see any mixture of old and new halves, and the first address may be
copied between any two of them.  `buf` holds the frame in its hands.  An event
notified while the consuming thread is at work is kept until it is consumed, where
a SystemC event would be lost; as the thread takes frames until the queue is empty,
the one wake-up more changes nothing but that it finds an empty queue.
`Ipv4Checksum` is the checksum and its repair over words of a small base instead of
2^16.

## The runs

| Run | Question | Instance and why it is enough |
|---|---|---|
| `plic_two_contexts` | what leaves an output wrong, under arbitrary software, in both builds? | 2 sources, 2 contexts, priorities 0..1 and strays 0..2: ties, masking by threshold, sources shared by both contexts; in the sc_signal build every change of the lines between two scans |
| `plic_harts` | is every accepted interrupt serviced by exactly one hart, is none lost, is the strongest claimed? | 3 sources, 2 harts, 8 configurations (equal or ascending priorities, shared or nearly disjoint enables, a threshold), one reset; TLM build (the proofs cover both) |
| `plic_claim_threshold` | does a claim ignore the threshold, as the comment says? | violated |
| `aplic` | which writes may leave topi, claimi or the output wrong? | 3 sources (the last unwired), booted as edge or level with equal or different numbers; the wired ones rewritten to any of inactive, edge and level and any number at any time; thresholds 0 and 2 |
| `dma_free` | what do the busy flag and the line mean under arbitrary software? | both channels, jobs of 0 and 1 segments, 3 interrupt masks |
| `dma_polite` | are jobs carried out exactly and do they end? | jobs of 0 and 2 segments, two stride pairs, wrapping in 4 addresses |
| `aclint` | when may timer and software interrupts be wrong? | 2 harts, a clock of period 2 (so that accesses fall between its edges) that starts and stops, compares 1 and 2, two software interrupts in flight, with and without the output of mtime |
| `aclint_compare_doc` | are all compares checked in time? | violated |
| `lines` | do outputs follow registers and lines, is any edge overlooked? | two interrupt lines, one pin per GPIO (two banks, bound and unbound functions), each level of each function under way at once, queues of 2 entries; PLICs with 2 wired sources, one edge triggered, and one that is never scanned; priorities and thresholds 0..1, of which 1 is the largest the register holds |
| `timers` | is every running timer armed, and what makes an interrupt late, early or missing? | clocks of period 2, 3 and stopped, for the MINRES timer 2 and none at all; counts that wrap at 3; prescalers 0..2 and limits 0..2; four units of time, enough for two ticks with a change of the clock between them; two update events in a queue; counters above and below the overflow |
| `serial` | is anything lost, misdirected or misreported? | FIFOs of depth 1 and 2, two initiators that write two characters each, one access of each kind waiting, marks 0 and 1, lines of 0 to 2 characters, the memory commands without operands, with one that latches and with an answer; two slaves; transfers of 1 and 3 words with and without prefix, counts stored as 0 and 1 |
| `network` | framing, availability and interrupt of the MAC; addresses and checksums of the bridge | a receive ring of 3 words that a frame just fits (3 words) or overflows (4, with the aligner), a transmit ring of 8 bytes, announced lengths 0, 5 and 9 (empty, two words, too long); two model addresses of two halves and a host address, 14 packets, a queue of 2 |

Every bound is a constant of the module and has its value in the cfg.  What would
grow is bounded in the guards of the environment: time (`MaxTime`, `MaxMtime`,
`MaxSince`), and what software, wires and peers add (`QueueBound`, `DataBound`,
`CharBound`, `CallBound`, `IofBound`, `PeqBound`, `MaxQueue`).  Two bounds hold a block
back.  The memory behind the QSPI controller does not go on while `QueueBound` of its
answers are unread (`MinresQspi`, `Next`): software that never reads sees no more
than that.  The host thread takes a frame from the interface only with room in the
queue (`HostPhy`, `recvfrom`): a host that is faster than that is not seen.

Deadlock is checked but in two runs.  In `plic_harts` the system may really stop:
after the one reset the bound allows, every source may be shut for good.  In
`serial` a software reset of the Pulpino SPI master in the middle of a word makes
the thread take a word from an empty queue; the model ends where the code's
behaviour is undefined.

What the runs show beyond "it holds":

* PLIC: an interrupt is left unsignalled only by a configuration write; a
  spurious output comes only from such a write or from another hart's claim, and
  the claim it provokes takes it back (`SpuriousIsTakenBack`).  A reset can leave a
  source unable to interrupt ever again, and nothing else can (`DeadOnlyByReset`).
* DMA: a channel may work with its busy flag down, but only through a reset, a
  write of the status register or a second trigger in the delta cycle in which
  a transfer ends (`UnflaggedOnlyByRace`).  A second trigger in mid-transfer is lost;
  the driver of `dma_polite`, whose jobs are carried out exactly and end
  (`ImplementsChannels`, `BusyEnds`), does not give one.
* MAC: a frame cut short by a full ring always leaves `rx_drops` set.  It is never
  cleared by software, so after the first loss it says nothing more.
  With true flags the interrupt may still be wrong: software that enables the
  interrupt for room while the flag of the transmitter is not yet right and then
  reads `mac_ctrl` (`ethmac.cpp:242-248`) gets a true flag and a low interrupt, since the
  read does not call `update_irq`.  Accesses of `mac_ctrl` are the only way into that
  state, and it lasts only while nothing evaluates (`IrqFollowsNeed`).
* Bridge: from the model's first frame on, frames arrive under its address and
  with sums that verify.  Before, `model_mac` is not initialised, and a frame the host
  thread has in hand during the first copy may carry a mixture of addresses and be
  pushed after `model_mac_init` is set; it is the only one (`BridgeIsFaithful`).  Every outgoing
  frame leaves as `hw_mac`, also without address mapping; the answers to it then
  do not pass the filter, which asks for the address of the model.  With mapping
  a broadcast is rewritten to the address of the model (`host_phy.cpp:334`).
  The test for outgoing packets reads an address nobody fills (315, 323).
* ACLINT: the fraction of a clock that has passed is lost at every access but
  never at its own event, a write of mtime is advanced by the clocks since the
  last update, and a change of the clock recounts the time since then in the
  new period (`EarlyOnlyByClock`).
* MINRES irq: no bit of the mask can be set by software, because the callback of
  the mask writes the pending bits (`irq.cpp:39`), so the output is never high.
* PULPissimo GPIO: edges of the high bank are reported as status of the low one
  (`gpio.cpp:131`), a write of the high directions drives outputs (51), and the
  interrupt is raised once and never lowered.
* SiFive GPIO: with both functions bound a register write puts the port value on
  a pin of a function, and function 1 reaches a pin other than 0 only when it
  sends (`gpio.cpp:127-139`).  Two levels of one function may arrive in the other
  order (184-188): the pin then shows the older (`OffOnlyByOvertaking`).
* SiFive PLIC: the source with the highest id is never arbitrated (`plic.cpp:101`), an output with
  nothing behind it is not lowered (123), and the completion of a source nobody
  claimed takes its pending bit.  Pulpino PLIC: a claim does not scan again (`plic.h:368`), so the
  id a target was offered stays on offer until an input changes; a completion takes
  another source, completed earlier with its line still high, back into service
  unclaimed (470-476).  The largest threshold plus one is 0 and lets every priority
  pass (425); a line still high at its completion is not looked at again until an
  input changes (`UnseenExplained`).
* Pulpino CLINT: the interrupt is late or missing only after a register was
  rewritten one period or more into a wait (`clint.h:229`) or for a compare value of 0;
  it is early only when the time added then wraps the count.
* Pulpino timer: the present value is computed from the prescaler of the other
  channel (`timer.h:294-306`); channel A with prescaler 0 or the largest compare computes a
  wait that underflows (197); an update that arrives during the pulse is not heard (198).
* MINRES timer: a tick is notified after the absolute time instead of the time
  left (`timer.cpp:122`), so each comes at least twice as late as the one before, whatever the
  clock and the limit (`TicksThinOut`); a counter counts in a copy (142), so all its
  ticks are answered alike, with an interrupt or without, depending on a value nobody
  set (`AnswersAllTicksAlike`); the pins that tick are masked with the clear field (153).
  A limit lowered below the count, or a missing clock, makes the update ask for
  itself in no time (`RepeatsExplained`); one written at time 0 is not looked at
  (`AsleepOnlyAtStart`).
* SiFive PWM: a counter enabled at time 0 does not run until another access
  (`pwm.cpp:106`, `UnarmedOnlyAtStart`); without a clock, and for two relations of count and comparators that
  `StandsStillExplained` names, an update asks for the next in no time, and simulation time ends
  (`pwm.cpp:158`); the test of the gang bits, `1 < (24 + i)`, is a comparison and reads the low bit of
  the scale (172).
* PRCI: no process listens to the event of the crystal oscillator (`prci.cpp:24-28`), so it is never
  ready unless software writes the bit; a reset leaves the clock that was selected.
* SiFive UART: a character written in the first delta cycle (`uart.cpp:128`) or while the
  thread waits for the idle bit of the one before (145) finds nobody waiting for the
  FIFO's event and stays until the next write; `full` stays set over a FIFO emptied
  within a delta cycle, and is cleared over a full one by a reset (94), which is all that makes
  a driver that polls it lose a character, delayed writes included; the interrupt
  enables are never stored (78), so it never interrupts.
* Pulpino UART: of several lines that arrive together all but the first wait until
  another arrives (`external_uart_device.cpp:193`); of the interrupt events of an
  instant, a set event swallows the resets (`uart.h:268-283`).
* MINRES UART: a character for a full FIFO is dropped without a trace (`uart.cpp:39`), but
  never one of software that has seen tx_free set and was not overtaken by another
  initiator (`DroppedOnlyUnasked`).  Every other is in the line of its initiator or
  on its way there, in order (`NothingLost`, `InOrder`).  Nothing receives.
* QSPI: the selection changes at once while bytes are queued (`qspi.cpp:95`, 139), the
  byte reaches a memory it was not written for, and the decoder, which does not see
  its selection, is then out of step for good.
* SiFive SPI: AUTO mode never raises the select line (`spi.cpp:188`); a change of
  csid outside HOLD, or a reset, leaves the old one low, so that two slaves are
  selected; a byte of the first delta cycle wakes nobody (`spi.cpp:157`,
  `OverheardOnlyAtStart`); a change of the watermarks or a reset leaves the interrupt
  as it was.
* Pulpino SPI master: a read during a write takes words from those to be sent,
  and words not read are sent by the next write; a transfer of length 0
  still moves a word; with both counts not zero a transfer stays in FINISHED until
  software changes one; and a reader that takes the last word in time leaves the state
  machine in WAIT_RX for an empty queue (476, `StuckOnlyByLastRead`).  `sendInterrupt` is never called.

Findings, disagreements of a comment with the code, each shown by a run:

* `rvi/plic.h:318` says the threshold does not affect a claim; it does.
* `src/minres/aclint.cpp:104` says all compare registers are checked for an
  interrupt; while the compare of one hart is reached, no event is armed for the
  others and their interrupts are missed.

Others that follow from the checked properties without a run of their own:

* `rvi/aplic.cpp:388` says sources at or above the threshold do not contribute
  to signalling; after the threshold is written the output stays high for them
  (`PhantomOnlyByMasking` names the write as a cause).
* `rvi/aplic.cpp:402` says topi names the highest pending-and-enabled source;
  after a write of clrie it names one that is not enabled
  (`StaleOnlyByUnevaluatedWrites`).
* `pulpino/plic.h:72-73` says the PLIC permits interrupts of a priority less than or
  equal to the threshold; the code permits those above it (425-428: `prio >= pth + 1`), and
  with the largest threshold, where the sum wraps to 0, all of them.  The model
  and `WrongOnlyBySoftware`, which names the wrap, follow the code.
* `generic/host_phy.h:28-29` says that complete frames pass unchanged; the source
  address is replaced with or without mapping (`host_phy.cpp:231`).

## Fairness

* `RviPlicSystem`: weak fairness of claims and completions of each hart (a hart
  whose line is high takes the trap, a handler returns) and of the scan (the
  kernel runs a scheduled method).  Nothing makes a source fire, software boot
  or a reset happen.  `ForemostIsClaimed` is about a source that beats all that
  its hart has enabled: a weaker one may starve, by design of priorities.
* `MinresDma`: weak fairness of the delta cycle and of each thread's steps (the
  kernel runs ready processes, the memory answers).  Nothing of software.

## What is proved

`RviPlicProofs`, for any number of sources and contexts and both builds, from
`PlicAssumption` alone:

* `TypeCorrect`: `Spec => []TypeOK`.  The step that needs work is the claim,
  whose result is chosen by arbitration.
* `GetSourceIrqResult`: the arbitration returns 0 exactly when there is no
  candidate, and otherwise a candidate no other beats.  A finite non-empty set
  of candidates has a best one: `RankedWinner` in `NatLemmas`, by taking the
  greatest priority first (bounded, so the least distance from the bound
  exists, `LeastNatural`) and the least id among those.
* `MissedOnlyByConfigurationHolds`, `SpuriousOnlyByOthersHolds`: the action
  properties, action by action, from the type invariant and the lemma that an
  evaluated output is high exactly if there is a candidate.
* `ScanFindsTheWinnerHolds`: the loop of `get_source_irq`, with its running maximum
  and its early exit, returns what `GetSourceIrqResult` is about.  The invariant of
  the loop says what is so after the sources 1..s: nothing found and no
  candidate seen, or the best of those seen, or, stopped early, the first.

For `RviPlicSystem`, from `PlicAssumption` and `SystemAssumption`, in the same module:

* `SysInvHolds`: the inductive invariant `SysInv`.  Its conjunct `OneOwner` alone is
  not inductive: that a claimed source is not owned by another hart needs
  `GatewayShut` (a pending source is not in service), which needs
  `CompletionIsHeard` (a source in service is enabled for its hart, or its
  completion would be ignored, `rvi/plic.h:343`).
* `OneOwnerHolds`, `GatewayShutHolds` follow; `DeadOnlyByResetHolds` is proved
  from the invariant action by action.
* `ImplementsGatewayHolds`: the initial state maps to the initial state of
  `PlicGateway`, each step to a step or a stutter.

`RviAplicProofs`, for any number of sources, boot code and rewrites, from
`AplicAssumption`:

* `TypeCorrect`, and the four action properties of the run `aplic`.  `StepKinds`
  sorts the actions by what they leave behind: those that evaluate and may
  raise the output, those that take it down first, those that only store, and
  the reset.  Each property then needs one argument per kind, from what an
  evaluation yields (`TopResult`, again by `RankedWinner`).

`MinresDmaProofs`, for any address space, programs and masks, from
`DmaAssumption`:

* `TypeCorrect`; `IrqStaleOnlyByIeHolds` and `UnflaggedOnlyByRaceHolds` under
  arbitrary software.
* `BusyIsWorkingHolds`: to say that the flag is set exactly while a transfer is
  under way is not inductive, since a trigger that meets a running thread would
  be lost; the second conjunct says there is none.
* `JobsTrackedHolds`: the k-th segment is at `src + k * stride` in the arithmetic
  of the address space (`NextAddress`, from `ModAdd` in `NatLemmas`), as long as
  nobody rewrites the registers under a busy channel.
* `ImplementsChannel0Holds`, `ImplementsChannel1Holds`: a trigger maps to `Ask`,
  the answer to a write to `Move`, the begin of a job without segments to
  `Skip`, everything else to a stutter.

`MinresAclintProofs`, for any number of harts, clock periods and values written,
from `AclintAssumption`:

* `ArmedForTheEarliestHolds`: the inductive invariant.  That the event is on time
  is not visible in the outputs until it is due; the invariant says what it was
  armed for and that the time passed plus the time left is that.
* `MissedOnlyBehindAnotherHolds`, `EarlyOnlyByClockHolds`, `EventOnClockHolds` follow
  from it, action by action; `Clocks` states what they need of `\div` and `%`.
* `ReadsMonotoneHolds`: an evaluation keeps what a read returns
  (`UpdateKeepsTime`), time only adds to it (`ElapsedGrows`).
* `MsipStaleOnlyByResetHolds`: an entry appended to the queue overrides those of
  its hart before it and no others (`LastOfAppend`).

`NetworkProofs`, for rings of any size, any frames and any lengths
announced, from `EthmacAssumption` (a whole number of words in the transmit ring, and
a `size_t` that holds its size and the two bytes of the aligner):

* `TypeCorrect`; `AvailIsSafeHolds`: the rounding of `WriteType` and the fact that
  between two writes of mac_tx the ring can only be emptied.
* `FramingIsFlaggedHolds`: that the words in the ring follow each other is not
  inductive, since a new frame is appended to whatever is there; `Framed` adds
  that the ring ends with the end of a frame (`AppendFrame`, `TakeWord`).
* `StaleOnlyByFlushOrResetHolds`: `StepKinds` sorts the actions by what they do to the
  flags and to the output.
* `IrqFollowsNeedHolds`: a step into true flags and a wrong interrupt is an access of
  mac_ctrl that puts a stale flag right, and no step but one that touches nothing stays there.
  It needs that the flag of the transmitter is down in reset (`NotReadyInReset`).
* `PartOnlyByFlushOrLengthHolds`: needs that a frame begins in an empty ring and that
  a reset holds the transmitter at its beginning (`AtStart`); the rest is counting
  words (`LengthInSync`, `DataInSync`).

and for the bridge, any addresses, packets, base of the words and depth of the
queue, from `NetworkAssumption` (an address is a pair, a packet the record
`Ipv4Checksum` describes):

* `NetImplementsMac`: a behaviour of the family is one of the MAC, so the
  theorems above hold in it.
* `NoneStrandedHolds`: from `BridgeInv`.  That an event is due or the thread awake
  while the queue holds frames is preserved only because the host thread holds one
  frame at most and took it with room left.
* `BridgeIsFaithfulHolds`: once `model_mac_init` is set nothing is being copied
  (`BridgeInv`), so every read of the host thread after it sees that address
  (`SeenIsMixed`); what was read before is in the one frame the thread holds.
* `ChecksumsVerifyHolds`: adding the carries back in keeps the sum modulo
  `Base - 1` (`CarryStep`) and ends below `Base` (`FoldIsRest`), so the complement makes
  the whole sum vanish (`RepairVerifies`).

`LinesSerialProofs`, for any number of lines, pins, priorities and any binding of the
functions, from `LinesAssumption` (the ids of the sources are 1..n, pins are
numbers):

* `LinesInvHolds`: the inductive invariant, one conjunct per block (`IrqInv`, `GpioInv`,
  `IofInv`, `PadInv`, `PulpInv`, `ClaimInv`).  Each block has a lemma for its steps and one
  for its rest; `OneMoves` puts them together.
* `OutputsFollowHolds`.  That the output of the MINRES controller stays low is not
  inductive: it needs that its mask stays empty, which is what the callback of the
  mask brings about.  For the SiFive pins the work is in the computation over all pins
  in ascending order, which leaves a pin with a level of its own at that level
  (`IofDriven`, by `GreatestNatural`).
* `NothingIsOverlookedHolds`, `DisagreementIsExplainedHolds`: action by action.  The
  arbitration of both PLICs picks a candidate if there is one (`ClaimWinner`,
  `ScanWinner`, by `RankedWinner` and `RankedLast`).  A pin of a SiFive function is off
  only behind a level that arrived after a later one, however many are under way
  (`IofStep`).

and for the serial blocks, any depths of their FIFOs, watermarks, lengths and
bytes written, from `SerialAssumption` (these are numbers, a count of words has a
modulus above 0, the SPI controller has line 0, and the FIFOs of the SiFive UART
hold more than one character: the code's hold 8, and with one place only the
thread could leave the full bit set over a FIFO it has just emptied):

* `SerialInvHolds`: again one conjunct per block, and from it `StreamsAreKeptHolds`,
  `LossesAreExplainedHolds` and `SignalsAreExplainedHolds`.  The lemmas `FifoWrite`,
  `FifoRead` and `FifoSettles` say of a FIFO whose writes and reads are seen a delta
  cycle later how many places it has left; all three threads rest on them.
* MINRES UART: `MuartInv` says of the characters in hand and in the FIFO together that
  those of one initiator are in the order written, come after those taken, and with
  those taken and dropped are all that was written (`StreamGrows`, `StreamMoves`,
  `LineGrows`); `MuartSays` draws `InOrder`, `NothingLost` and `LinesApart` from it.  Nobody has
  seen tx_free while the FIFO is full, whence `DroppedOnlyUnasked`.
* SiFive UART: a thread that runs on within an instant is one whose bits take no
  time, and a thread that waits with a character before it got there from the
  start or the idle bit.  That the full bit is not set over an empty FIFO needs how many places
  the thread has freed in the present delta cycle: none when it is woken, one at
  most while a bit lasts (`SuartInv`).
* Pulpino UART: what a report queues is decided by the enables, and a batch of
  events leaves the pending bits of the last of them (`ReportsAreEvents`).
* QSPI: a slave decodes the bytes it sees one after the other (`DecoderRuns`), so the
  bytes in the FIFO and in the model's queue can be sent in any number of steps
  and it decodes the same (`AfterBoth`, `AfterOne`); `InStep` is about the whole of them.
* SiFive SPI: the interrupt is what the watermarks make of both FIFOs after every
  step that evaluates it (`SpiRecomputes`).
* Pulpino SPI master: that `FinishedMeansIdle` holds needs `InMode`: a transfer is under
  way in every state but IDLE, in the direction of the state, and the thread is
  only at the bits of a state that has some.  `MasterContinues` is the one argument
  for all ends of a state's work, `NextState` says where `state_change` leads.

`TimersProofs`, for any periods, limits, prescalers, widths of a counter and
values written, from `TimersAssumption` (these are numbers, a half of a register has
more than one value, and the powers by which the PWM scales are positive: the
provers know nothing of `^` but its name, and TLC evaluates the assumption):

* `TimersInvHolds`, again with one conjunct per block, and from it
  `RunningIsArmedHolds`, `LapsesAreExplainedHolds` and `PaceIsExplainedHolds`.
* The Pulpino CLINT needs the strongest invariant, `RtcInv`: the queue of updates
  ends with what the registers say (`PairAtTheEnd`); with the interrupt
  high the process wakes before the count overflows, and with it low and the count
  past the compare value, before the count comes around to it.  A read then
  goes around once at most (`Wraps`), and the part of a wait that has passed is less
  than its number of periods (`PartOfWait`).
* MINRES timer: `CountInv` adds that the prescaler is not enabled at time 0, that a
  tick under way is due no earlier than twice the last, whatever the clock did in
  between, and that what was heard from a counter is what it would answer now.
* PWM: `ScaledCount` and `DistancesAreDelays` say how scaled count and comparators
  relate to the time until the next update, for any scale.

`NatLemmas` holds what these proofs share: least and greatest naturals, winners by
rank, remainders, and induction.  The library states induction with an operator
as its parameter, which the provers cannot instantiate; `IntervalInduction` states
it for the set of the numbers for which a fact holds, and that set is written
out where it is used.  `LoopHasRun`, `SumHasRun` and `DescentHasRun` say by it that
functions defined by recursion over an interval exist, which gives the loops of
`get_source_irq`, `checksum_add_bytes` and `checksum_fold` their values.

Only model-checked: liveness (`ForemostIsClaimed`, `SpuriousIsTakenBack`,
`BusyEnds`), since the prover handles neither fairness nor ENABLED.

`TypeCorrect`, `GatewayShutHolds`, `EventOnClockHolds`, `NetImplementsMac`, the invariants
`LinesInv`, `TimersInv` and `SerialInv` and the refinement of each DMA channel by itself have no run of
their own: they are conjuncts or consequences of what the runs check, or what those
rest on.

## What is not modelled

Whole components, with the reason in `PROJECT.json`: register blocks without
behaviour (generated maps of MINRES, SiFive and PULPissimo), the terminal and the
websocket server (network I/O in an external library), the generic helpers, and
tests.  Of the modelled ones:

* PLIC: two contexts configured by different harts at different times are only
  in `RviPlic`, not in `RviPlicSystem`, where configuration is one step at boot;
  instances and ids with accesses outside an array (see above).
* APLIC: the sc_signal build; MSI delivery and more than one hart, which the code
  does not implement; writes to registers without callback (topi, claimi).
* DMA: the bytes moved, and memory errors, which end the simulation.
* ACLINT and SiFive CLINT: the wrap of mtime at 2^64; for the ACLINT also the
  trigger for a compare register at its reset value, which exceeds the range of
  `sc_time` and lies beyond any run.
* MAC: frame contents, FCS, the pcap file, and mdio, which no code reads.  Bridge:
  socket set-up, and failures of `sendto`, which only change the response.
* QSPI: the window through which the memory is read directly, which passes
  transactions on unchanged, and the loading of the memory image.  SiFive SPI: the
  bit-true transfer, whose loop only repeats the last bit (`spi.cpp:175`), and the
  formats, which no code reads.  Pulpino SPI master: quad mode, which changes only
  how many bits go at once.
* Pulpino UART: creation of the named pipes; what is sent, which the device writes
  out at once.
* AON: registers other than the reset, which are storage.

## Plan

Modelled and checked: every component with behaviour inside the simulation.
Modelled, checked and proved: PLIC with its harts, APLIC, DMA, Ethernet MAC and
bridge, ACLINT, the lines, the timers and the serial blocks.  Left:

1. Abstract streams for the UARTs, and a proof that the two SiFive and MINRES
   UARTs implement them up to the losses `LossesAreExplained` names.
2. Liveness of the blocks with one event (SiFive CLINT, PRCI) under fairness of
   time.
3. The sc_signal build of the APLIC.

## Running

    tlc -config RviPlicHarts.cfg MCRviPlicSystem
    tlapm RviPlicProofs.tla

The module of every configuration is named in `PROJECT.json`.
