# A formal model of the dsPIC33AK CAN FD CMSIS driver

This directory holds TLA+ specifications of the driver in `src/`: models checked with TLC
on small instances, and theorems about them proved with TLAPS for every value of
the constants. It is written to be read next to the code; `PROJECT.json` maps
every definition to the lines it models, and lists the runs, the mutants, the hazards
and the findings.

File names below are shortened: `Driver` is `src/cmsis_driver/Driver_CAN_dsPIC33AK.c`,
`node`, `isr`, `common` are the `nora_canfd_*_dspic33ak.c` files of `src/src/hal_can/`.

## 1. Inventory

| Component | State | Operations | Met by |
|---|---|---|---|
| CMSIS wrapper (`Driver`) | `can_cmsis_context_t`: `initialized`, `powered`, `fd_mode`, `mode`, bit rates and sample point, callbacks | Initialize, Uninitialize, PowerControl, SetBitrate, SetMode, Control, MessageSend, MessageRead, GetStatus | the application's thread |
| RX software ring (`Driver`) | `rx_ring`, `rx_head`, `rx_tail` of the context | `can_hal_event` (producer), MessageRead (consumer), rewind in PowerControl | CAN interrupt and thread, without a lock |
| HAL node layer (`node`) | `g_node[]`: `initialized`, `get_ms`, `timeout_ms`; public mode in `common` | init, deinit, set_bitrate, transmit, rx_available, receive | wrapper; the callback in the interrupt |
| HAL event layer (`isr`) | `g_cb`, `g_ud`, `g_tx_busy`, `g_irq_priority`, `g_isr_enabled` | set_callback, isr_enable, isr_disable, tx_start, tx_abort, tx_is_busy, irq_handler, get_status, clear_rx_overflow | wrapper, application, CPU vectors |
| Bit timing solver (`common`) | none | calc_bit_timing, solve_phase | init, set_bitrate |
| Message object codec (`node`, `common`, `Driver`) | none | identifier words, DLC tables, payload packing, `ARM_CAN_MSG_INFO` | transmit, receive, MessageSend, MessageRead |
| Device layer, capabilities, CMSIS headers | none | constants, register addresses | all |
| CAN FD module and CPU (hardware, external) | FIFO 1, transmit queue, CON, INT, TREC, the interrupt flags | | all |

**Interaction.** The application calls the wrapper, the wrapper calls the HAL, and the HAL
writes registers and waits for the module to follow, with a timeout. The module raises a
CPU line; the application's vector calls `nora_canfd_irq_handler`, which calls the
registered callback `can_hal_event`, which drains the FIFO into the ring and calls the
application's event functions. Thread and interrupt share the ring, the event layer's
flags and the registers, with no lock and no masking of interrupts: what
protects them is who writes what, and in which order.

**What is hard.**

* *Concurrency*: the handler preempts any call between any two stores; the module
  changes its flags between any two instructions of either.
* *Ordering*: flags are cleared after the drain, `RXOVIF` before the report, the event
  layer is quiesced before a re-init but after the ring is rewound, `powered` is set after the
  interrupt is armed, the transmit interrupt is armed after the frame is queued.
* *Limits*: FIFO, ring and transmit queue fill up.
* *Failure*: a bit rate without a solution, a module that does not enter the requested mode in
  time, a priority that `isr_enable` refuses, at each point of a call.
* *Time*: waits without a timeout hang; events that must follow may not.

**What makes each component correct.**

* Ring: a bounded queue; no torn frame; a drop only when full; every event owed is signalled.
* Receive path: every frame once and in order, or its loss remembered and then reported; the
  handler never waits; the interrupt settles.
* Life cycle: an enabled line always finds its callback and a node; off is off; a
  driver that reports no failure runs as configured; every call returns.
* Transmit: each `tx_start` gets its TX_COMPLETE; a disable is final; sends return.
* Solver: a result satisfies the register ranges and the requested bit rate; no wrap-around.
* Codec: what is sent can be read back.

## 2. Modules

| Module | Models | Extends / refines |
|---|---|---|
| `RxQueue` | the abstract promise of the receive buffer: a bounded queue and the events owed | |
| `RxRing` | the ring between `can_hal_event` and MessageRead, word by word | implements `RxQueue` |
| `RxDelivery` | the abstract promise of the whole receive path: order of arrival, and loss only behind a full buffer | |
| `RxPath` | bus, FIFO, CPU flags, `irq_handler`, `can_hal_event`, ring and application | extends `RxRing`, takes only its steps; implements `RxDelivery` |
| `CanDriver` | the life cycle and configuration calls, down to the mode handshake of the module | |
| `TxQueue` | the abstract promise of the transmit path: a bounded queue, and completions only when it is empty | |
| `TxPath` | `tx_start`, `transmit`, `tx_abort`, `isr_enable`, `isr_disable`, the TX_COMPLETE branch | implements `TxQueue` |
| `BitTiming` | SetBitrate's sample point, `calc_bit_timing` and `solve_phase`, the timing registers | |
| `Codec` | a message from MessageSend through message RAM and bus to MessageRead | |
| `RxRingProofs`, `RxPathProofs`, `CanDriverProofs`, `TxPathProofs`, `BitTimingProofs`, `CodecProofs` | the theorems | extend the module they are about |

The specifications are parameterised, and each `.cfg` gives the constants their values
directly, so there are no separate MC modules. Definitions whose name starts with `Bug`
are mutants: plausible errors that replace the definition that follows them, to show
that the run's properties notice. They are not used by any specification.

### RxRing and RxQueue

State: the context's `rx_ring`, `rx_head`, `rx_tail` and `powered`; the locals of `can_hal_event`
(`f`, `received`, `dropped`) and of MessageRead (`frame`); the program counters `wpc`, `rpc`, and
`ppc` for the thread in PowerControl(FULL).
A frame is a struct of many words, and no store of it is atomic. It stands for its first and
its last word, so storing and copying take two steps each and a torn frame is one whose two
words differ. Producer and consumer interleave freely, which covers a MessageRead in
the thread, in the event callback, or at a priority above the CAN interrupt. MessageRead is refused
while `powered` is clear (`ReadRefused`).

PowerControl(FULL) rewinds the two indices with two stores (`RewindHead`, `RewindTail`) *before*
`can_apply_init` quiesces the event layer. After an Initialize of a powered driver, which clears
`powered` and leaves the interrupt on, the interrupt can drain between the two. The model allows a
drain at any of these points. Between the two stores the ring may look full or show stale
slots, and frames may be dropped; but `powered` is clear, so nobody reads, and from the second store on
the ring holds just what was drained since the first (`Oldest`). `powered` is set last (`PowerUp`).
`RxQueue` says what
this has to look like from outside, and `Queue == INSTANCE RxQueue WITH ...` is the
refinement mapping: the queue is the published slots, the owed events are the local flags.

### RxPath

The module delivers numbered frames (`Arrive`); the FIFO overflow sets the sticky
`RXOVIF`; `LatchRx` and `LatchGeneral` say that the CPU flags follow levels; the handler is
cut at each of its register reads and writes and each call of the callback. The application
reads by one of three policies: polling in the main loop once PowerControl has returned, emptying the
ring in the RECEIVE event, or one MessageRead per event.

The path starts where `isr_enable` has just armed the lines, inside PowerControl(FULL), with
`powered` still clear; `PowerFullReturns` sets it (`Driver` line 365). In this window a RECEIVE event
is raised whose MessageRead is refused. Such a frame (`stranded`) is neither read nor lost: it waits in the ring
until a later frame is accepted and raises the next event. If the window lasts long enough to
fill the ring, no later frame is accepted, and an application that reads only on RECEIVE gets nothing
but RECEIVE_OVERRUN. `EveryFrameReadOrLost` excepts these frames, for applications that read in the
event, and shows that there are no others.

`arrived`, `lost`, `read`, `unreported` and `stranded` are history and influence nothing. `RxDelivery` is the path from
outside: frames wait in one queue and are read from its front; one is refused, or dropped later, only
with `Buffer` older ones before it. In the mapping the queue is ring, handler and FIFO
joined (`Waiting`), and `Buffer` is the smaller of the FIFO's depth and `RingLen - 1`: what a
frame finds taken when it is lost is all of the FIFO or all of the ring, and nothing says that both are full. CERR and IVM are not
armed by the code, so their branches never run. `BusOff` enters and leaves bus-off.

### CanDriver

One action per store the handler can observe: `isr_disable` is three of them (the flag,
the line, the sources), and `init` and `deinit` are cut likewise. The program counter `pc` is the place in the call, `op` the
call and `arg` the mode to be applied. The context variables keep the names of the C fields;
`g_mode` is the public mode of `common`; `line` stands for the receive and general CPU lines,
`armed` for the module's receive interrupt enables; `hwrate` for NBTCFG, DBTCFG and TDC. `rate` stands
for the whole bit-rate setting, and `Solvable` for those the solver accepts. `failed` is
history: a configuration call has reported an error since the settings were last applied as a whole, by a
PowerControl(FULL), SetMode or SET_FD_MODE that succeeded. A SetBitrate that succeeds does not clear it: after a
SetMode that was refused for its bit rate the events are off, and stay off through it.
`ModeFollows` is the module: OPMOD follows REQOP in its own time, or never.
The internal and the external loopback mode are treated alike by the code and are one value.

### TxPath

`queued` is the transmit queue; `txqeie`, `txie`, `txline`, `txflag` are TXQCON.TXQEIE, INT.TXIE,
`_CxTXIE`, `_CxTXIF`; `rxline` is the CPU lines `_CxRXIE` and `_CxIE`. The receive *sources*, RXIE and RXOVIE in
INT, are left out: the read-modify-write of INT in `tx_start` (`isr` line 279) may write them back behind a
callback's `isr_disable`, but with the lines off nothing comes of it. UINC and TXREQ are read-modify-writes of TXQCON, and the copy
read first is a variable (`txqcon`), so that a lost update of TXQEIE is a behaviour. The
module may send whatever is in the queue; that includes the moment between UINC and TXREQ,
when TXREQ may be set from an earlier frame. `owed` is history: a frame queued by
`tx_start` whose TX_COMPLETE has not been given. The event callback does nothing to the event layer
(`"nothing"`) or may call `isr_disable` (`"isr_disable"`).

`TxQueue` says what this looks like to the caller, `Service == INSTANCE TxQueue WITH ...` is
the mapping: the waiting frames are `queued`, the completion due is `owed`, and TX_COMPLETE is
being given from the callback to the handler's exit. What the caller is doing is an input of the abstract
queue: a completion may be given up only with a `tx_abort` or `isr_disable` under way, or
in a callback that may make the call (`Stopping`), and a frame is queued only by a call that sends (`Sending`).
The abstract queue lets a TX_COMPLETE be
given that is not due, because the code does, but only after one was given, or given up, while a
send was between its stores (`Spare`): `transmit` reads TXQCON while a completion is
armed, the handler gives that completion and disarms ("One-shot", `isr` line 335), and the
write of UINC brings TXQEIE back. The next receive interrupt then finds TXIF and gives
another TX_COMPLETE. It takes an update of TXQCON that is not one instruction; what the
compiler makes of `|=` is not the source's to say.

### BitTiming

State: the context's rates and sample point, the search in progress (`pc`, `brp`, the solutions
`nominal` and `data`), the registers `hw`. One step is one iteration of `solve_phase`'s loop, in
the code's arithmetic: products of `uint32_t` wrap at `Word`, casts to `uint16_t` cut at `Half`,
and a division by zero ends in `"trap"`. `Tried` is the loop body with its `continue`, `break` and
`return`. `SetNominal` and `SetData` are CAN_SetBitrate on a powered driver, which derives the
sample point from the segment counts; `Store` the same without power; `ApplyInit` the calculation of
`nora_canfd_init`. `segments` and `applied` are history: what the registers were computed from.
`CanDriver` knows of all this only whether a setting has a solution (`Solvable`).

### Codec

State: the data words of the message RAM on both sides (`txram`, `rxram`), the header of the object
on its way, the bytes on the bus, the HAL frame, and what MessageRead gave its caller. RAM,
stack frame and caller's buffer keep what an earlier message left wherever nobody
writes; a byte is the *i*-th of some content, a zero, or `Junk`, so a stale byte is seen. One step is one of
the layers: `MessageSend` (both argument tests, `build_id_word`, the header, the packing),
`Transmission`, `Store` (the modules), `Receive` (`nora_canfd_receive`), `MessageRead`.
`PeerTransmission` is a node that does not run this driver. Identifiers are numbers, and
their split and shifts are done by division with the real field widths.

## 3. Runs

| Run | Config | Result | What it shows |
|---|---|---|---|
| `rx_ring` | `RxRing.cfg` | pass | the invariant of the ring, no torn frame, refinement of `RxQueue` |
| `rx_path` | `RxPath.cfg` | pass | each frame once and in order, lost only behind a full FIFO or ring (refinement of `RxDelivery`); losses remembered and reported; the handler never waits and settles |
| `rx_one_read` | `RxPathOneRead.cfg` | violation | one MessageRead per RECEIVE event leaves frames in the ring |
| `rx_bus_off` | `RxPathBusOff.cfg` | violation | bus-off alone raises no interrupt: UNIT_BUS_OFF is not delivered |
| `driver` | `CanDriver.cfg` | pass | what the handler finds during a call; what a failed call leaves behind; FD frames only in FD mode |
| `driver_mode` | `CanDriverMode.cfg` | violation | after a failed mode change `mode` is not the mode applied |
| `driver_reinit` | `CanDriverReinit.cfg` | violation | Initialize on a powered driver makes Uninitialize skip the power-off |
| `tx_path` | `TxPath.cfg` | pass | completions stay armed and follow, and come only with the queue empty (refinement of `TxQueue`); a disable is final; sends return |
| `tx_disable` | `TxPathDisable.cfg` | violation | `isr_disable` in the event callback can be undone by a `tx_start` in progress |
| `bit_timing` | `BitTiming.cfg` | pass | exact rate, nearest sample point, smallest prescaler; a refusal is justified; the search returns |
| `codec` | `Codec.cfg` | pass | a message read is the message sent; nothing of an earlier message leaks; a peer's frame is read as it was on the bus |
| `codec_classic` | `CodecClassic.cfg` | violation | a classic frame with a DLC code of 9 to 15 is handed on with more than 8 bytes |

Each violation is a disagreement between the code and a comment or document of the
repository; `findings` in `PROJECT.json` quotes both. The passing runs assume away exactly those
causes, by a named constant (`Reinit = FALSE`, `Policies` without `"one"`, `PeerClassicDlc` of at most
8) or by the property's hypothesis (`policy = "nothing"`, `~failed`). `Reinit = FALSE` in `driver` does cut
away the one path on which the ring is rewound under a live interrupt (Initialize on a powered
driver, then PowerControl(FULL): lines 324, 358-359, then 264); that path is in `rx_ring`, which shows that no
reader sees it.

Three smaller disagreements are not kept as runs. `src/README.md` says that RECEIVE events are delivered,
but the one for a frame drained before `powered` is set is of no use to the callback (section
RxPath). The comment in `isr` lines 130-133 says that the
transmit line is enabled only while a `tx_start` is outstanding, but the handler may complete
between two stores of `tx_start`, which then enables it. And SET_FD_MODE stores
`fd_mode` before it is applied, so when it fails MessageSend takes CAN FD frames for a module that
is in classic mode; that is why FdFramesInFdMode has `~failed`, until a call that applies the settings
succeeds.

**Bounds.**

* `RingLen = 4` (the code has 8): three frames buffered, so the ring fills while one read is
  half way, and the indices wrap at every phase. Two distinguishable frames are enough to
  tell a torn or swapped one; the interrupt may come between any two steps of a power-up. The theorems hold for every length.
* `FifoDepth = 2`, `RingLen = 3`, `MaxFrames = 5` in `RxPath` (`FifoDepth` is 4 and `RingLen` 8 in the code): FIFO and ring
  each overflow, and the FIFO overflows again while the ring is drained. Five frames fill
  both and leave one to be lost. `MaxFrames` bounds the run only.
* Three bit-rate settings in `CanDriver`: the one applied, another to change to, and one
  without a solution. Priority and default FD mode are chosen at the start.
* `TxqDepth = 2` (the code has 4): empty, partly filled, full; a second frame queued while the
  first completes.
* `BitTiming`: a 20 MHz clock and one of 20.008 MHz, which divides badly; rates that are
  found at once, after many prescalers, by one phase only, or never, and two that the
  arithmetic has no room for; a sample point from none, short, and very long segments. `Word` is
  2^30, because TLC's integers end below 2^31; the theorems hold for every width, 2^32 included.
* `Codec`: two contents; one identifier with every bit above its field set; lengths on a DLC
  code, between two and one too long; buffers that cut and that do not; peers' FD frames
  of 64 bytes and classic ones of up to 8. Messages follow each other without end through
  the same RAM, so short ones follow long ones.

**Deadlock** is checked in every run but `bit_timing`, where a division by zero stops the
program (`"trap"`); the other passing runs have none.

## 4. Fairness

* `RxPath`: weak fairness of `LatchRx`, `LatchGeneral` (the flags are level-sensitive), of the
  handler (it runs to completion) and of the application, which runs when no interrupt does. For the
  policies that read in the event, this is the callback and part of the interrupt; for
  `"thread"`, it is a main loop that polls. The end of PowerControl(FULL) is weakly fair as well: the thread
  goes on when no interrupt runs. `Arrive` and `BusOff` are not fair: nothing is
  assumed of the bus.
* `CanDriver`: weak fairness of the call in progress. `ModeFollows` is *not* fair: the
  module may refuse a mode for ever, and CallReturns holds because of the timeout.
* `TxPath`: weak fairness of the flag and the handler, and strong fairness of the thread, because
  interrupts disable its steps again and again. An interrupt that
  comes back for ever, but always returns, does not stop it. The bus may take nothing.
* `BitTiming`: weak fairness of the search: a call in progress goes on.

## 5. Proofs

All theorems hold for every value of the constants that satisfies the named assumptions
(`RingAssumption`: at least one slot, `NoFrame` is not a frame; `PathAssumption`: a FIFO of at least one object, frames
numbered from 1; `DriverAssumption`: `Solvable` is a subset of `Rate`; `TxAssumption`: a queue
of at least one object; `TimingAssumption`: clocks, rates and words fit their widths, and the widths
have the sizes the arithmetic counts on; `CodecAssumption`: sizes are bytes, DLC codes are below 16).

* **RxRingProofs.** `RingInv` is inductive as it stands. Its parts: published slots hold whole
  frames; a writer at work has room for one more; what it has stored so far is in its slot; a
  reader has a frame; what it has copied so far is still there; a reader runs only while `powered`, a rewind
  only while not; what is drained between the two stores of a rewind stays below the old `rx_tail`; an
  idle handler owes nothing. `NoTornRead` follows. Refinement (`RingImplementsQueue`): a step of the
  ring is an accept, a reject, a signal, a read, a clear, a change of power or a stutter of the queue. The lemmas compute the
  published contents after `Publish` (appended), `Advance` (head removed), and unchanged otherwise.
* **RxPathProofs.** Every step of the path is a step of the ring or leaves it alone
  (`PathUsesRing`: `PathSpec => RingSpec`), so what is proved of the ring holds in the path, and the path implements the
  queue (`PathImplementsQueue`). `EachFrameAlwaysOnceInOrder` takes the whole path as one sequence, `Pipeline`
  (read, ring, handler, FIFO), that lists exactly the frames arrived and not lost, in increasing
  order (`Ordered`). An arrival appends to it (`OrderedAppend`), an overrun of the ring takes one out of
  the middle (`OrderedDrop`), and every other step moves a frame from one part to its neighbour
  and leaves the sequence as it is. `HistoryOK` says that what is lost has arrived. `PathTypeAlwaysOK`
  follows with `PlaceOK`. `LossAlwaysRemembered` needs `LossInv`: an overflow the handler has
  acknowledged is in its event word. `ReceiveNeverWaitsEver` is inductive with the FIFO's type.
  `PathImplementsDelivery` is the refinement of the whole path: an arrival appends to `Waiting` or finds
  the FIFO full; a drop takes out the one behind the ring's `RingLen - 1` (`WithoutMiddle`);
  storing and publishing leave the joined sequence as it is (`StoreKeeps`); a read takes its head.
  `NothingIsLeftBehind` (once powered, the event callback that reads until there is no message leaves
  nothing in the ring but what was there when `powered` was set) needs to know where the handler uses the ring (`NestInv`) and where it must hold only such frames (`EmptyInv`). With
  the same nesting, `HandlerAlwaysAdvances` gives `Work`, a number below `9 * FifoDepth + 4 * RingLen + 16` that
  every step of the handler and of an application reading in it lowers: nine for a frame in
  the FIFO, four for one in the ring. Only an arrival raises it, by nine.
* **CanDriverProofs.** `IInv` adds to the types what the node, event layer and module look like at
  each place of a call (`NodeLayer`, `EventLayer`, `ModuleOn`). `HandlerAlwaysServed`,
  `AsyncTxAlwaysGated`, `PublicStateAlwaysAgrees`, `OnAlwaysIffInitialized` follow.
  `FdFramesAlwaysInFdMode` follows too, from what a running driver's mode and `fd_mode` have to do with
  each other. `AlwaysLiveUnlessReported` needs `LiveInv`, which carries the running state through a re-apply.
  `OffIsAlwaysDown` needs `OffInv`, and the hypothesis that Initialize is not called
  on a powered driver: the run `driver_reinit` shows why. Under the same hypothesis
  `UninitializeAlwaysDeinit` proves the property that run refutes. `PublicStateAlwaysAgrees` needs `ModeInv`: what the
  public mode is at each place of a call, by the mode the context names. `AlwaysEnabledFromDisabled` reads off `EventLayer` that
  `isr_enable` starts from a disabled event layer. `CallsAlwaysAdvance` numbers the places of a call
  by the steps left (`Left`, at most 16): every step but the module's own lowers it.
* **TxPathProofs.** `TxInv` is the types, `RoomKept` (room found stays until the commit),
  `Gate` and `RxGate` (off means the lines are off, except inside the calls that switch; of the receive lines this
  holds for every callback), `Armed` (busy means armed,
  except for what `tx_start` has still to arm and `tx_abort` has already disarmed; the copy of
  TXQCON to be written back is never older than an arming) and `Due` (a completion is due only if it is coming).
  `TxImplementsQueue` adds `EventInv`: the handler holds a TX_COMPLETE only with the queue empty and disarmed, the
  thread queues nothing while it does, and the handler never arms behind a read of TXQCON. Each step is then a
  step of `TxQueue` or not seen (`StepUnseenThread`, `StepUnseenOther`): an undue completion comes from no store alone.
* **BitTimingProofs.** The invariant of the search loop: no prescaler below the one tried next would
  have done (`NoneBelow`), and a solution kept is `Good` (within the field limits, of the exact rate, at the nearest
  sample point, with the smallest prescaler). The arithmetic lemmas show that for the rates in
  `InWidth` no product wraps and no quantum count is cut, so that the code's tests decide what
  `Feasible`, the reference, says. `FieldsAlwaysFit` needs no such hypothesis: whatever wrapped, the limits are
  tested on the value written. `TestsDecideFeasible` states the equivalence for one prescaler, with
  the uniqueness of the segments; `VerdictIsOfTheSetting` carries it through the loop, in both directions
  (`FeasibleSoFar`): for rates in `InWidth`, the search succeeds exactly if the setting has a timing. `SegmentsAlwaysReproduced` bounds the two
  roundings by hand: *p* of *n* quanta cut down to whole per cents lose less than one per cent, which is at most half a quantum
  for *n* up to 50, so the nearest one is *p* again (`RoundTrip`). `SearchAlwaysAdvances` counts down two runs through the
  prescalers.
* **CodecProofs.** `ParseBuild` and `BuildParse` come from one lemma on exchanging the two digits of a
  number (`Exchange`), once with SID as the high digit and once as the low. `CodecInv` says for each stage
  what the message has become there: queued, on the bus, stored, received, read. Each step takes
  one stage's part to the next one's; the tables are met only in `CodeHolds`, `CodeSmallest` and `CodeBack`. The
  theorems but the one on types assume `PeersConform`: a peer's classic frame has a DLC code of 8 or less. The run
  `codec_classic` shows why; with the hypothesis, the property it refutes is a theorem
  (`ClassicLengthStaysClassic`).

**Only model-checked.** Liveness (EveryFrameReadOrLost, LossReported, HandlerSettles,
CallReturns, CompletionFollows, SendReturns, SolverReturns), which the prover cannot do under fairness. Every other
property of the passing runs is a theorem. Of three of them the safety half is proved too: a
measure that every step lowers (`HandlerAlwaysAdvances` for HandlerSettles, `CallsAlwaysAdvance` for CallReturns,
`SearchAlwaysAdvances` for SolverReturns); what TLC adds is that the steps are taken, and, for HandlerSettles, that the handler
is not entered again for ever. Two violated properties are
theorems under the hypothesis that excludes the cause the run finds (UninitializeIsDeinit, ClassicLengthIsClassic), and so
is what is left of a third (`NothingIsLeftBehind`, for EveryFrameReadOrLost without `"one"`).

## 6. Assumptions of the models

* The board's vectors forward all three CPU lines to `nora_canfd_irq_handler`, the transmit one included. The
  repository itself says (`nora_canfd_isr.h`, lines 139-145) that arming the transmit interrupt is not
  validated on hardware and traps today; `TxPath` models the code as if it did not.
* One thread calls the driver; the driver advertises `reentrant_operation = 0`. The
  event callback does not send. Two consumers of the ring are outside this contract.
* The handler is not preempted by another instance of itself: its three CPU lines have one
  priority.
* In `TxPath` `isr_enable` is called only on a disabled event layer, as `can_apply_init` does. For the calls
  the driver makes this is proved of `CanDriver` (`AlwaysEnabledFromDisabled`).
* `CanDriver` takes the settings that have a solution as a constant set, `Solvable`. That the solver's verdict is one
  of the setting alone is proved of `BitTiming` for the rates of `InWidth` (`VerdictIsOfTheSetting`).
* The module's interrupt flags are levels that set the CPU flag again while they last, as the
  comments in `isr` (lines 335 and 355) and `nora_canfd_isr.h` (lines 60-62) say.
* A classic frame on the bus carries at most 8 bytes whatever its DLC code, as the CAN standard has it;
  the module stores the bytes the frame had.
* The rates of `InWidth`: at most 2^24 - 1 bit/s and more than a 65536th of the clock. Outside, the code does
  wrap: at 2^31 bit/s, `bps * brp` is zero for `brp = 2` and the division traps, and at 20.008 MHz a rate of
  61 bit/s is accepted and gives 62.5 kbit/s. `bit_timing` includes such rates: no register field
  overflows with them.

## 7. Not modelled, and why

* *Arguments that are refused*: null pointers, wrong object numbers, message RAM of the wrong size or
  alignment: early returns that change nothing.
* *Device layer, capabilities, object configuration, CMSIS headers, synchronisation script*: constants, declarations
  and tooling, without state.
* *Status*: `get_status` and `CAN_GetStatus` decode one read of two registers. `clear_rx_overflow` is for
  callers that poll instead of taking the callback; the driver always takes it, and the handler clears
  the flag itself.
* *Remote frames of peers*: the driver documents data frames only, but its filter takes remote frames
  too and `receive` does not look at RTR; listed as a hazard.
* *The FIFOs across a re-init*: what the module does with frames in FIFO 1 and the transmit queue when
  it goes through configuration mode is said nowhere in the repository; listed as a hazard.
* *RTR, filters, other control codes*: refused by the code.
* *Two consumers of the ring*: outside the driver's contract; listed as a hazard.

## 8. Order of work, and what is left

The order was: the ring, the path around it, the life cycle, transmit, then the arithmetic and the
data, since the data path and its races are what a test reaches least. All of section 2 is
done. What could follow:

1. A composition of `CanDriver` with `RxPath`: power-off and re-apply with frames in the ring. The parts
   that meet are covered one at a time (HandlerServed; the rewind in `RxRing`; the power-up in `RxPath`); the FIFOs
   need a source for what the hardware does.
2. Measures for the transmit path: the steps a `tx_start` and a handler have left, and how many frames the
   bus has to take before a completion comes.
3. An application that polls `get_status` and clears the overflow itself, with the event layer off.
