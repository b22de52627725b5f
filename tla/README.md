# A verification of wasp1

wasp1 is a single-core RV32I+Zicsr system on chip: an in-order core with
instruction and data caches, an AHB-Lite bus with a DMA engine as its second
master, memories and peripherals, and a RISC-V 0.13 Debug Module behind JTAG.
Next to the RTL the repository holds a UART bootloader that programs the OTP and
the host tool that talks to it.

This directory models the parts in which several state machines have to agree,
as TLA+ modules that TLC checks on small instances and TLAPS proves about for
every instance. Paths below are relative to `src/`.

## How the models are built

All blocks of the chip but the JTAG transport run on one clock. In the models of the
memory path and of the hart a step is one rising edge: every block has an operator `...Clock` that
gives its registers after the edge from the values, and the wires, before it, and
the system's step is the conjunction of them. Wires are operators without primes
and keep the RTL's names where TLA+ allows. What the design does not decide (when
a cache answers, whether an interrupt is pending, what the debugger writes) is
chosen from a set in each step. So all interleavings of the environment with the
hardware are covered, and interleavings within one clock domain, which cannot
happen, are not.

The caches are modelled one handshake at a time instead, since cycles do not
matter to them: every register of a cache changes only on an edge that completes a
handshake, of the core with the control, of the control with a sequencer, or of a
sequencer with the bus. Within one cache no two complete on one edge, because
each waits for the other's state; the two caches share nothing but memory, so
that an edge on which both move is two steps in either order.

The programs around the chip are modelled one step per blocking call or handler:
the loader's loop, the host tool, the harnesses. The JTAG transport is modelled edge
by edge of two clocks, the test client bit by bit. Tools that only compute are
operators, compared with a reference definition in an `ASSUME` that TLC evaluates
before a run: `IrqCampaign` in `smoke`, `OtpImage` in `otp`, `StateDiagrams` in
`bus`, `caches` and the runs of the hart.

## Inventory

| Component | State it keeps | Operations | Interacts with | What is hard | What makes it correct |
|---|---|---|---|---|---|
| bus (`bus/rtl`) | arbiter FSM, owner, last grant; data-phase select | grant, address, data, response | masters: bridge, DMA; slaves: memories, peripherals | `hready` defaults high for a master that does not own the bus; the response comes edges after the select | one transfer at a time, answered to its owner; no starvation |
| core bridge (`wasp1/rtl`) | FSM, port, latched request and response | accept, present, await, hold | both caches; arbiter | D-cache priority; response held for a cache | each request answered once; fetch not starved |
| DMA (`dma/rtl`) | registers, transfer FSM, status | register access, start, copy word, finish | bus on both sides | software writes registers in mid-transfer; bus errors; overlap | copies in order, ends, status tells how |
| SRAM (`sram/rtl`) | captured access, output, array | read, write | bus | write data arrives an edge after its address | reads see the last write |
| frontend (`frontend/rtl`) | PC, fetch FSM, kill bit, buffer | request, response, push, pop, redirect | I-cache; core | redirect while a fetch is outstanding | PCs delivered in sequence, nothing stale |
| pipeline, traps, LSU (`core/rtl`) | two slots, outstanding access, CSRs | accept, advance, access, retire, trap, return | frontend; D-cache; debug control | redirects, stalls, interrupts at any moment | executes the program one instruction after the other |
| core debug control (`core/rtl`) | FSM, next PC, DPC, channels | halt, resume, step, trigger, register/memory access, injected word | pipeline; Debug Module | all of it while the pipeline runs | halts between instructions, resumes where it halted |
| Debug Module (`debug/rtl`) | dmcontrol, halt FSM, command FSMs, program buffer | DMI write, halt/resume transaction, command | core; DTM | acknowledgements, aborts, hart state changing under a command | requests are answered; a command ends |
| JTAG DTM (`debug/rtl`) | TAP, shift registers, toggle handshake | scan, cross, answer | host; Debug Module | two clocks, a reset of one side | each request once, no phantom answers |
| debug smoke tests (`wasp1/dv`) | processes, sockets, the client's script | start, connect, scan, time out, kill | the simulated chip | clients cut off, a port already held, processes left behind | passes only on real answers, fails only for a reason, ends |
| I-cache, D-cache (`icache`, `dcache`) | tags, data, control and downstream FSMs | hit, fill, store through, bypass | core; bridge | memory changing under a fill; errors | what is cached is what memory held |
| state diagrams (`docs/tools`) | - | draw | readers | drawn by hand, beside the RTL | the RTL moves as drawn |
| image tool, campaign (`llvm_s1/scripts`, `wasp1/dv`) | - | build an image; choose seeds, run, add up | OTP; simulations | 32-bit and byte order details, a stale report | images load as written; a pass means every simulation passed |
| OTP (`otp/rtl`) | array, key, lock | program, lock | bus | legality of a pulse | bits only ever burn; a locked array stays |
| timer, WDG, INTC, GPIO, UART, I2C | registers, FSMs | tick, event, register write | bus; interrupt lines | a write on the edge of an event | no event is lost, no action late |
| bootloader, host client (`llvm_s1`, `ftdi_debugger`) | frame buffers, sequence number | request, process, answer, retry | UART line | lost bytes, late answers | no word is burnt by mistake; a retry succeeds |
| common; decode, ALU, register file, ... | - | - | - | combinational, or library | - |

`PROJECT.json` lists every component with its sources, and every hazard at the
line where it bites, with the properties that cover it or the reason none does
yet.

## Plan

1. The memory path: `AhbArbiter`, `CoreBridge`, `Dma`, composed in `CoreBus`,
   against `AtomicBus`. **Done**, with proofs.
2. The hart: `Frontend`, `CorePipe`, `CoreDebug`, `HaltCtrl`, composed in `Core`,
   against `Hart`. **Done**, with proofs.
3. The D-cache (control, tags, lines, the three downstream FSMs) and
4. the I-cache: `CacheLeaves`, `ICache`, `DCache`, composed in `CachedMemory` with
   memory and its other writers, against `NoncoherentMemory`. **Done**, with proofs.
5. The JTAG transport in two clock domains and the smoke tests that use it:
   `JtagDtm`, `RbbClient`, `DebugSmoke`. **Done**, with proofs. The Debug Module's command FSMs with
   `dmactive`, against a DMI that answers each request once, are left.
6. The OTP, the loader and the host client over a line that loses, spoils and delays
   bytes: `AhbOtp`, `OtpFrames`, `OtpLine`, `OtpLoader`, `OtpHost`, composed in
   `OtpProgramming`, against `AbstractOtp`. **Done**, with proofs. With them the image
   tool (`OtpImage`), checked only.
7. The state diagrams (`StateDiagrams`, `DmaDiagram`, `CacheDiagrams`, `HartDiagrams`)
   and the campaign (`IrqCampaign`). **Done**, the diagrams with proofs.
8. The peripherals' write/event races, one small module each: left.

Every safety property of the passing runs is proved, the four refinements and that the
hardware follows its diagrams among them. The theorems left are those of the modules left;
liveness, and what is induction over data (`DiagramsAreSound`, `CampaignIsSound`,
`ImagesAreSound`), stay with TLC.

## The memory path

| Module | Models | State in the module and in the code |
|---|---|---|
| `AhbArbiter` | `bus/rtl/ahb_arbiter_2m.sv` | `arbState`, `owner`, `lastGrant` are `state_q`, `owner_q`, `last_grant_q` |
| `CoreBridge` | `wasp1/rtl/wasp1_core_ahb_bridge.sv` | `brState`, `brSel`, `brReq`, `brRsp`; `brSel` "I"/"D" is `sel_dmem_q` |
| `Dma` | `dma/rtl/ahb_dma.sv` | one variable per register; `dmaReq` and `dmaRsp` are the slave's captured access and answer |
| `CoreBus` | `wasp1/rtl/wasp1.sv`, `bus/rtl/ahb_fabric_2m.sv`, decoder, mux, `sram/rtl/ahb_sram.sv`, the caches' downstream FSMs | `leaf[p]` is the downstream FSM of the cache on port p, `dataSel` is `data_hsel_q`, `memReq`, `memRsp`, `mem` are the SRAM's |
| `AtomicBus` | the promise | one memory and one operation per client |
| `MCBus` | the instance | history variables `overtaken`, `fetchWaits`, `job`; `LineWords`, the words of a line |
| `CoreBusProofs`, `MCBusProofs` | the proofs | |

`AtomicBus` promises its three clients (I-cache, D-cache, DMA) that a request is
carried out exactly once between being made and being answered, one at a time,
on one memory. `CoreBus` implements it: `AccessesAreAtomic` is
`Atomic!Spec` under a refinement mapping in which a request is pending until the
slave has taken its data phase, and done until the client has collected the answer.

The run `bus` (about 138 000 states) has four SRAM words and the DMA registers,
with one unmapped address next to the SRAM. The D-cache port programs the DMA
engine for two words, to a destination that overlaps its source or runs into
the unmapped address, starts it, clears it, starts and reprograms it again while
it runs, and stores to a word it copies; the I-cache port fills lines of two
words. Two words and two beats are the least for which "the next word" and "the
last word" differ; a line of four adds more of the same. The properties:

- `ResponsesAreOwned`, `ResponsesAreCurrent`: who waits for a response is who it
  belongs to, and it comes from the slave addressed, with what memory holds.
- `DmaCopiesInOrder`: at every edge of a transfer memory is what an ascending
  copy of the words written so far gives, overlap, errors and reprogramming
  included. `job` keeps that image and moves it on by one word with each DMA store.
  A CPU store into the operands ends the claim for that transfer.
- `MasterOvertakenOnce`, `FetchOvertakenByOneFill`: bounds on waiting. A master is
  overtaken once, a fetch by the words of one D-cache operation (`LineWords`).
- `EveryAccessAnswered`, `DmaTransferEnds`: liveness.

Fairness: `WF(Outstanding /\ Clock)`. The clock ticks while something is
outstanding, and nothing else is assumed: each operation must get through by the
arbitration alone, while the other port and the DMA engine do as they please.

The run `dma_status` shows a disagreement with the DMA's design specification: a
START written while a transfer runs sets the error bit and the transfer then ends
with `done` and `error` both set.

## The hart

| Module | Models | State in the module and in the code |
|---|---|---|
| `Frontend` | `frontend/rtl` | `pc`, `pcValid`; `fetchState`, `fetchPc`, `kill`; `ibuf` the FIFO's PCs |
| `CorePipe` | `core/rtl/core_pipe.sv`, `core_hazard.sv`, `core_trap.sv`, `core_csr.sv` | `id`, `ex` the two slots; `lsuOutstanding`; `mie`, `mpie`, `mepc`; `reg`, `scratch` one register and mscratch |
| `CoreDebug` | `core/rtl/core_debug_ctrl.sv`, the debug part of `core_int_datapath.sv`, the Debug Module's operation in flight | `dbgState`; `nextPc`, `dpc`; `execActive`, `memOut`, `rspValid`; `dm` |
| `HaltCtrl` | `debug/rtl/debug_halt_ctrl.sv`, dmcontrol in `debug_dmi_regs.sv` | `haltState`, `resumeack`; `haltreq`, `resumereq` |
| `Core` | the wiring: `core_int_datapath.sv`, `tile/rtl/tile.sv`, `debug/rtl/debug.sv` | the inputs of a cycle are the record `in` |
| `Hart` | the promise | a program counter, a mode, the trap CSRs |
| `MCCore` | the instances | `stepped` counts what a single step retired |
| `CoreProofs`, `MCCoreProofs` | the proofs | |

An instruction is abstracted to its kind, its jump target and whether it reads
the register a load writes; the program is a constant function from PCs, and a
PC without an instruction is an illegal word. Data values are left out, except
that `SWAP` (`csrrw r, mscratch, r`) exchanges two of them. `TRAP` stands for
every synchronous exception, whose handling is the same. A trigger on a data
address is given by the PCs of the instructions that access it.

`Hart` executes one instruction after the other, accesses memory only for the
instruction it executes, and enters and leaves Debug Mode between instructions.
`ExecutesInOrder` is `Hart`'s specification under the mapping that takes the
abstract PC to be the oldest PC in flight (or `dpc` in Debug Mode).

Properties, and what they say of the code:

- `InFlightIsSequential`: between redirects the PCs in EX, ID, the buffer, the
  fetch and the PC register are consecutive. Dropping `kill_q`, or a buffer that
  survives a flush, breaks it.
- `ResumePcIsOldest`: whichever of the writers of `debug_next_pc_q` was last, it
  is the PC of the oldest instruction, and a halted hart's DPC is too.
- `DebugWorkIsHalted`: no resume under an injected word, an access or an
  uncollected response; no instruction of the program in a halted pipeline.
- `DataResponseIsOwned`: the untagged data response has one owner.
- `StepIsBounded`: a step retires at most two instructions.
- `HaltIsAnswered`, `ResumeIsAnswered`, `StepEnds`: liveness.

Runs and bounds. `IbufDepth` is 2, the depth of the RTL's default. `core_irq`
(96 000 states) runs a loop with a load and a dependent branch, a store and a
fetch that fails, under interrupts, with halts and resumes. `core_debug` (96 000
states) runs a loop of a load, a dependent branch and the jump it skips, with
every debugger operation, two injected instructions (a store and a jump), a data
trigger on the load and an execute trigger on the jump. `core_live`
(9 300 states) is the smallest loop with an access. The programs are as short as
they can be and still place each kind behind each other one; PCs are finite as
the programs are loops, so no counter needs a bound but `stepped`, which stops
at `MaxStepped`.

Fairness (`core_live`): a cache with a request to take or to answer does so in
the end, in a cycle in which the debugger writes nothing. The caches do: the run
`bus` shows every access answered. The debugger is behind JTAG and a
toggle handshake, many cycles per write, so that such a cycle always comes.
Branches, interrupts and the debugger itself get no fairness.

Four runs end in a violation, each of a sentence in the core's documents
(`findings` in `PROJECT.json`):

- `core_step`: a single step can retire two instructions. Fetch is stopped only
  an edge after the stepped one retires.
- `core_breakpoint`: an execute trigger on the instruction behind a load or store
  is missed. It is masked while the access is outstanding, and that is when
  the instruction leaves ID.
- `core_misfire`: an execute trigger matches in ID although the jump in EX
  discards the instruction on the same edge; the hart halts with a DPC it would
  not have come to.
- `core_swap`: an interrupt on a CSR instruction cancels its register write but
  not its CSR write; after MRET it is executed again on the new value.

`OnPathSpec` excludes the step `Misfire` of the third of these, and nothing else:
with it, what `core_misfire` refutes is refuted for `ResumePcIsOldest` too. The
runs `core_irq`, `core_debug` and `core_live` and the theorems `ResumePcOldest` and
`HartExecutesInOrder` use `OnPathSpec`; the other theorems, `StepBounded` among them,
hold with the misfire too.

## The caches

| Module | Models | State in the module and in the code |
|---|---|---|
| `CacheLeaves` | `icache_tag.sv`, `icache_data.sv`, `icache_refill.sv` and their twins in `dcache/rtl` | an entry's tag and valid bit are one value, the line or `NoLine`; `Fill` is a refill sequencer's registers |
| `ICache` | `icache/rtl/icache_ctrl.sv` over those | `icState`, `icAddr`, `icRsp` are `state_q`, `miss_addr_q`, `rsp_*_q` |
| `DCache` | `dcache_ctrl.sv`, `dcache_store.sv`, `dcache_uncached.sv`, the port in `dcache.sv` | `dcState`, `dcReq`, `storeHit`, `dcRsp`; `dcFill`, `dcStore`, `dcUncached` the three sequencers |
| `CachedMemory` | `tile/rtl/tile.sv` and what is below it | `op[p]` the request port p has in the memory path; `mem`; `behind` a history variable |
| `NoncoherentMemory` | the promise | copies per port, made from memory while a load of their line is outstanding |
| `MCCaches` | the instance | |
| `CacheProofs` | the proofs | |

The memory path below the caches is used here as `AtomicBus` promises it, and the
run `bus` shows that it does: a request is performed once, at one moment. What the
caches add is that they copy. Nothing keeps the copies coherent: the DMA engine
writes SRAM and the OTP's registers burn OTP words behind their back, and the
D-cache's cacheable windows hold both. (`docs/wasp1_architecture.md:98` has the
OTP uncached; `dcache/docs/dcache_spec.md` and the code cache its data window,
not its registers.) So the properties say what can be said:

- `LinesAgree`: a valid line holds what memory holds, except for words somebody
  else has written since; `behind` remembers which. Between the bus write of a store
  that hit and its merge, the word counted is the stored one (`MergePending`).
- `LoadsAreCurrent`: the same of what the frontend and the core are told. In
  particular the core always reads its own last store, through hits, misses,
  evictions and uncached accesses alike.
- `ImplementsNoncoherentMemory`: a load returns a word that memory held after the
  line was asked for, or the core's own later store; a load of a line that cannot
  be read whole fails; a store reaches memory exactly once and a failed one changes
  nothing, the copy included; an uncached access leaves no copy.
- `SequencersExclusive`: what `dcache.sv:137` says, "mutually exclusive by
  construction in dcache_ctrl". The port routes a response to whoever waits.
- `EveryRequestAnswered`: liveness.

The run `caches` (about 101 000 states) gives each cache one entry, so that lines
evict each other, and lines of two words: one in RAM, one in the OTP, one of which
only the first word is mapped, and the OTP registers, not cacheable, that burn a
word of the second line. Words are 0 and 1. The requests read and write each of
them, include a store the OTP's data window refuses and one `invalid_req`
refuses, and the DMA engine writes a RAM word. More entries are independent copies
of the one; the theorems hold for any number.

Fairness: `WF` of the caches' own steps, which the clock drives, and of
`Perform(p)`, which the run `bus` shows (`EveryAccessAnswered`). The core and the
DMA engine get none.

## Programming the OTP

| Module | Models | State in the module and in the code |
|---|---|---|
| `OtpFrames` | `host/wasp1_otp/protocol.py`, `bsp/bootloader/wasp1_uart_otp_protocol.h` | frames and the tokens they travel as |
| `OtpLine` | the UART and the serial driver | `toTarget`, `toHost` |
| `AhbOtp` | `otp/rtl/ahb_otp.sv`, `wasp1_otp_macro.sv` | `OtpState` |
| `OtpLoader` | `uart_otp_loader.c`, `wasp1_uart_otp_protocol.c` | `lphase` is the place in the loop of `main`, `lheader`, `lbody` its buffer |
| `OtpHost` | `cli.py`, `client.py`, `serial_transport.py` | `job` is the command line, `stage`, `pos`, `got` where its client is, `hphase`, `tries` where `exchange` is |
| `OtpImage` | `llvm_s1/scripts/wasp1_make_otp_image.py` | none; its image is what `MCOtp` programs |
| `OtpProgramming` | the four together | `mishaps`, `harm`, `cut`: what has gone wrong |
| `AbstractOtp` | the promise | `words`, `locked`, `asked` |
| `OtpProofs` | the proofs | |

What is hard here is that bits do not come back. The host repeats a request whose
answer it missed, the target carries it out again, a target can be reset between two
words or in the middle of one, and the loader, which has no timeout, can wait for the
end of a frame while the host believes the line quiet. `AbstractOtp` promises that
words only lose bits, to a value the current command line asks for, and none between a
lock and the next reset; `ImplementsAbstractOtp` says the system keeps to it whatever
goes wrong. `HostBelievesTrue` relates the tool's view to the array,
`InterruptionIsHarmless` says the same command can be given again,
`ErrorsHaveACause` that a lost answer alone is made up for, `IllegalFramesBurnNothing`
that a frame is burnt whole or, if one word is illegal, not at all, and `JobEnds` that
every command ends.

The run `otp` (538 000 states) has two words of one bit: one to burn and one to
keep, which is where every rule about bits shows. Frames take one or two words, so
that an image is one frame or two. `Devices` are loaders that can do everything, only
read, nothing, or speak another version; `Jobs` every operation of the tool, with images
that fit, do not fit, are misaligned or unconfirmed, and requests no version of the tool
sends. `Mishaps` bounds lost or spoilt tokens, early timeouts and resets to two for the
loader that takes whole images, and to one for the others; `Retries` is 1: two faults
are one more than the retries make up for. Fairness: both programs run on and a deadline passes
when nothing comes (`WF` of `Host`, `Loader`, `DeadTimeOut`); faults get none.

Taken for granted: the CRC tells every spoilt frame; a sequence number or CRC does not
spell the magic (a payload word may, `MagicWords`); a job starts on a quiet line; what is
lost is a token, the two magic bytes, a header, a word or a CRC; a chunk is a whole
number of words (`max_payload & ~3`); the programming pulse is atomic, as in the RTL.

The model shows, and no property contradicts, that one lost byte of a *request* is
fatal to a job: what the loader then answers, CRC_ERROR, is not retried, or
the answer belongs to the repetition's predecessor and the sequence check ends the job.
A stray `W` before the magic costs the frame behind it (`uart_otp_loader.c:131-137`). The
lock is a register that reset clears (`ahb_otp.sv:177`), where `client.py:200` and
`cli.py:105` call it permanent; hence `~cut` in `HostBelievesTrue`.

`OtpImage` checks, for every payload of up to five bytes drawn from 0, 1, 128 and 255 (a
word and a byte, so every alignment of the end), that a load finds each byte where the
linker put it, that padding leaves every later image programmable, and that the tool
fails exactly when it should; and reproduces the lines `check_otp_image.sh` expects.

## The debug smoke tests

| Module | Models | State in the module and in the code |
|---|---|---|
| `JtagDtm` | `debug/rtl/debug_jtag_dtm.sv` and the DMI port of `debug_dmi_regs.sv` | `tap`, `ir`, `irShift`, `drShift`, `tdo`; `dtm` the TCK side, `dmi` the system clock side, `dm` the response slot |
| `RbbClient` | `wasp1/dv/wasp1_rbb_smoke.py` on the simulated chip of `wasp1_remote_bitbang_main.cpp` | the script still to be sent, the pins, the phase of the clocks |
| `DebugSmoke` | `main` of both harnesses and of the simulator | processes, connections, ports |
| `MCSmoke` | the instance | |
| `SmokeProofs` | the proofs | |

The client's own script is played bit by bit through the TAP, the two synchronizers and
the Debug Module. `AnswersAreReal`: when the client has an answer, the Debug Module has
carried out its requests, each once, in order, and nobody else's since. `NoFalseAlarm`:
a client never fails on a chip that works, whatever state the client before it was cut
off in. `TestsEnd`: the harnesses and their children end.

The run `smoke` (153 000 states, most of them one script on another's remains) has
addresses and data of two bits, IDCODE of five, DTMCS of one: the lengths must differ
for a scan of the wrong register to show, and the registers' bits do not interact. One
client may be cut off (`MaxCuts`), at any command, and the next starts on what it left;
with a second cut (1 493 000 states) the properties hold too. Shorter registers make
scans shorter, which leaves *less* time for an answer to cross than the real ones do: of
the sixteen idle cycles twelve are not enough here (`NoFalseAlarm` fails) and thirteen
are. `SmokeProofs` proves the sixteen enough for registers of every length. Fairness: `WF` of the simulator, the harness and
the client's commands; OpenOCD and GDB get none, their timeouts end the wait.

Taken for granted: client and server take turns command by command, as the socket
makes them; OpenOCD's JTAG traffic is not modelled, and a chip it has used is not given to
another client; the hart is running or halted; trst and `dmihardreset` are not used (the
OpenOCD configuration is `srst_only`).

The model also shows what no document speaks of: `TestsEnd` has to except a simulator
never connected to, which is left behind by `wasp1_rbb_smoke.py` (SIGTERM only sets a
flag, and `wait(5)` is not followed by a kill, lines 176-179), so that no property speaks
of what it does to the next test; the OpenOCD harness never
looks at its simulator's exit code, and so can pass against another one that holds the
port (lines 146-171), which is why `AnswersAreReal` asks for the own simulator of the
other harness only; and a client cut off in mid-scan can have its half-shifted request
committed by the next one's `reset_to_idle`.

## The state diagrams

`docs/tools/render_state_pngs.py` draws some thirty diagrams of the RTL from lists of
nodes and arrows, and detailed ones of five blocks with boxes for the conditions.
`StateDiagrams` holds the graphs. `DiagramsAreSound` says of all of them that no logic
is drawn feeding itself and that every machine can get back to rest. For the blocks
whose RTL is modelled the diagrams become properties. At every step of the model a
machine either takes an arrow, under the condition of its label and with the updates of
its box, or rests: then it has no arrow it could take, and its registers are held. What
a box does not name is held too. Staying in a state is thus no exception: the answer that
a machine waits for may not pass it by, a kill bit may not be dropped, and nothing may be
written while it waits.

A graph is shorter to state than the RTL it is of, and the script is long: of the 2425
lines of Python that the definitions of this project stand for, 1416 are tables of this
drawing script. The number of lines says less about the programs than about the drawings.

| Module | Property (run; theorem) | Diagrams |
|---|---|---|
| `DmaDiagram` | `DmaFollowsDiagram` (`bus`; `DmaFollows`) | DMA list and detailed drawing |
| `CacheDiagrams` | `CachesFollowDiagrams` (`caches`; `CachesFollow`) | refills, store, both controls |
| `HartDiagrams` | `HartFollowsDiagrams` (`core_debug`; `HartFollows`) | fetch, buffer, pipeline, halt controller |

`DiagramProofs` holds what the three proofs need to know of paths in a graph.

Where a drawing and the RTL part, the property says so in the definition concerned:

- DMA: the detailed drawing has MORE go from WRITE RESP to READ DATA, the list and the
  code to READ ADDR; a START needs no CLEAR before it (`StartsOver`); while the engine
  waits for the bus a START sets ERROR and a CLEAR takes it (`ErrorByRegister`); the LAST
  WORD box clears ERROR, the code does not (`StatusIsExclusive` is violated by that).
- D-cache control: the uncached path is not drawn; `PassesBy` has its three steps leave
  tags and lines alone, and the boxes of a hit, a miss and a store are read for the
  cacheable windows only. I-cache control: nothing leads to LOOKUP HIT MISS. Buffer: a
  flush is drawn as a state, and ONE stands for all between empty and full (`InBetween`).
  Fetch: a response that comes with the flush is not drawn, and dropped (`DroppedAtOnce`).
  Pipeline: the debugger's words are not drawn, and own an empty one (`WordInjected`).
- Halt controller: no arrow for a halt request in RESUME_WAIT with the hart still halted
  (`HaltedStill`).
- Command and register access: HART LOST is drawn from WAIT to ISSUE, SAME CYCLE RSP from
  LOCAL RSP to CORE REQ, and nothing leads from LOCAL RSP to IDLE. DMI registers: the
  writes into the two register banks are not drawn.
- Arbiter: drawn as GRANT M0, GRANT M1 and HOLD, coded as IDLE, ADDR, WAIT, RESP. Fabric:
  the default slave is drawn as logic, and so its answer as a loop.
- `core_pipe_state`, `ahb_dma_fsm` and `dcache_ctrl_fsm` are rendered twice under one file
  name, and the detailed drawing is what remains.

Diagrams of blocks without a model (peripherals, decoders) are checked for soundness
only. How the tool draws is not modelled.

## The interrupt campaign

`IrqCampaign` models `wasp1/dv/wasp1_random_irq_multiseed.py` and the schedule of the
firmware it runs, `random_irq_stress.c`, on real 32-bit words (a word is the set of the
positions of its ones). `CampaignIsSound` says that the record of the unit test comes out
bit by bit; that the windows of the nightly campaign's 32 seeds are 384 different states
of the generator, as `generate_seed_campaign` promises; that the campaigns of the Makefile
pass on healthy simulations, the nightly one with every selector; and that any trouble in any of the
simulations (an exit code, no record, another seed's record, sums that disagree)
ends the campaign there. Explicit seeds are only checked for repetition: their windows may
overlap.

## What is proved

All theorems are for every value of the constants, as far as the assumptions named in
the modules go. TLC evaluates these in the runs.

| Proofs about | Assumptions | They say |
|---|---|---|
| memory path | `MapAssumption`, `OpsAssumption`; `LineAssumption` for the history variables | SRAM words are aligned and are not DMA registers; the SRAM is stored to by whole words; no D-cache operation is longer than a line |
| hart | `ProgramAssumption`, `IbufAssumption`, `DebuggerAssumption` | any program at aligned PCs, any faults, a buffer of at least one, any triggers and injected words |
| caches | `CacheAssumption`, `MemoryAssumption` | any geometry, index function and memory map |
| debug smoke tests | `DtmAssumption`, `MaxCutsAssumption` | an address of one bit at least and data of two (`dmstatus` is told by its lowest bits), IDCODE and DTMCS of any length, IDCODE not empty; `dmcontrol` and `dmstatus` at two addresses |
| OTP suite | `DepthAssumption`, `MaxPayloadAssumption`, `MagicWordsAssumption`, `DevicesAssumption`, `RetriesAssumption`, `JobsAssumption`, `MishapsAssumption` | a word and a payload at least; any set of builds of the loader and of command lines, any number of retries and faults; a raw request is one `encode_frame` accepts |

### The memory path

`CoreBusProofs`: `TypeCorrect`, `ResponsesOwned`, `ResponsesCurrent`, `BusIsAtomic`. The
inductive invariant is `BusInv == TypeInv /\ ResponsesAreOwned /\ DataPhaseOK`.
`TypeInv` adds to `TypeOK` that a transfer in flight has a word left
(`TransferInFlight`), without which `remaining` could be counted below zero.
`DataPhaseOK` says that the arbiter, the fabric and the SRAM, which each remember
the data phase in registers of their own, remember the same one, that of the
owner. The steps are proved per block (`ArbNext`, `BridgeNext`, `DmaNext`,
`LeafNextOwned`) from `ReadyMeans`, which says when a master may take
`hready` for its own.

`BusIsAtomic` is `AccessesAreAtomic`: every edge is a step of `AtomicBus` or a stutter. An
edge may at once make one client's request, perform another's and collect a
third's answer, so `AtomicBus` lets each client move by itself and at most one of them
perform; `ClientStep` shows that a client's part of an edge is such a move,
`MemoryStepRefines` that the one access an edge performs does to memory what the
promise says, `AnswerIsRight` that its answer is what the promise gives. It needs, of
`BusInv`, who owns the data phase, and `SramSelected`: the SRAM works on an access only
when the fabric selects it.

`MCBusProofs`, where `HistoryIsInvisible` says that what MCBus records constrains
nothing: `OvertakenOnce`, since who was overtaken lost the last arbitration and so
wins the next (`OvertakenLost`); `FetchOvertakenByOneLine`, since the bridge is free and
the fetch is next whenever the D-cache has finished an operation (`FetchIsNext` bounds,
with each word the operation has left, how many went before); `DmaCopies`, where `CopyOK`
says which word of the promise the engine is at, and that what it holds is the word
promised there.

### The hart

`CoreProofs`: `TypeCorrect`, `DebugWorkHalted`, `DataResponsesOwned`,
`InFlightSequential`, `ResumePcOldest`. The inductive invariant is
`CoreInv == TypeOK /\ DebugInv /\ Sequenced`. `DebugInv` adds to the two debug
properties that a channel's state agrees with the Debug Module's operation
(`ChannelsOwned`) and that a halted pipeline holds at most one word (`OneWord`);
without them a response could be held for nobody and block the channels, and two
injected words could be in flight. `Sequenced` states `InFlightIsSequential`
place by place (slots, buffer, fetch, PC), which is what a step changes;
`InFlightFacts` leads back to the sequence. `RedirectStep` is the case of an edge
that redirects, `StraightStep` of one that does not.
`ResumePcOldest` needs in addition that each writer of the resume PC writes the
PC that becomes the oldest, in `ResumePcStep`.

`HartExecutesInOrder` says that every edge is a step of `Hart` or a stutter.
Its invariant `HartInv` adds to `CoreInv` and `ResumePcIsOldest` that the slots hold what
the program has at their PCs (`SlotsAreGenuine`). The mapping becomes simple with it:
the abstract PC is the register `debug_next_pc_q` (`AbstractPcNow`), and `NextPcMoves`
says when it changes. `RetirementRefines` is the edge that retires an instruction of the
program, taken interrupt and trap included, `OtherEdgeRefines` any other. It needs
`OnPathSpec`: a misfired trigger halts with a DPC the program would not have come to.
Attempting it corrected the model: `RedirectPc` and `RetireNextPc` had been written with
CASE arms that can hold together, where the code's `if`/`else if` gives the first
precedence.

`MCCoreProofs`: `StepBounded`. `StepInv` says by how far the step is what may yet retire:
while it runs nothing has retired and the slots hold at most one instruction, once it is
halting what they still hold is at most the second. The proof shows where the bound
of two comes from: a fetch takes two edges, so that the second instruction is accepted
only as the first retires, and a misaligned PC, which is answered at once, is answered by
illegal words of which the first discards the rest.

### The caches

`CacheProofs`: `CachesTypeCorrect`, `CachesSequencersExclusive`, `CachesLinesAgree`,
`CachesLoadsAreCurrent`. The inductive invariant `CacheInv` has one part for each
cache (`IInv`, `DInv`) and one for memory. `Knows(p, a, w)` says that port p, unless
it was left behind at `a`, has the right word in `w`; the invariant says it of every
place a word rests on its way: the request carried out (`Answered`), the words a
fill has so far (`FillOK`), a store not merged yet (`SequencersDone`), lines and
responses. `PerformKnows` and `DmaKnows` show that a step of the memory path takes
no knowledge away but that of the address being accessed; and a fill's line is in no
entry and an uncached line is never in one (`IOwned`, `DOwned`), so that nothing
else rests on that. The other steps move words from one place to the next.

`CachesAreNoncoherent` says that every step is one of
`NoncoherentMemory` or a stutter. A port's copies are the words of its valid lines and
those its fill has so far, and a store is served when memory has it; so copies
are made and stores served in the step of the memory path (`PerformAddsCopy`,
`SingleAccess`), a fill's lines are dropped or handed over when the control accepts it
(`FillAcceptForgets`, `FillAcceptLoads`), and the rest is quiet. `RequestsKept` adds to
`CacheInv` what an answer owes to its request: in particular a fill remembers an error
only if its line cannot be read whole (`FillFails`), which is why a load may fail.

### The OTP suite

`OtpProofs` has three invariants. The first, `Inv`, is about the two programs and the
line one by one: the types (`TypesHold`), and that whatever whole frame is under way,
on the line or in the loader, asks for nothing but what the command line asks for
(`LineInv`, `LoaderAsked`), and that the frame being burnt may be burnt to its last
word (`FrameBurnable`). That is what `IllegalFramesRefused` and `BurntAsAsked` (that the
suite implements `AbstractOtp`) follow from.

The second, `BeliefInv`, ties the host to the target through the line. A program may
believe an answer because it answers *this* request, and it sees that by the sequence
number alone, which wraps around. `Flight` puts what is under way into the order in which
it will come back: what the host has read, the line to it, the loader, the line to the
target. No answer or request of an earlier number is behind one of the current number
(`Before`, `InOrder`); so when an answer is accepted, all that is left carries the number
just used, and none the next one (`NextSequence`), however many numbers there are, as
long as there are two. Requests of the current number are the host's own, burning ones are
under way only while the host may have sent some (`Asked`), and answers of the current
number are true of the OTP *now* (`Truthful`): nothing that is under way can make them
false. Of a frame being burnt the first `lpos` words are in the OTP (`Burning`), so that
its answer is true when it is given. `BeliefsTrue` and `InterruptionsHarmless` follow, for any number
of faults and resets.

`ErrorsCaused` has a third. Why a job fails cannot be said of one exchange: the answer to
this request may be spoilt by the remains of the one before. `ErrorInv` says that there
are none. While nothing but answers cut short has befallen a legitimate job, one frame is
under way at a time (`OneFrame`): nothing, the request, its answer, or what is left of a
cut one, which holds no magic and so starts no frame. Of a whole frame the reader has the
first tokens and the line the others, for one place in the frame (`Halfway`), so that it
is read as it was sent; the request asks for nothing the loader refuses, a started pulse
is accepted (`PulseAccepted`), and the answer is the one the host expects (`Proper`). A
time-out then comes only after a cut answer, of which `tries` counts no more than
there were. `Inv` and `BeliefInv` are needed along with it: that the retried frame may
still be burnt over its own first copy is theirs.

The check of a PROGRAM frame stops at the first illegal word; the model names that word
by what makes it the first (`AfterIllegal`), since what a minimum computes by recursion
is out of the provers' reach.

### The debug smoke tests

`SmokeProofs`: `AnswersReal`, `NoFalseAlarms`, for registers of every length and any
number of clients cut off. Both follow from `SmokeHolds`, that `SmokeInv` is invariant.
Beside the types and the processes it has three parts, each of which needs the ones
before it, and the second the third: what is scanned out is an answer.

- `Phase` is the request under way. Of the eight toggle registers of the two clock domains
  and the three valid bits few combinations are reached, and they come one after the
  other: none, three while the request crosses, presented, taken, three while the response
  crosses. `PhaseMoves` shows that whichever of the two clocks rises a request goes on to
  the next and is not lost, doubled or overtaken. This holds whatever is sent, so a client
  cut off cannot disturb it, and it is all that is known of what it left behind.
- `InScript` is where the client is. `ScriptParts` says what the script does at each place,
  with the lengths as parameters; the invariant says for each `set_ir`, `scan_dr` and
  `idle` of it which state the TAP is in after so many rising edges (`IrState`, `DrState`),
  that the register holds what is left of the captured bits and, behind them, those sent
  (`Mixed`), and that the client has the captured bits up to there. `ResetMoves` is why
  the first six cycles bring the TAP home from wherever it was left.
- `InTime` ties the two together. `Needed` bounds, from the phase and the phases of both
  clocks, the commands until the request under way is answered, never more than 62; its
  sum with the commands sent does not grow (`TimeStep`), so that the request is done when
  the 16 idle cycles are over (`Answered`), and the one a cut-off client may have committed
  is done before the first of the script's own. Hence what is scanned then is the answer,
  and it is the answer to this request (`Under`), which the Debug Module has carried out
  once, after the one before.

The theorems needed an assumption the model had not stated, that `Idcode` and `DtmcsId` are
bits (`IDCODE_VALUE` and the constant part of `dtmcs_value` in `debug_jtag_dtm.sv`).

### The state diagrams

`DiagramProofs` unrolls the recursion of `Paths` once and for all (`PathsUnrolled`): one
arrow between two states is a path, and so are two or three with logic between them. The
rest is one arrow for each step of a model, and the conditions of its boxes from the
invariants above.

- `DmaFollows` (`MCBusProofs`), whatever the bus answers and software writes to the
  registers. Its invariant is `StatusOK`, beside `BusInv`: a transfer under way has not
  set DONE and has a word left, FINISH is entered with DONE or ERROR set, so that it is
  one of two states drawn, and a register write takes effect only while the arbiter is
  in WAIT. A running engine is never ready there, so that no START or CLEAR falls on an
  edge on which it takes an arrow (`NothingWritten`).
- `HartFollows` (`MCCoreProofs`), for every program and debugger, misfired triggers
  included, from `CoreInv`. The theorem assumes `IbufDepth # 1`. `frontend_ibuf.sv` can
  be built with one entry, where a push fills the empty buffer; the drawing goes from
  COUNT=0 to COUNT=1 and only then to COUNT=DEPTH, and is of a deeper one. `wasp1` builds
  it with two.
- `CachesFollow` (`CacheProofs`), for every geometry and memory map. `FillMoves` lists the
  moves of a refill sequencer, once for both caches, and `PortMoves` who hands an answer
  over and who does not. That the line entered is the line asked for, the store merged
  the one accepted, and no sequencer waits on a port that is idle, is `ISequencer` and
  `DSequencer` of `CacheInv`.

### What is only model-checked

- Liveness, in every part: `ENABLED` and fairness are out of the prover's reach.
- `DiagramsAreSound`, `CampaignIsSound` and `ImagesAreSound`: induction over data (what
  leads where in thirty graphs, folds over bits and bytes), evaluated on the inputs given
  above.

## What is not modelled, and why it may be left out

- Byte lanes (of the SRAM and of the store merge) and misaligned accesses of the
  SRAM, address wrap-around: no property speaks of them yet; they are local to one
  word.
- A slave that inserts wait states: every slave of the SoC ties `hready` high.
- `flush_i` and `invalidate_i` of the caches: tied low in `wasp1.sv:194-197`.
- A cache that answers in the cycle it accepts: `icache_ctrl.sv` and
  `dcache_ctrl.sv` never do.
- mtvec is a constant; counters, causes, tval and DCSR.cause are not kept.
- `dmactive` stays set, and the program buffer is one word at a time; the
  command decoder and its error codes are reduced to the operation issued.
- Reset: the hardware models start from it, and none resets again; the OTP suite's
  loader and register slave do, at any time.
- OpenOCD's own JTAG traffic, `trst_ni` and `dmihardreset`: the harnesses use neither,
  and what OpenOCD sends is not in the repository.
- The layout of reports, how the diagrams are drawn, and the search for a free port.
- The components with status `not_modelled` in `PROJECT.json`; see the plan.
