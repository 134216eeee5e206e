# NextTang in TLA+

NextTang is a ZX Spectrum for the Console 138K FPGA board: Verilog and VHDL for the
machine, its memory, its video and a loader that reads tapes from an SD card, and
Python tools for the host: one that publishes on YouTube, and a set that prepares a
Spec256 game and plays it over a serial line. This directory holds TLA+ models of the
parts whose correctness depends on the order of events: what crosses between
unrelated clocks, what waits for something slower, what must survive a card, a
memory, a network or a serial line that fails, and what several processes do to one
file. The models are checked with TLC on small instances; theorems about the memory
path and its bridge, the FIFO, the card reader, the cluster stream, the resumable
upload, the stored authorisation and the channel commands are proved with TLAPS for
every value of the constants.

Contents: [the system](#the-system) · [the modules](#the-modules) ·
[how to read them](#how-to-read-the-modules) · [runs](#the-runs) ·
[fairness and pace](#fairness-and-pace) · [findings](#findings) ·
[proofs](#the-proofs) · [limits](#what-the-models-leave-out) · [plan](#plan)

## The system

```
 T80 CPU ── cpu_memory_service ── memory_cdc_bridge ── byte_line_adapter ── gowin_ddr3_ui_adapter ── DDR3
            └──── machine clock ────┘└────────────────── memory clock ──────────────────┘

 SD card ── spi_byte_master ── sd_spi_reader ── fat32_volume
                                    │           fat32_storage ── fat32_directory(_entry) ── loader_catalog ── overlay
                                    └────────── fat32_cluster_stream
                                                    │ bytes of a file          ▲ pause between sectors
                                                    ▼                          │
              classic_tape_loader = tap_to_tzx_stream ── tzx_stream ── async_byte_fifo ── tzx_player ── EAR
                                    └───────── system clock ─────────┘└───── tape clock ─────┘

 game.z80, images ── gamepack ── load_gamepack ──┐                  ┌── spec256_game_loader ── DDR3, CPUs
 host keyboard ── keyboard_bridge ───────────────┼── serial line ───┤
 command line ── send_input ─────────────────────┘   (bytes, both   └── spec256_runtime_input ── keys, joystick
                       ▲                              readers see them)       │
                       └──────────────── status lines ◄───────────────────────┘

 operator ── cli ── operations ── api ── transport ── network ── YouTube (channel, upload session)
              └── oauth ── storage ── token.json         └────── Google (grants)
                   several processes at once
```

### Components

| component | state it keeps | operations | talks to | what is hard, and what makes it correct |
|---|---|---|---|---|
| CPU memory service | FSM IDLE/ISSUE/RESPONSE/FAULT, the latched transaction, wait counter, sticky faults | accept, issue, complete, time out, overrun, loss of calibration | stalls the CPU (`core_wait`), requests from the bridge | a late answer against a timeout; a second request while one is open. The CPU waits for a bounded time, a fault has a cause, an overrun does not disturb the open transaction |
| memory CDC bridge | two toggles, two pairs of synchronisers, held request and response | accept, cross, latch, issue, answer, complete | service on one clock, line adapter on the other | any order of edges of two clocks; reset of the two ends. Payloads are stable while sampled; each request is answered once, with its own answer |
| byte/line adapter | FSM, the byte lane asked for | byte request to line request and back | bridge, DDR3 adapter | lane and mask |
| Gowin DDR3 adapter | FSM, half of the beat, mask, write drain counter | paired command/data handshake, drain, read | vendor controller | accepted is not committed: a read must not pass the write before it; the other line of a beat must survive |
| CPU memory path | the composition of the above | both clocks, reset | CPU and controller | the CPU sees a byte memory |
| dual-clock byte FIFO | Gray pointers, synchronised copies, shown byte | write, pop, clear of each side | tape path, Spec256 path | a queue for every order of edges; level and full never under-report |
| TAP to TZX converter | FSM, bytes left in the block, sticky fault | header, block prefix, data, end | file stream, tape stream | output is the expansion of the input; a truncated file is reported; its end is passed on |
| classic tape path | epoch toggle, clear, overflow, end flag, player restart | start of a load, byte, end, play | file stream, FIFO, player | pause takes effect between sectors only; a new load while the other clock still has the old pointers; the end flag against the last bytes. No byte refused, tape played whole, nothing from before |
| SD card reader | FSM of start-up and of reads, retry and wait counters, card type | power-up, CMD0/8/55/ACMD41/58/16, CMD17, data, CRC, gaps | SPI engine, storage service | silent or erring card at any byte, two addressing modes. Ready only when agreed; the sector asked for, whole; start-up and reads end |
| FAT32 cluster stream | cluster, sector in cluster, bytes remaining, clusters seen, FAT entry | data sector, FAT sector, follow, end, fail, abort | storage service, card | chains across FAT sectors, cycles, free and bad links, limits at boundaries, aborts in the middle. The bytes of the file, never more than asked for, an honest end |
| FAT32 storage service | FSM, one request register | wait for card, mount, scan, load, FAILED | card, volume, stream, directory, catalogue | one operation at a time; requests reach a card that is ready |
| FAT32 volume, directory, entry decoder | sector buffer; entry buffer; end-of-directory level | mount; scan; decode an entry | storage service, catalogue | garbage volumes; abort at the end marker; stale end marker |
| loader catalogue, overlay, font | FSM, two menus, selection | scan two directories, move, load, replay | storage service, tape path, overlay | entries are pulses that are seen in some states only; empty menus |
| TZX player | FSM of blocks and pulses | parse a block, emit pulses, stop | tape stream | lengths of zero, ends inside a block, faults that stop the stream for good |
| Spec256 pack loader and runtime input (machine) | loader FSM, header, checksum; frame FSM, held keys and directions | load a pack, report, hold and release keys | the same serial line | both read every byte of the line: a pack contains input frames, an input may contain an "N". A pack cut short |
| Spec256 game pack and its sender (host) | the pack, the pieces written, the status line awaited | build, parse, send, drain, flush, wait for a status line | serial line | a stale status line, a lost byte, a tool killed in the middle. What is reported accepted is what the machine holds |
| keyboard bridge (host) | counts per key and direction, frames to write | key event, leave, Ctrl-C, release all | host keyboard, serial line | host keys that share a Spectrum key, chords; an interrupt between two writes. A key is down on the machine exactly while it is on the host |
| Spec256 CPU cluster and pack path | eight CPUs in lock-step; small FIFO | load the pack from the card, run | small FIFO, DDR3 | a pause that acts on whole sectors in front of a FIFO of 64 bytes; two ends cleared apart |
| frame buffer scaler | three banks, publish and acknowledge toggles | publish, show, acknowledge | machine and video clock | bank number and toggle cross apart |
| video, audio, input, machine memories | pixel and sample pipelines, decoders, RAM | per clock | CPU | small and sequential |
| clocks, resets, board tops | shift registers, wiring | reset, lock | everything | which resets assert together |
| resumable upload (host) | offset, attempts, session | send a chunk, ask for the status, retry, give up | YouTube over a network | lost and late requests, lost answers, an expiring session, a deadline. What is reported is what happened; no block is skipped; the upload ends |
| stored authorisation (host) | token.json, one cached state per process | log in, probe, store, refresh, require a scope, revoke | Google, other processes | overlapping processes, kills and power loss around a file; capabilities that share a scope. The file is whole and verified; no request beyond what was consented |
| channel commands (host) | what was read, what was planned, a page token | list, show, plan, read again, write | YouTube, an operator with a browser | edits by others between two calls; writes that replace everything; a failure after the first of two writes. Truthful reports, nothing lost |
| comment classification (host) | none | classify, select | channel commands | the API returns only some of the replies |
| FAT32 reader of the host | none | cluster chain, read a file, directories | image files | is the reference the stream on the FPGA has to agree with |
| image, conformance and build tools, output and redaction (host) | files | convert, format | files | sequential |
| imported cores (T80, ULA, HDMI) | | | | third party, not modelled |

## The modules

| module | models | kind |
|---|---|---|
| `MemoryCdcBridge` | `rtl/memory/nexttang_memory_cdc_bridge.v` | component |
| `RequestMailbox` | what the bridge promises: one request, one offer, its own answer | abstract |
| `MemoryCdcBridgeProofs` | | theorems |
| `CpuMemoryService` | `rtl/memory/nexttang_cpu_memory_service.v` | component |
| `ByteLineAdapter` | `rtl/memory/nexttang_byte_line_adapter.v` | component, no run of its own |
| `GowinDdr3UiAdapter` | `rtl/memory/nexttang_gowin_ddr3_ui_adapter.v` | component, no run of its own |
| `CpuMemoryPath` | `rtl/memory/nexttang_cpu_memory_path.v`: the four above, CPU and controller | composition |
| `ByteMemory` | what the path promises to the CPU | abstract |
| `CpuMemoryPathProofs` | | theorems, over those about the bridge |
| `AsyncByteFifo` | `rtl/loader/nexttang_async_byte_fifo.v` and its small sibling | component |
| `ByteQueue` | what the FIFO promises | abstract |
| `TapToTzx` | `rtl/loader/nexttang_tap_to_tzx_stream.v` | component |
| `TapePartsProofs` | | theorems about FIFO and converter |
| `ClassicTapePath` | `nexttang_classic_tape_loader.v`, `nexttang_tzx_stream.v` with `AsyncByteFifo`, `TapToTzx`, file stream and player | composition |
| `ClassicTapePathProofs` | | theorems, for TZX files |
| `SdSpiReader` | `rtl/storage/nexttang_sd_spi_reader.v` and an SD card | component |
| `SectorReader` | what the card reader promises | abstract |
| `SdSpiReaderProofs` | | theorems |
| `Fat32ClusterStream` | `rtl/storage/nexttang_fat32_cluster_stream.v` with the read states of `nexttang_fat32_storage.v`, over `SectorReader`; as its reference, the chain and `read_file` of `tools/storage/fat32.py` | composition |
| `Fat32ClusterStreamProofs` | | theorems |
| `Publication` | what an upload promises: at most one video, one report, a true one | abstract |
| `UploadSession` | `upload_file` of `host/youtube/nexttang_youtube/api.py`, network and server | component |
| `AuthLifecycle` | `oauth.py`, `storage.py` and the auth commands of `cli.py`, as several processes | component |
| `ThreadClassifier` | `comments.py` | pure functions |
| `ChannelCommands` | the other commands of `cli.py`, with `operations.py` and the calls of `api.py` | composition with `ThreadClassifier` |
| `PublishingProofs` | | theorems about channel commands and upload |
| `GamePack` | the header and the checks of `tools/spec256/gamepack.py` | pure functions |
| `KeyboardBridge` | `InputState` of `tools/spec256/keyboard_bridge.py` | pure functions |
| `Spec256Host` | `load_gamepack.py`, `send_input.py`, the loop of the bridge, and `rtl/input/nexttang_spec256_game_loader.v`, `nexttang_spec256_runtime_input.v` | composition with the two above |
| `HostToolsProofs` | | theorems about the authorisation and the Spec256 tools |

`SectorReader` is used twice: `SdSpiReader` is checked to implement it, and
`Fat32ClusterStream` is built on it instead of on the card protocol. The `MC_*.cfg`
files give the constants their values.

## How to read the modules

* The registers of one clock domain (of one Verilog module in one domain) are the
  fields of one record variable, with the names of the source.
* A rising edge is one action. It reads the unprimed values of all registers, as
  nonblocking assignments do, and changes the record of its own domain. An
  operator `XxxEdge(...)` is the `always` block; its parameters are the input wires.
  Conditions of `case` arms and early branches are separate disjuncts, and an
  assignment before the `case` that an arm may override is applied first.
* Two clocks are two actions that interleave in any way. A signal sampled while it
  changes is sampled as the old or as the new value, which is the order of the two
  edges. This is exact for single bits and for Gray-coded pointers that move one
  step. Payloads that cross without synchronisers are covered by a *property*
  (`PayloadsStable`): they do not change while they may be sampled.
* A pulse (a register that is set for one clock) is reset by the `...Quiet` or
  `...Shifted` operator that every branch starts from.
* In the Python models an action is what happens between two points at which others
  can act: a call over the network, a system call on a file, a write to the line. An
  exception is the outcome of an action, and a `finally` clause an action of its own.
  A kill or a power loss is possible between any two actions.
* Every call over the network may be refused, lost before it took effect, or carried
  out with its answer lost; in `UploadSession` also carried out late.
* Widths are scaled by constants whose comments give the real number. Pointers keep
  their wrap (`% (2 * Depth)`), and an SD argument keeps its width (`AddressRange`).
* Definitions that start with a comment `Mutant:` are plausible bugs; no
  specification uses them. Each shows that a property can fail, when it is put in
  the place of the definition that follows it.

## The runs

State counts are distinct states. Deadlock is checked except where commands or tools
simply come to their end (`upload`, `auth`, `auth_revoke`, `channel`, `host`).

### Memory path

`bridge` — `MemoryCdcBridge`, two payloads in each direction, both clocks at any
rate, memory ready and answering at any edge, coordinated resets at any time (128
states). Two payloads are enough to tell the right one from a wrong one since payloads
are only copied. `PayloadsStable` is the assumption on which bundled data rests,
`IsMailbox` the refinement of `RequestMailbox`; `AlwaysAnswered` says that an accepted
request is answered (or reset).

`path` — the whole `CpuMemoryPath`: two lines in one beat, two byte lanes, two
bytes, a controller that accepts early, commits late and answers late, and a
timeout short enough to fire before, during and after any crossing (645 300
states). `IsByteMemory`: the CPU sees a byte memory. A write that completes is in the
store, a read that completes returns what is there, and no other byte changes. Only a
reset aborts: after a fault the CPU waits until it is reset, and the write that it
had open may or may not have been performed. The mutant answers a write that the
controller never took. `LayersAgree`: no layer works on
anything that the layer above did not ask for, and a CPU that keeps its request until
it is answered causes no overrun. Two lines of one beat are the neighbours a wrong
mask would destroy; addresses do not otherwise interact.

### Tape path

`fifo` — `AsyncByteFifo` at depth 4, which has every wrap and the empty, full and
in-between levels; two byte values (54 320 states). `LevelIsSafe` is what
back-pressure rests on. `IsQueue` refines `ByteQueue`: what the producer offers while
`write_full` is low comes out once and in order, a byte that is shown stays until it is
popped, a pop takes the byte shown, and only a reset of both sides takes bytes back.
The registers alone do not tell a byte that was popped from one that was dropped, nor two
equal bytes apart, so the model keeps a history: the last byte put in and the last one
taken, each with a bit that alternates. It does not say that a byte is refused only when
the FIFO is full: `write_full` uses a sample of the read pointer and may be high for some
edges longer than that. `WrittenIsShown` says that no pointer is lost in crossing.

`tap` — `TapToTzx` with every file of up to seven bytes over {0, 1, 2}, given at
any pace and cut at any place: lengths 0, 1 and 2, two and more blocks, and every
truncation (18 291 states). `OutputIsExpansion` compares with a reference expansion
of the file, `FaultMeansMalformed` with a reference definition of a whole file.

`tape` — `ClassicTapePath`, two loads of either format, the second picked at any
moment after the first has been read, while the player is still playing, or never
began to, at any speed (440 500 states). A file is one and a half sectors, so that both
a full and a cut sector occur, and longer than the pause level, so that the pause takes
effect. As a TAP file it is one long block, which fits, or begins with short ones, which
expand past the end of the FIFO; and a header of four bytes is long enough for the read
pointer of the load before to refuse some of it. So this run has loads that overflow in
both ways (findings 3 and 4), and loads after them. `TzxNeverRefused`: the FIFO has room
for every byte of a TZX file, also after such a load. `PlayedWhole`: a finished tape was
played whole, and nothing of the load before, unless `fifo_overflow` reports that a byte
was refused. `PlayedInTheEnd`: with a player that keeps taking, it is finished.

That no byte of a TAP file is refused either (`NothingRefused`) does not hold, see the
further configurations below.

### Storage

`sd` — `SdSpiReader` with every kind of card (version 1 or 2, standard or high
capacity), which is silent or errs at any byte, for any time. Sectors of four
bytes, of which the last lies beyond the argument of a standard card. `GapBeforeCommand`:
the card is deselected and clocked between commands. `CardAgrees`: ready only
after the card was told what it must know, and the sector served is the one asked
for — for a standard card modulo the width of an argument. `IsSectorReader` refines
`SectorReader`. `BusyEnds`: start-up and reads end, in readiness or in an error.

`stream` — `Fat32ClusterStream` over every FAT of two clusters whose entries lie in
different FAT sectors. An entry is free, one link or the other (one with a
reserved bit set), bad, or an end (178 780 states). Limits are 0 (none),
1 (inside the first sector), 8 (the end of a cluster of two sectors) and 9 (one
more). `MaxClusters = 3` is more than the two clusters of the volume, so that cycles
run into it. `AgreesWithReference`: the bytes are those that the host's own FAT32
reader takes from the same volume, and a file which that reader can read, with a
card that does not fail, is read whole. `LimitKept`, `EndIsHonest`, `OperationEnds`.

### Publishing tool

`upload` — `UploadSession` with three blocks in chunks of two, so that there is a
full and a cut chunk and an offset inside a chunk; three attempts and three faults,
so that attempts can run out in one place and be set back in between (158 000
states). A fault is a lost request, a lost answer or a transient error; a lost
request may still arrive, at any later time. The session may expire, the token refuse
to refresh, the file shrink, the deadline pass at any moment. `ToldMeansReported`: the
tool reports a video exactly when an answer that reached it told of one, and gives up,
for the deadline or for its attempts, only when the status query behind its last chunk told
of none. `SkipsOnlyFromNothing`:
the only way to leave a block out is a 308 without a range. `IsPublication` refines
`Publication`. `UploadEnds`, and `SucceedsInTheEnd` with fewer faults than attempts.

`auth` — `AuthLifecycle` with two processes, three commands, two consents, two
capabilities that share a scope and one rotation of the refresh token (1.9 million
states, processes interchangeable). Each process reads the file once and keeps what it
read; it can be killed, and the machine can lose power, at every step of reading,
asking Google and replacing the file. Three commands are the least in which two
overlap and a third finds what they left. `StoredIsWhole`: token.json is never torn.
`StoredIsVerified`: it was consented for the pinned channel and names what was asked
for, no more. `InterlockHolds`: a request under a capability uses a grant whose login
asked for that capability, although another with the same scope would satisfy Google.
`UndisturbedIsCurrent`: commands that do not overlap and are not interrupted leave
the token Google accepts now.

`auth_revoke` (violation) — `RemovedWhateverTheOutcome`: finding 1.

`channel` — `ChannelCommands`: every command with and without `--apply` and its
capability, images that fit or do not, listings of up to five items in pages of two
with a limit of up to four, every comment thread of up to three replies of which any
part was returned, two edits by others between any two steps, and every call failing
before or after it took effect (326 000 states). Two edits are one on either side of
the second reading. `GuardedWrites`: a write goes out only with `--apply`, the
capability, the pinned account and a target of the channel, unless somebody changed it
after the last look. `NothingLost`: a write that replaces everything changes
only its own field, and keeps what others edited up to the second reading.
`ShownIsReplaced`: what a description or banner replaces is what the plan showed.
`TruthfulReport`: "planned", "refused" and "failed: nothing was changed" are true, also
after the first of two writes. `ListedEnough`: a short page does not end a listing.
`NoCommentForgotten`: no thread that waits for an answer is hidden.

### Spec256

`host` — `Spec256Host`: two packs, with and without backgrounds, with few or too many
launch keys, intact or damaged, written in pieces to a line that loses one byte
anywhere; the sender killed anywhere; then a bridge with four key events over keys
that share a Spectrum key (Shift and the chord of backspace, two fire buttons, and one
key that stands for nothing), and one input from
elsewhere (5.28 million states). Two sends are what a stale status line and a broken
transfer need; four events are two keys down and up in every order. Payloads are one
or two bytes, since the readers tell an "N" from other bytes and nothing else.
`AcceptedIsThisPack`: a pack that was reported accepted is in the machine, to the last
byte. `RefusedForAReason`: damage, a lost byte, or the rest of a broken transfer.
`HeldOnTheMachine`: a key or direction is down exactly as long as one host key that
stands for it. `NeutralAfterwards`: the bridge leaves nothing latched but a key whose
release Ctrl-C caught before its frames were written.

### Further configurations

Kept beside the runs, for `tlc -config` by hand:

* `MC_CpuMemoryService.cfg` — the service alone between any CPU and any memory, with
  calibration that comes and goes and `MaxWaitCycles = 3`, which leaves an answer
  before, at and after the edge that times out (1 120 states). `WaitBounded`: the CPU is
  never held longer than the limit. `FaultExplained`: a sticky fault has the cause it
  names. `OriginalSurvives`: an overrun changes nothing of the open transaction.
  `NeverOpenForEver`. All hold; inside `path` the service is checked with its neighbours.
* `MC_CpuMemoryPathBoard.cfg`, `MC_Fat32ClusterStreamShort.cfg`,
  `MC_ClassicTapePathLate.cfg` — each violates its one property: findings 2, 5 and 6.
* `MC_ClassicTapePathOverflow.cfg`, `MC_ClassicTapePathReload.cfg` — both violate
  `NothingRefused`: findings 3 and 4. The first loads a TAP file with a block length in
  each sector, once; the second one that fits, twice.
* `MC_Spec256HostInterrupt.cfg` — violates `NothingLeftLatched`, which is
  `NeutralAfterwards` without its exception: finding 7.

`TypeOK` of each module documents the ranges of its variables and is in no run; for
the bridge, the memory path, the FIFO (`FifoTypeOK`), the card reader, the upload
(`UploadTypeOK`), the authorisation and the channel commands it is proved. `BridgeInv`, `RingInv` and `NoRequestIgnored` are
proved and therefore not run. `EndIsPassedOn` of `TapToTzx` is
contained in `PlayedInTheEnd`.

## Fairness and pace

Liveness rests on these assumptions, and only on these:

* clocks run (weak fairness of an edge);
* the DDR3 controller is not for ever unready or silent (`bridge`). `service` does
  without it: its timeout is what replaces it;
* a consumer keeps popping (`fifo`), the player keeps taking bytes and the machine
  is released and LOAD typed (`tape`, strong fairness, because the player's edge is
  interrupted by edges at which it does not want a byte);
* a card that has started a sector delivers it or fails (`stream`). `sd` shows why:
  the reader bounds every wait in bytes, so only the clock of the SPI engine is
  assumed there;
* a paused file is not paused for ever (`stream`); `tape` is where the pause is
  shown to end;
* an upload (`upload`) keeps taking steps, each of its calls is answered or fails
  (the transport has a timeout for every call), and time passes: weak fairness of
  the client, of `Serve \/ Lose`, and of the deadline. Nothing is assumed about which
  of answer and loss it is: `SucceedsInTheEnd` demands a video only where the lost
  calls and transient errors are fewer than `MAX_UPLOAD_ATTEMPTS`.

`auth`, `channel` and `host` have no liveness property: their commands are finite
sequences of steps that wait for nothing but the call in hand, and what waits for an
operator (a login) may wait for ever.

`ClassicTapePath` assumes a pace where the code relies on one. The tape clock is
slower than the system clock (at most one tape edge between two write edges). A card
needs tens of microseconds from a request to the first byte, so a new epoch has
crossed by then (`EpochCrossed`); a byte takes longer than the few edges a
converter needs for a block prefix (`WriteSideIdle`); and the checksum of a sector
takes longer than its last byte takes to cross (`BytesCrossed`). Nobody opens the
menu and picks a file in the two clocks the end of a load takes to pass. Without
these assumptions the properties fail; the code has no handshake in their place.

`Spec256Host` assumes an order too: tools run one after the other, a tool starts when
the line is empty, and the bridge is held to its properties when it found a machine with
its pack and no key down; otherwise (`ghost.clean` is false) its inputs are only stray
bytes for the loader.

## Findings

Where the code does something else than a comment or a document says:

1. **A revocation that fails keeps the token** (`auth_revoke`). `oauth.py:322` says
   "Revoke at Google, then remove the local token whatever the outcome", and
   `docs/youtube-cli.md:121` "The local file is removed even if the revocation call
   fails". A failure of the network raises in `post_revocation` (line 327), before
   the file is removed (line 328).
2. **Reset of one end of the bridge** (`MC_CpuMemoryPathBoard.cfg`).
   `nexttang_memory_cdc_bridge.v:8` demands that both resets assert together. The
   board resets the machine side with `cpu_reset` and the memory side with
   `!controller_reset_n` (`nexttang_console138k_spectrum48.v:315` and 686-705), which
   follow different PLLs. After a reset of the machine side alone a read can be
   answered with the answer to an abandoned transaction.
3. **TAP expansion overflows the FIFO** (`MC_ClassicTapePathOverflow.cfg`).
   `nexttang_tzx_stream.v:6-7` says that the FIFO can absorb one complete sector after
   back-pressure. A sector of a TAP file grows by three bytes per block length in it.
   One requested at level 511 of 1023 with a block length in it does not fit; the
   tail is dropped and `fifo_overflow` is raised.
4. **Stale read pointer after a new load** (`MC_ClassicTapePathReload.cfg`).
   `nexttang_async_byte_fifo.v:40` zeroes the write pointer at once, while the read
   pointer it is compared with is that of the last load until the new epoch has
   crossed. The converter emits ten header bytes in that time. If the old read pointer
   is 1027 to 1034 modulo 2048, one of them is refused.
5. **A short chain is a complete load** (`MC_Fat32ClusterStreamShort.cfg`).
   `nexttang_fat32_cluster_stream.v:7` says that a stream with a limit stops after
   exactly that many bytes. When the chain ends earlier, it ends without error
   (line 115).
6. **A load read before the machine runs** (`MC_ClassicTapePathLate.cfg`). `tape_reset`
   holds the epoch of the tape clock at zero, while the write side counts the epochs of
   all loads. If one short load is read whole before the machine leaves its reset, and the
   next one is picked within a clock of that moment, the epoch looks the same as before
   both: the reader samples a write pointer of the first load, is not cleared, and plays
   through what lies in the FIFO. The reset ends two machine clocks after the first pick
   unless the memory is not yet calibrated (`nexttang_console138k_spectrum48.v:315-316`),
   and a file that raises the pause level cannot be read whole, so that this needs a late
   memory and a file of at most 512 bytes. It was met in the proof of `PlayedWhole`,
   whose hypothesis `ReleasedFirst` excludes it.
7. **A key stays down after Ctrl-C** (`MC_Spec256HostInterrupt.cfg`). `keyboard_bridge.py:239` says
   "Never leave a key or a direction latched on the machine". `handle` (line 230) counts
   a release before its frames are written (line 232). If Ctrl-C comes between the two,
   `release_all` finds nothing to release, and the machine keeps the key down.

What else the models had to allow, because the code does it:

* `main` prints "interrupted; no change was applied" (`cli.py:1093`) also when a write
  was under way. `TruthfulReport` leaves interrupted commands out.
* `videos update-metadata` makes its plan again from the second reading without a
  comparison, so a title edited by others in between is overwritten. `ShownIsReplaced`
  is therefore about descriptions and banners only.
* The upload of a banner lies between the second reading of the branding and the
  write, although `operations.py:190` says "immediately before the write".
* `auth login` reports that a wrong account "was revoked" without looking at the
  answer (`cli.py:754-755`), and a request to the redirect port without a state ends it.
* A refresh in an overlapping process can write its old token over a newer one, or
  bring back a removed file. `UndisturbedIsCurrent` says when this cannot happen. The
  removal itself is not flushed to the directory, so a power loss can undo it.
* A 308 to a chunk that names no range counts as progress to the end of the chunk
  (`SkipsOnlyFromNothing`), and sets the count of attempts back.
* A transfer cut inside a pack leaves the loader in its payload state: the next pack is
  taken as the rest of the last one and is refused. The bytes that follow are searched
  for an "N", so that the next pack begins inside this one if its payload contains one.
  Real payloads, half a megabyte of memory, do; `Payloads` therefore demands it.
  `AcceptedIsThisPack` leaves out a transfer that both follows a cut one and loses a byte.
* Keys bridged before a machine has its pack are read as header bytes.
* Header fields are not covered by the checksum of a pack.
* The machine repeats its status every 3.57 s, and the sender waits 4 s for it.
* `SYN_DROPPED` events of the host keyboard are ignored.

## The proofs

The assumptions are the named `ASSUME`s of each module: that reset values are among
the payloads, lanes and bytes, that limits, sizes and depths are natural numbers and
positive where the code needs them to be, that every capability has a scope, that a
write drains for at least as long as the controller takes to commit it. `NothingIsOpen`
only says that the mark for "no operation" is not an operation. Nothing else is assumed
about payloads, depth, volume, file, number of processes or number of edits. Two
places have hypotheses: the walk along a FAT chain and the tape path, below.

| runs' property | theorem | also by TLC in |
|---|---|---|
| `PayloadsStable`, `IsMailbox` | `PayloadsAreStable`, `ImplementsMailbox` | `bridge` |
| `LayersAgree`, `IsByteMemory` | `LayersAlwaysAgree`, `IsMemory` | `path` |
| `LevelIsSafe`, `IsQueue` | `LevelNeverUnderReports`, `FifoIsQueue` | `fifo` |
| `OutputIsExpansion`, `FaultMeansMalformed` | `EmitsExpansion`, `FaultIsVerdict` | `tap` |
| `TzxNeverRefused`, `PlayedWhole`, of TZX files | `NoTzxByteRefused`, `TzxPlayedWhole` | `tape` |
| `GapBeforeCommand`, `CardAgrees`, `IsSectorReader` | `GapBeforeEveryCommand`, `ReaderAndCardAgree`, `KeepsItsPromise` | `sd` |
| `LimitKept`, `EndIsHonest`, `AgreesWithReference` | `LimitIsKept`, `EndsHonestly`, `LoadsTheFile` | `stream` |
| `ToldMeansReported`, `SkipsOnlyFromNothing`, `IsPublication` | `ToldIsReported`, `NoOtherSkip`, `ImplementsPublication` | `upload` |
| `StoredIsWhole`, `StoredIsVerified`, `InterlockHolds`, `UndisturbedIsCurrent` | `FileIsWhole`, `FileIsVerified`, `NothingBeyondConsent`, `CurrentWhenUndisturbed` | `auth` |
| `HeldOnTheMachine`, `NeutralAfterwards`, `RefusedForAReason` | `BridgeHolds`, `NothingLatched`, `RefusalsJustified` | `host` |
| `GuardedWrites`, `NothingLost`, `ShownIsReplaced`, `TruthfulReport`, `ListedEnough`, `NoCommentForgotten` | `WritesAreGuarded`, `NothingElseReplaced`, `PlanIsReplaced`, `ReportsAreTrue`, `ListsEnough`, `CommentsFound` | `channel` |

In each module an inductive invariant is proved first (`Init` implies it, every action
keeps it: one step or lemma per action, and per conjunct where an action disturbs
several), and the theorems follow from it. TLC confirms each of these invariants on the
instance of the run: of `Fat32ClusterStreamProofs` it can do so for `Shape /\ StreamInv`,
and for `ChainInv` in the same terms at the narrow entries of that instance, since the
proof of `ChainInv` is about entries of four bytes; of the converter's `TapInv`, which
speaks of every continuation of the file, for continuations of up to four bytes.

**`MemoryCdcBridgeProofs`.** `TypeCorrect` is inductive by itself. `BridgeInvariant`:
`TypeOK /\ BridgeInv` is inductive. The payload properties are not, since whether a
payload may change is a question about toggles in the other domain. `BridgeInv`
reads a *phase* (empty, sent, offered, answered) off the registers and says for each
which toggles and samples agree; `Crossing` says that the second flop never runs
ahead of the first. `PayloadsAreStable` follows from it step by step. In
`ImplementsMailbox` the mapping is `Phase` and the two held payloads; an
edge that only shifts a toggle is a stutter, an edge that changes the phase is one
action of the mailbox (`SourceMailboxStep`, `DestinationMailboxStep`).

**`CpuMemoryPathProofs`.** The lemmas about the bridge are instantiated, not repeated
(`Proved`): the bridge of the path is that bridge (`SameTypes`, `SameSource`, ...), so its
phase and its invariant are at hand here. `PathInv` has one part per boundary: `CpuInv`
between CPU and service, `CrossInv` between service and bridge, `LineInv` between
bridge and line adapter, `UiInv` between the adapters and the controller with its queue
of one write. Each says which states of the two sides go together and that both are
about the same transaction. None is inductive alone: whether the service may take an
answer depends on what the far end has done. `DataInv` follows the data: a byte on its
way back, in whichever register it is, is the byte the cells hold. It rests on
`UiInv`, since a write that the controller has accepted and not committed must still be
drained, and on `CommitStores`: a committed write changes the byte of its lane and
line and no other. `IsMemory` maps the cells to the store and
the CPU's open access to the operation; only an edge at which the CPU begins or ends an
access, a commit, and a reset are steps of `ByteMemory`. `Abort` is proved to occur at a
reset only, so that a write ends nowhere but in `EndWrite`, with its byte in the store.

**`TapePartsProofs`, the converter.** `OutputIsExpansion` and `FaultMeansMalformed`
compare the output with two recursive functions on files, `Expansion` and `WellFormed`.
That these are functions on all files and obey their equations (`ExpansionIs`,
`WellFormedIs`) is proved first: a definition by one recursive call on something
smaller has a solution (`Recursion`), as the least bound below which it has none would
be one above a bound below which it has one (`LeastNumber`, `Longer`). The two
properties say nothing of a converter in the middle of a block. `TapInv` does, without
a look back at the blocks that are done: `Converts` says that what was sent, what is
being emitted and what is *owed* for the bytes to come are together header and expansion
of the whole file, for every sequence of bytes to come; `Judges` says the same of the
verdict. What is owed depends on state and counters only (`Owed`, `Good`), so an edge
either takes a byte and moves it from what is to come into the state (`ByteTaken`) or
moves a byte from what is owed to what was sent (`EdgeAlone`). The proofs need no bound
on file or header; of the length counter they use its 16 bits.

**`TapePartsProofs`, the FIFO.** `TypeCorrect`, then `RingInvariant`: distances are measured
from the oldest sample of the read pointer, and the order
`read_2 <= read_1 <= read pointer <= write_2 <= write_1 <= write pointer <= read_2 + Depth - 1`
is kept by each edge. The lemmas `AheadSucc` and `AheadFrom` are the modular
arithmetic. `LevelNeverUnderReports` is a consequence: the level uses `read_2`,
which is behind the read pointer. For `FifoIsQueue` the queue is the slots from the
read pointer to the write pointer; a write extends it by one, since the slot it goes to
is not among them (`WriterPuts`), and an edge of the read clock moves its head into the
place of the byte that was popped, or leaves the shown byte alone (`ReaderTakes`).

**`ClassicTapePathProofs`.** `TzxFits`: the files are TZX files and a sector fits above the
pause level, 512 + 512 in 1024. `ReleasedFirst`: no byte comes while the tape clock is held
in reset (finding 6 says what happens otherwise). `PathInvariant` holds for any depth, level,
sector and file and any number of loads. `TzxNeverRefused` and `PlayedWhole` are about
one load, but what they rest on is the hand-over from one load to the next: `FreshInv` and
`CrossInv` say that the write side has been cleared before the tape clock sees the new
epoch, that one epoch is under way at most, and that the first byte finds both ends
cleared and the level zero. From there on `BegunInv` has the pointers in the order around
the ring that the FIFO's own invariant gives them (its lemmas are restated here as
`RingWritten` and `RingRead`, since the FIFO is an instance), and `RoomInv` counts what the
sector under way still owes against what the FIFO has left *as the write clock sees it*.
`PlayerInv` is the balance: emitted bytes are taken, shown or unread. `EndInv` says that the
end flag, in whichever flop it is, follows the last byte; without it a player could find
the stream ended with bytes still crossing. An edge is first reduced to what it does
to each side (`WriteMoves`, `DiskMoves`, `TapeRegistersMove`, `PlayerMoves`,
`ReaderMoves`), then each clock keeps the invariant (`WriteKeeps`, `TapeKeeps`). TLC
confirms the invariant, under the same hypotheses, on seven pairs of depth and file.

**`SdSpiReaderProofs`.** `SdInv` adds to the types `Wires` (which chip select and which
operation go with which state, and that a command begins on a released card),
`Settled` (what the start-up has settled with the card when it has come to an
operation: out of the idle state, the addressing mode, the length of a block) and
`Addressed` (the argument that went out is the sector asked for, in the card's own
count). `CardAgrees` alone is not inductive, as it speaks of a ready reader only.
`KeepsItsPromise` maps state and counters of the reader to `SectorReader`.

**`Fat32ClusterStreamProofs`.** `LimitIsKept` and `RequestsAreTaken`. The
inductive invariant is `Shape /\ StreamInv`. `HandOff` says who is at work on an
operation (the service has offered it, the stream is busy, or its end has not been
seen yet), and that the stream's registers are quiet otherwise: without it a new
operation could meet an old limit. `Handshake` says that of stream, service and card
at most one holds the request for a sector; without it a request could reach a card
that is reading. The step is proved per component (`StreamStep`, `StorageStep`,
`CardStep`) and then put together per conjunct (`HandOffStep`, `HandshakeStep`,
`LimitStep`).

`EndsHonestly` and `LoadsTheFile` are about the bytes of a file, and have two
hypotheses. `RealWidths`: a sector has 512 bytes, a FAT entry four bytes of 256 values;
elsewhere the widths are parameters. `FatFits`: entries have 32 bits, and the entry of
every first cluster and of every link lies in a sector of the FAT, not behind it. Neither
stream nor reader checks that, and where it fails they read clusters as FAT. On top
of `StreamInv`, `ChainInv` says where the stream is: `Walk` (its cluster is the one
the chain has at its count), `Errand` (stream, service and card mean the same sector),
`Places` (the bytes shown are those before its place in the chain), `Digits` (which bytes
of the FAT entry are captured), `Outcome` (why an operation ends well, and that one
which fails had a reader of the host that fails too, or a broken card). The arithmetic:
quotient and remainder are unique (`Quotient`), a byte of a FAT sector is a digit of
its entry (`EntryOnCard`), four digits make up an entry (`Digits256`), and the sum over
the captured bytes, which the module defines by choosing one after the other, is that
number (`FourBytes`). `ChainSteps` shows that the recursive function `Chain` satisfies
its equation, for every `MaxClusters`: the set of bounds for which no such function
exists has no least element (`LeastNumber`).

**`HostToolsProofs`, the authorisation.** `Place` says which command is at which point, and what the
process has in memory and in its temporary file there: that a file which is about to
replace token.json has been flushed is what `FileIsWhole` rests on, also across a power
loss, which may keep the old document or the new one. `Tokens` says that every token,
in a file or in memory, comes from a consent and names what it was given for, and from
which point on it is verified. `StoredIsVerified` alone is not inductive, as the token
arrives in the file from memory. `Current` is an invariant of undisturbed behaviours
only: at most one command runs, and the file is the token of the last login unless that
command has a newer one in hand.

**`HostToolsProofs`, the keyboard bridge.** `CountInv`: each count is the number of pressed
host keys that stand for that name or direction, so a name is in `key_order` exactly when
one of them is down. `AppliedFrames` and `ReleaseFrames` say what the frames of one
transition, and those of the final release, are together: they name the keys that
changed, all pressed or all released, and end on the new joystick. `HeldOnTheMachine` says
nothing of a machine with bytes under way, and the parser may be inside a frame, so the
invariant `HeldInv` looks ahead: the bytes on the line *lead* the live inputs to a state
`mid` that is between two frames (`Leads`), and the frames not yet written lead from `mid` to
what the bridge holds; after the bridge, to nothing but `ghost.unwritten`. A byte that is read
(`LeadsHead`), a frame that is written (`FrameWritten`, `FirstFrame`) and an event each move
one step of that. No byte of a frame is an "N" (`Quiet`), so the pack loader does not stir.
The order of events, their number and `Room` do not matter. Sequences are handled by
`AmongIs`: the recursive `among` returns a sequence of just the elements that are kept.

**`HostToolsProofs`, the packs.** What `parse_gamepack` accepts is what the machine's loader
accepts, byte by byte (`LoaderTakes`). `TransferInv`: as long as a transfer that met a loader
between two packs has lost nothing, the loader has taken the first `k` bytes of the file,
the line holds the next and the tool the rest (`At`, `Took`). When all are gone the loader is
`DONE`, so every later status line says so (`WaitingDone`) and the sender cannot time out.
The flush after draining is needed here too: a line that came earlier may tell of the
fault of a loader that had not seen the first byte. `AcceptedInv` follows the pack from
there: what is sent after an answer are frames, and none contains an "N" (`FramesQuiet`).
`AcceptedIsInMachine` is `AcceptedIsThisPack` for transfers that lost nothing and met a
loader between two packs.

**`PublishingProofs`, the commands.** A command is a sequence of steps, so the invariant speaks
of what was *passed*: `Passed(x)`, and `Again(x)` for the steps that are repeated after
the permission to write. `PermitInv`, `OwnerInv`, `BrandingInv` and `ImageInv` say what a
passed step has established and nobody has undone since. That each write stands behind
the steps it needs is a fact about the thirteen sequences (`Ordered`,
`CommandsOrdered`), proved once. A guard that is removed from a sequence therefore
breaks `CommandsOrdered`, one that is weakened breaks the lemma of its step. `ListInv`
counts the full pages of a listing. `CommentsFound` is a case analysis of
`classify_thread` over threads with any number of replies.

**`PublishingProofs`, the upload.** The inductive invariant `UploadInv` adds to types and
properties what they rest on: `ServerTruthful` (the video is the whole file, an answer
that announces it is true, a range names only what is held) and `ReportedWhenDone`.
`SkipsOnlyFromNothing` alone is not inductive: the offset is set from an answer that
was made earlier, so the invariant must say that what the server holds is at least
what an answer on its way says. `KeptGrows` is the fact about the server: no request,
also no late one, takes anything from it. `ArrivalKeepsServer` and
`HandlingKeepsServer` apply it to a late request and to one that is answered.
`ToldOrReading` follows an answer that tells of the video from the moment it arrives, when
`told` is set, to the step that reads it: no other step may come between, and what is given
up has a status query as its last call. `ToldIsReported`, `NoOtherSkip` and `ImplementsPublication` follow; in the
refinement all steps of the client but the last, and all of the network, stutter.

Only model-checked:

* everything under fairness (`AlwaysAnswered`, `WrittenIsShown`, `PlayedInTheEnd`,
  `BusyEnds`, `OperationEnds`, `UploadEnds`, `SucceedsInTheEnd`);
* `PlayedWhole` of TAP files, whose exception, an overflow that is reported, no theorem
  needs to mention for TZX files;
* `AcceptedIsThisPack` of a transfer that lost a byte or followed a broken one: there it
  rests on the checksum, which the model replaces by a number that is different for
  different payloads of bytes, and on the bound of one lost byte: where the "N" of the
  header and every "N" of the payload are lost, the pack of before is reported accepted;
* the service alone in `MC_CpuMemoryService.cfg`; in the path it is proved about.

## What the models leave out

* **Metastability** beyond the old-or-new choice, and the skew of several bits that
  change at once: the reset of a Gray pointer by `write_clear` or `read_clear`, seen
  by the other clock bit by bit.
* **Resets of the SD reader and the cluster stream**: they put every register back
  to its initial value and are not an action; the behaviours after one are those
  from `Init`. Resets of the bridge, the service, the path and the FIFO are actions.
* **A machine reset during a load.** `ClassicTapePath` releases the machine once.
* **The directory scanner** is a client of the stream that may abort at any edge.
* **Links beyond the volume** read as a free entry. In the code they read whatever
  lies behind the FAT, and `MAX_CLUSTERS` bounds the load in either case.
* **FAILED** of the storage service is final, as in the code: any error, also that
  of an empty file, needs a reset.
* **CRCs** of the card are not looked at by the code and so not by the model.
* **Time** is counted in edges and bytes only. Whether the `RESPONSE_LIMIT` of 1024
  bytes is long enough for a given card is not a question for these models.

* **The text of titles, descriptions and comments** is reduced to whose text it is.
* **Access tokens**: before any call the token in hand may be fresh or expired.
* **Killed Python processes** lose their memory and nothing else; a power loss may
  also lose what was not flushed.
* **The content of a pack** is bytes of which one kind is "N"; memory planes, palette
  and backgrounds are not told apart. Choosing the keyboard device is left out.

Not modelled at all: imported cores; pixel, sample and keyboard pipelines, RAM and
ROM; the bring-up programs; of the host, the image, snapshot, rendering, conformance
and hardware tools and the scripts (conversions of one file into another), directories
of the FAT32 reader, and output, redaction and configuration of the publishing tool.
The reasons stand in `PROJECT.json`, part by part.

Hazards seen in parts that have no model yet, all of the machine:

* `nexttang_tzx_player.v:130`: a player that stops on a fault takes no more bytes, the
  FIFO stays above the pause level, and the file, with it the storage service, stays
  busy until a reset. Line 365: a data block of length zero wraps the count of bytes
  left to 2^24 - 1.
* `nexttang_console138k_spectrum48.v:1836`: `tape_reset` is `cpu_reset`: a machine reset
  inside a load zeroes the read side of the FIFO alone. Line 1802: the pack read from
  a card goes through a FIFO of 64 bytes with a pause level of 48, while the pause acts
  between sectors of 512. Line 1808: `read_clear` there is a pulse of 20 ns that a clock
  of 3.5 MHz has to sample.
* `nexttang_framebuffer_scaler.v:197`: the number of a bank and the toggle that
  announces it cross by separate synchronisers, in both directions.
* `nexttang_loader_catalog.v:189`: entries and the end of a scan are pulses that are
  seen in the scan states only. Line 252: the Spec256 menu starts at selection 1 even
  when it is empty, so that activating it loads cluster 0.
* `nexttang_fat32_volume.v:78`: a volume without a partition table is taken without
  the checks of lines 94-96.

## Plan

Next modules, in this order:

1. `FrameBanks`: the hand-over of three banks in the scaler with bank and toggle
   crossing apart; the producer never writes the bank that is shown.
2. `Fat32Storage`, `Fat32Volume`, `Fat32Directory`, `LoaderCatalog`, composed on
   `Fat32ClusterStream`: all entries before the end marker, none after, every load
   ends in the menu or in the machine.
3. `TzxPlayer` against a reference pulse sequence; then in place of the abstract
   player of `ClassicTapePath`, which then contains a player that stops on a fault.
4. The Spec256 pack path with its own FIFO, and a composition of both paths with
   every reset of the board.

Theorems next: `AcceptedIsThisPack` of a transfer that lost a byte, over an ideal checksum;
`PlayedWhole` of TAP files; `WaitBounded`, `FaultExplained` and `OriginalSurvives` of the service.
