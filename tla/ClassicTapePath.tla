-------------------------- MODULE ClassicTapePath --------------------------
(***************************************************************************)
(* rtl/loader/nexttang_classic_tape_loader.v and nexttang_tzx_stream.v:    *)
(* the bytes of a tape file, from the sectors of the card, through the TAP *)
(* converter and the dual-clock FIFO, to the player on the tape clock.     *)
(* The file stream (fat32_cluster_stream) is paused between sectors only;  *)
(* a new load starts a new epoch, which the tape clock domain sees two     *)
(* flops later, clears its end of the FIFO and restarts the player.        *)
(*                                                                         *)
(* Bytes carry no data here: order and content are AsyncByteFifo's and     *)
(* TapToTzx's business, and what is counted here is that none is lost,     *)
(* none is left over from another load and the end is the end.             *)
(***************************************************************************)
EXTENDS Integers

CONSTANTS
  Formats,         \* the formats a load may have: "TAP", "TZX"
  Depth,           \* 1024
  PauseLevel,      \* 512
  SectorBytes,     \* 512
  HeaderLength,    \* 10, what the converter emits before a file
  BlockLengths,    \* the lengths of the TAP blocks in question
  FileBytes,       \* the length of the file in question
  Loads            \* how many loads are made

ASSUME TapeAssumption ==
  /\ Formats \subseteq {"TAP", "TZX"} /\ Formats # {}
  /\ Depth \in Nat \ {0, 1}
  /\ PauseLevel \in 1 .. Depth /\ SectorBytes \in Nat \ {0}
  /\ BlockLengths \subseteq 1 .. 255
  /\ FileBytes \in Nat \ {0} /\ Loads \in Nat \ {0}

VARIABLES
  disk,            \* the file stream and the catalog's strobes
  converter,       \* the TAP converter
  stream,          \* nexttang_tzx_stream on the write clock
  writer, reader, memory,    \* the FIFO
  tape,            \* nexttang_tzx_stream on the tape clock
  player,          \* what the TZX player does with the stream
  emitted,         \* history: the bytes of this load put on the stream
  ticked           \* a write edge has happened since the last tape edge

vars == <<disk, converter, stream, writer, reader, memory, tape, player, emitted, ticked>>

Fifo == INSTANCE AsyncByteFifo WITH
  Bytes <- {0}, ZeroByte <- 0, put <- <<>>, got <- <<>>
Tap == INSTANCE TapToTzx WITH
  TapBytes <- {0} \union BlockLengths, MaxInput <- FileBytes,
  input <- <<>>, output <- <<>>, ended <- [input |-> TRUE, output |-> TRUE]

IsTap == disk.format = "TAP"

(***************************************************************************)
(* The wires between the parts, on the write clock.                        *)
(***************************************************************************)
StreamValid == IF IsTap THEN converter.output_valid ELSE disk.valid
StreamDone == IF IsTap THEN converter.output_done ELSE disk.done

\* Mutant: the level is not looked at, only the full flag.
PauseWhenFull == Fifo!Full
FifoPause == Fifo!Level >= PauseLevel \/ Fifo!Full
FilePause == FifoPause \/ (IsTap /\ Tap!PauseInput)

(***************************************************************************)
(* The file stream: a sector is requested when nothing pauses it, and then *)
(* all of it comes.  The card is slow, and three guards say how slow: its  *)
(* first byte comes after a new epoch has crossed to the tape clock and    *)
(* the cleared read pointer has crossed back                               *)
(* (EpochCrossed: a read command takes tens of microseconds, a crossing    *)
(* one), a byte comes after the converter has finished with the previous   *)
(* one (WriteSideIdle), and a sector's checksum takes longer than its last *)
(* byte takes to cross (BytesCrossed).                                     *)
(***************************************************************************)
DiskQuiet == [disk EXCEPT !.start = FALSE, !.valid = FALSE, !.done = FALSE]

EpochCrossed ==
  \/ ~tape.released
  \/ /\ tape.epoch_seen = stream.epoch
     /\ writer.read_1 = reader.pointer /\ writer.read_2 = reader.pointer
BytesCrossed == ~tape.released \/ reader.write_2 = writer.pointer
WriteSideIdle ==
  ~disk.start /\ ~disk.valid /\ ~stream.write_clear
    /\ (IsTap => Tap!Waiting /\ ~converter.output_valid)

\* content_start, when the user picks a file.  One load ends before the next, and
\* nobody opens the menu and picks in the two clocks its end takes to pass.
DiskStart ==
  /\ disk.phase = "off" /\ disk.loads < Loads
  /\ WriteSideIdle /\ ~disk.done /\ ~StreamDone
  /\ \E format \in Formats :
       disk' = [DiskQuiet EXCEPT !.phase = "request", !.start = TRUE, !.format = format,
                                 !.file = FileBytes, !.loads = @ + 1]

DiskRequest ==
  /\ disk.phase = "request"
  /\ disk' = IF FilePause THEN DiskQuiet
             ELSE [DiskQuiet EXCEPT !.phase = "sector", !.left = SectorBytes]

DiskByte ==
  /\ disk.phase = "sector" /\ disk.left > 0 /\ disk.file > 0
  /\ disk.file = FileBytes => EpochCrossed
  /\ WriteSideIdle
  /\ disk' = [DiskQuiet EXCEPT !.valid = TRUE, !.left = @ - 1, !.file = @ - 1]

DiskSectorEnd ==
  /\ disk.phase = "sector" /\ (disk.left = 0 \/ disk.file = 0)
  /\ WriteSideIdle /\ BytesCrossed
  /\ disk' = IF disk.file = 0
             THEN [DiskQuiet EXCEPT !.phase = "off", !.left = 0, !.done = TRUE]
             ELSE [DiskQuiet EXCEPT !.phase = "request"]

DiskWait == disk.phase \in {"off", "sector"} /\ disk' = DiskQuiet

\* What the file holds where the converter looks for a length.
TapByte ==
  CASE converter.state = "LENGTH_LOW" -> BlockLengths
    [] OTHER -> {0}

ConverterStep ==
  \E byte \in TapByte :
    Tap!ConverterEdge(disk.start /\ IsTap, disk.valid /\ IsTap, byte, disk.done /\ IsTap)

(***************************************************************************)
(* The registers of tzx_stream on the write clock.                         *)
(***************************************************************************)
\* Mutant: a new load does not take back the end of the previous one.
StreamEdgeStillFinished ==
  stream' = [epoch |-> IF disk.start THEN 1 - stream.epoch ELSE stream.epoch,
             write_clear |-> disk.start,
             overflow |-> (stream.overflow /\ ~disk.start) \/ (StreamValid /\ Fifo!Full),
             finished |-> stream.finished \/ StreamDone]

StreamEdge ==
  stream' = [epoch |-> IF disk.start THEN 1 - stream.epoch ELSE stream.epoch,
             write_clear |-> disk.start,
             overflow |-> (stream.overflow /\ ~disk.start) \/ (StreamValid /\ Fifo!Full),
             finished |-> (stream.finished /\ ~disk.start) \/ StreamDone]

WriteEdge(diskStep) ==
  /\ diskStep
  /\ ConverterStep
  /\ StreamEdge
  /\ Fifo!WriteEdge(stream.write_clear, StreamValid, 0)
  /\ emitted' = IF disk.start THEN 0 ELSE IF StreamValid THEN emitted + 1 ELSE emitted
  /\ ticked' = TRUE
  /\ UNCHANGED <<reader, tape, player>>

DiskStep == DiskRequest \/ DiskByte \/ DiskSectorEnd \/ DiskWait

(***************************************************************************)
(* The registers of tzx_stream on the tape clock.  The machine is held in  *)
(* reset until the first load, and for as long as the memory is not        *)
(* available; play_start follows when the LOAD command has been typed, and *)
(* stays.                                                                  *)
(***************************************************************************)
TapeReset ==
  [epoch_1 |-> 0, epoch_2 |-> 0, epoch_seen |-> 0,
   finished_1 |-> FALSE, finished_2 |-> FALSE,
   restart |-> 0, started |-> FALSE]

\* Mutant: a new epoch does not clear the reader's end of the FIFO.
NeverClearing == FALSE
Clearing == tape.epoch_2 # tape.epoch_seen
PlayerReset == ~tape.released \/ ~tape.started \/ tape.restart > 1
PlayerStart == tape.restart = 1

\* Mutant: the end of the file is taken from the write clock unseen.
StreamEndUnsynchronised == stream.finished /\ ~reader.valid
StreamEnd == tape.finished_2 /\ ~reader.valid

TapeSampled ==
  [tape EXCEPT !.epoch_1 = stream.epoch, !.epoch_2 = tape.epoch_1,
               !.finished_1 = stream.finished, !.finished_2 = tape.finished_1]

TapeRunning ==
  CASE tape.epoch_2 # tape.epoch_seen ->
         [TapeSampled EXCEPT !.epoch_seen = tape.epoch_2, !.restart = 0, !.started = FALSE]
    [] tape.epoch_2 = tape.epoch_seen /\ tape.typed /\ ~tape.started ->
         [TapeSampled EXCEPT !.restart = 3, !.started = TRUE]
    [] OTHER -> [TapeSampled EXCEPT !.restart = IF @ = 0 THEN 0 ELSE @ - 1]

TapeRegisters(released, typed) ==
  LET registers == IF tape.released THEN TapeRunning ELSE TapeReset
  IN  [f \in DOMAIN tape |-> CASE f = "released" -> released
                               [] f = "typed" -> typed
                               [] OTHER -> registers[f]]

(***************************************************************************)
(* The player, as far as the stream can tell: while it plays it takes a    *)
(* byte whenever it wants one, and a stream that has ended when it wants   *)
(* one more ends it (nexttang_tzx_player, EXTERNAL_STREAM).                *)
(***************************************************************************)
Takes(wants) == player.state = "playing" /\ wants /\ reader.valid

PlayerEdge(wants) ==
  player' =
    CASE PlayerReset -> [state |-> "idle", taken |-> 0]
      [] ~PlayerReset /\ player.state = "idle" /\ PlayerStart ->
           [player EXCEPT !.state = "playing"]
      [] ~PlayerReset /\ Takes(wants) -> [player EXCEPT !.taken = @ + 1]
      [] ~PlayerReset /\ player.state = "playing" /\ wants /\ StreamEnd ->
           [player EXCEPT !.state = "finished"]
      [] OTHER -> player

TapeEdge(wants, released, typed) ==
  /\ ticked                           \* the write clock is the faster one
  /\ tape.released => released
  /\ released => disk.loads > 0       \* hold_reset
  /\ tape.typed => typed
  /\ typed => tape.released
  /\ tape' = TapeRegisters(released, typed)
  /\ PlayerEdge(wants)
  /\ Fifo!ReadEdge(~tape.released \/ Clearing, Takes(wants))
  /\ ticked' = FALSE
  /\ UNCHANGED <<disk, converter, stream, writer, memory, emitted>>

Init ==
  /\ disk = [phase |-> "off", start |-> FALSE, valid |-> FALSE, done |-> FALSE,
             left |-> 0, file |-> 0, loads |-> 0, format |-> "unknown"]
  /\ converter = Tap!Blank
  /\ stream = [epoch |-> 0, write_clear |-> FALSE, overflow |-> FALSE, finished |-> FALSE]
  /\ Fifo!FifoInit
  /\ tape = [released |-> FALSE, typed |-> FALSE,
             epoch_1 |-> 0, epoch_2 |-> 0, epoch_seen |-> 0,
             finished_1 |-> FALSE, finished_2 |-> FALSE, restart |-> 0, started |-> FALSE]
  /\ player = [state |-> "idle", taken |-> 0]
  /\ emitted = 0 /\ ticked = FALSE

WriteStep == WriteEdge(DiskStart) \/ WriteEdge(DiskStep)
TapeStep == \E wants, released, typed \in BOOLEAN : TapeEdge(wants, released, typed)

Next == WriteStep \/ TapeStep

Spec == Init /\ [][Next]_vars

(***************************************************************************)
(* Both clocks run, the card delivers what it is asked for, the machine is *)
(* released, LOAD is typed and the player keeps taking bytes.              *)
(***************************************************************************)
Delivering == WriteEdge(DiskRequest \/ DiskByte \/ DiskSectorEnd)
Playing == TapeEdge(TRUE, disk.loads > 0, tape.released)

FairSpec == Spec /\ WF_vars(WriteEdge(DiskStep)) /\ SF_vars(Delivering) /\ SF_vars(Playing)
-----------------------------------------------------------------------------
(***************************************************************************)
(* "The FIFO can absorb one complete in-flight sector after backpressure   *)
(* is raised": no byte of a file is refused.  This is not so of a TAP      *)
(* file, whose sectors grow on their way through the converter, and whose  *)
(* header the converter emits while full still compares with the pointer   *)
(* of the load before.                                                     *)
(***************************************************************************)
NothingRefused == ~stream.overflow /\ ~(StreamValid /\ Fifo!Full)

(***************************************************************************)
(* The bytes of a TZX file come as they are, and only when a sector has    *)
(* been asked for: none of them is refused, not even after a TAP file that *)
(* overflowed, or while the pointers of the load before are still about.   *)
(***************************************************************************)
TzxNeverRefused == disk.format = "TZX" /\ ~disk.start => NothingRefused

(***************************************************************************)
(* The player of the current load.                                         *)
(***************************************************************************)
Current ==
  /\ ~disk.start /\ tape.epoch_seen = stream.epoch
  /\ tape.started /\ tape.restart = 0

(***************************************************************************)
(* A tape that has been played was played whole: the player ended with     *)
(* exactly the bytes of its own load, none of them left in a crossing, in  *)
(* the FIFO, or over from the load before, unless the loader reports that  *)
(* one was refused; and on the way there it is never ahead of what its     *)
(* load has emitted.                                                       *)
(***************************************************************************)
PlayedWhole ==
  Current =>
    /\ player.taken <= emitted
    /\ player.state = "finished" =>
         disk.phase = "off" /\ (stream.overflow \/ player.taken = emitted)

(***************************************************************************)
(* A load that is not replaced by another is played to its end: neither    *)
(* back-pressure nor a stale level or epoch stops it for ever.             *)
(***************************************************************************)
PlayedInTheEnd == (disk.phase = "request") ~> (player.state = "finished")
=============================================================================
