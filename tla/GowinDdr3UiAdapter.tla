------------------------- MODULE GowinDdr3UiAdapter -------------------------
(***************************************************************************)
(* rtl/memory/nexttang_gowin_ddr3_ui_adapter.v: lines become halves of the *)
(* controller's beats.  A write is presented only when the command and the *)
(* data channel are both ready, and is answered a fixed number of edges    *)
(* after it was queued, because the controller says nothing when a queued  *)
(* write lands.  Bits of the mask that are 0 in the code are the set of    *)
(* enabled <<half, lane>> here.                                            *)
(***************************************************************************)
EXTENDS Integers

CONSTANTS
  Lines, Lanes, Bytes, ZeroByte,
  WriteDrainCycles            \* WRITE_DRAIN_CYCLES

VARIABLE gowin

Halves == {0, 1}
BeatOf(line) == line \div 2        \* line_address[16:1]
HalfOf(line) == line % 2           \* line_address[0]
Beats == {BeatOf(line) : line \in Lines}

BeatData == [Halves \X Lanes -> Bytes]
BlankLine == [lane \in Lanes |-> ZeroByte]
HalfLine(beat_data, half) == [lane \in Lanes |-> beat_data[<<half, lane>>]]
InHalf(half, line_data) ==
  [cell \in Halves \X Lanes |-> IF cell[1] = half THEN line_data[cell[2]] ELSE ZeroByte]

GowinRegisters ==
  [state : {"IDLE", "WRITE", "WRITE_DRAIN", "READ_COMMAND", "READ_RESPONSE"},
   drained : 0 .. WriteDrainCycles, half : Halves,
   response_valid : BOOLEAN, read_data : [Lanes -> Bytes],
   command : {"write", "read"}, beat : Beats,
   write_data : BeatData, enabled : SUBSET (Halves \X Lanes)]

GowinReset ==
  [state |-> "IDLE", drained |-> 0, half |-> 0,
   response_valid |-> FALSE, read_data |-> BlankLine,
   command |-> "write", beat |-> BeatOf(0),
   write_data |-> InHalf(0, BlankLine), enabled |-> {}]

\* The <<half, lane>> cells whose mask bit lets the write through.
Unmasked(half, line_enable) == {half} \X line_enable

\* line_ready, controller_command_enable and controller_write_data_enable
LineReady == gowin.state = "IDLE"
WritePresented(command_ready, data_ready) ==
  gowin.state = "WRITE" /\ command_ready /\ data_ready
ReadPresented == gowin.state = "READ_COMMAND"

GowinQuiet == [gowin EXCEPT !.response_valid = FALSE]

GowinIdle(request, write, line, line_data, line_enable) ==
  /\ LineReady
  /\ \/ /\ ~request
        /\ gowin' = [GowinQuiet EXCEPT !.drained = 0]
     \/ /\ request /\ write
        /\ gowin' = [GowinQuiet EXCEPT
             !.drained    = 0,
             !.beat       = BeatOf(line),
             !.half       = HalfOf(line),
             !.command    = "write",
             !.write_data = InHalf(HalfOf(line), line_data),
             !.enabled    = Unmasked(HalfOf(line), line_enable),
             !.state      = "WRITE"]
     \/ /\ request /\ ~write
        /\ gowin' = [GowinQuiet EXCEPT
             !.drained = 0,
             !.beat    = BeatOf(line),
             !.half    = HalfOf(line),
             !.command = "read",
             !.state   = "READ_COMMAND"]

\* Mutant: the command channel alone is waited for, and the write is lost.
GowinWriteUnpaired(command_ready, data_ready) ==
  /\ gowin.state = "WRITE"
  /\ gowin' = IF command_ready
              THEN [GowinQuiet EXCEPT !.drained = 0, !.state = "WRITE_DRAIN"]
              ELSE GowinQuiet

GowinWrite(command_ready, data_ready) ==
  /\ gowin.state = "WRITE"
  /\ gowin' = IF command_ready /\ data_ready
              THEN [GowinQuiet EXCEPT !.drained = 0, !.state = "WRITE_DRAIN"]
              ELSE GowinQuiet

\* Mutant: the drain counter runs past its end.
DrainedLate == gowin.drained > WriteDrainCycles
Drained == WriteDrainCycles = 0 \/ gowin.drained + 1 >= WriteDrainCycles

GowinDrain ==
  /\ gowin.state = "WRITE_DRAIN"
  /\ gowin' = IF Drained
              THEN [GowinQuiet EXCEPT !.response_valid = TRUE, !.state = "IDLE"]
              ELSE [GowinQuiet EXCEPT !.drained = @ + 1]

LineRead(beat_data) ==
  [GowinQuiet EXCEPT !.read_data      = HalfLine(beat_data, gowin.half),
                     !.response_valid = TRUE,
                     !.state          = "IDLE"]

GowinRead(command_ready, valid, beat_data) ==
  \/ /\ gowin.state = "READ_COMMAND"
     /\ gowin' = IF ~command_ready THEN GowinQuiet
                 ELSE IF valid THEN LineRead(beat_data)
                 ELSE [GowinQuiet EXCEPT !.state = "READ_RESPONSE"]
  \/ /\ gowin.state = "READ_RESPONSE"
     /\ gowin' = IF valid THEN LineRead(beat_data) ELSE GowinQuiet

GowinEdge(request, write, line, line_data, line_enable, command_ready, data_ready, valid, beat_data) ==
  \/ GowinIdle(request, write, line, line_data, line_enable)
  \/ GowinWrite(command_ready, data_ready)
  \/ GowinDrain
  \/ GowinRead(command_ready, valid, beat_data)
=============================================================================
