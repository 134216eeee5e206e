------------------------------ MODULE TapToTzx ------------------------------
(***************************************************************************)
(* rtl/loader/nexttang_tap_to_tzx_stream.v: expands a TAP byte stream, a   *)
(* sequence of length-prefixed blocks, into TZX: a file header, then for   *)
(* every block a five-byte standard-speed prefix and the block's bytes.    *)
(* Two bytes in are five bytes out at a block prefix, one each elsewhere.  *)
(***************************************************************************)
EXTENDS Integers, Sequences

CONSTANTS
  HeaderLength,    \* 10: "ZXTape!" 1A 01 14
  TapBytes,        \* the bytes the files in question are made of
  MaxInput         \* the longest file in question

ASSUME TapAssumption ==
  HeaderLength \in Nat \ {0} /\ TapBytes \subseteq 0 .. 255 /\ MaxInput \in Nat

VARIABLES
  converter,     \* the registers
  input,         \* the bytes of the file given so far
  output,        \* the bytes emitted so far
  ended          \* the file has ended; output_done has been raised

vars == <<converter, input, output, ended>>

PrefixLength == 5
States == {"HEADER", "LENGTH_LOW", "LENGTH_HIGH", "BLOCK_HEADER", "DATA", "FINISH"}

\* The header is told apart by its positions, the prefix is 10 E8 03 and the length.
HeaderByte(index) == <<"header", index>>
BlockHeaderByte(index, low, high) ==
  CASE index = 0 -> 16 [] index = 1 -> 232 [] index = 2 -> 3
    [] index = 3 -> low [] OTHER -> high

Blank == [state |-> "LENGTH_LOW", emit_index |-> 0, low |-> 0, high |-> 0,
          remaining |-> 0, output_byte |-> 0, output_valid |-> FALSE,
          output_done |-> FALSE, fault |-> FALSE]

PauseInput == converter.state \in {"HEADER", "BLOCK_HEADER"}

Quiet == [converter EXCEPT !.output_valid = FALSE, !.output_done = FALSE]
Emit(byte) == [Quiet EXCEPT !.output_byte = byte, !.output_valid = TRUE]

(***************************************************************************)
(* What an edge does in each state; valid and done are the input strobes.  *)
(***************************************************************************)
\* Mutant: one byte too many.
HeaderEdgeLong ==
  IF converter.emit_index = HeaderLength
  THEN [Emit(HeaderByte(converter.emit_index))
          EXCEPT !.emit_index = 0, !.state = "LENGTH_LOW"]
  ELSE [Emit(HeaderByte(converter.emit_index)) EXCEPT !.emit_index = @ + 1]

HeaderEdge ==
  IF converter.emit_index = HeaderLength - 1
  THEN [Emit(HeaderByte(converter.emit_index))
          EXCEPT !.emit_index = 0, !.state = "LENGTH_LOW"]
  ELSE [Emit(HeaderByte(converter.emit_index)) EXCEPT !.emit_index = @ + 1]

\* Mutant: an end between two blocks is not looked for.
LengthLowEdgeEndless(valid, byte, done) ==
  IF valid THEN [Quiet EXCEPT !.low = byte, !.state = "LENGTH_HIGH"] ELSE Quiet

LengthLowEdge(valid, byte, done) ==
  IF valid THEN [Quiet EXCEPT !.low = byte, !.state = "LENGTH_HIGH"]
  ELSE IF done THEN [Quiet EXCEPT !.state = "FINISH"]
  ELSE Quiet

\* Mutant: an empty block is let through, and counts down from zero.
LengthHighEdgeUnchecked(valid, byte) ==
  IF ~valid THEN Quiet
  ELSE [Quiet EXCEPT !.high = byte, !.remaining = 256 * byte + converter.low,
                     !.emit_index = 0, !.state = "BLOCK_HEADER"]

LengthHighEdge(valid, byte) ==
  IF ~valid THEN Quiet
  ELSE LET length == 256 * byte + converter.low
           latched == [Quiet EXCEPT !.high = byte, !.remaining = length, !.emit_index = 0]
       IN  IF length = 0 THEN [latched EXCEPT !.fault = TRUE, !.state = "FINISH"]
           ELSE [latched EXCEPT !.state = "BLOCK_HEADER"]

BlockHeaderEdge ==
  LET emitted == Emit(BlockHeaderByte(converter.emit_index, converter.low, converter.high))
  IN  IF converter.emit_index = PrefixLength - 1
      THEN [emitted EXCEPT !.emit_index = 0, !.state = "DATA"]
      ELSE [emitted EXCEPT !.emit_index = @ + 1]

\* Mutant: the last byte of a block is taken for the next one's length.
DataEdgeShort(valid, byte) ==
  IF ~valid THEN Quiet
  ELSE IF converter.remaining <= 2
  THEN [Emit(byte) EXCEPT !.remaining = 0, !.state = "LENGTH_LOW"]
  ELSE [Emit(byte) EXCEPT !.remaining = @ - 1]

DataEdge(valid, byte) ==
  IF ~valid THEN Quiet
  ELSE IF converter.remaining = 1
  THEN [Emit(byte) EXCEPT !.remaining = 0, !.state = "LENGTH_LOW"]
  ELSE [Emit(byte) EXCEPT !.remaining = (@ - 1) % 65536]

FinishEdge == [Quiet EXCEPT !.output_done = TRUE, !.state = "LENGTH_LOW"]

StateEdge(valid, byte, done) ==
  CASE converter.state = "HEADER"       -> HeaderEdge
    [] converter.state = "LENGTH_LOW"   -> LengthLowEdge(valid, byte, done)
    [] converter.state = "LENGTH_HIGH"  -> LengthHighEdge(valid, byte)
    [] converter.state = "BLOCK_HEADER" -> BlockHeaderEdge
    [] converter.state = "DATA"         -> DataEdge(valid, byte)
    [] converter.state = "FINISH"       -> FinishEdge

\* The two checks that end every edge: a byte nobody took, an end too early.
\* Mutant: the end of the file is believed wherever it comes.
CheckedTrusting(next, valid, done) ==
  IF done /\ converter.state \notin {"LENGTH_LOW", "FINISH"}
  THEN [next EXCEPT !.fault = @ \/ (valid /\ PauseInput), !.state = "FINISH"]
  ELSE [next EXCEPT !.fault = @ \/ (valid /\ PauseInput)]

Checked(next, valid, done) ==
  IF done /\ converter.state \notin {"LENGTH_LOW", "FINISH"}
  THEN [next EXCEPT !.fault = TRUE, !.state = "FINISH"]
  ELSE [next EXCEPT !.fault = @ \/ (valid /\ PauseInput)]

ConverterEdge(start, valid, byte, done) ==
  converter' =
    Checked(IF start THEN [Quiet EXCEPT !.state = "HEADER", !.emit_index = 0, !.fault = FALSE]
            ELSE StateEdge(valid, byte, done),
            valid, done)

(***************************************************************************)
(* Between the file stream and whatever takes the output.  The card is     *)
(* slower than the converter: a byte, and the end of the file, come when   *)
(* the converter has finished what it emits by itself, never on the same   *)
(* edge.  A file may be loaded again once the converter has ended.         *)
(***************************************************************************)
Init ==
  /\ converter = Blank
  /\ input = <<>> /\ output = <<>>
  /\ ended = [input |-> TRUE, output |-> TRUE]

Waiting == converter.state \in {"LENGTH_LOW", "LENGTH_HIGH", "DATA"}

Collected ==
  /\ output' = IF converter.output_valid THEN Append(output, converter.output_byte) ELSE output
  /\ ended' = [ended EXCEPT !.output = @ \/ converter.output_done]

Start ==
  /\ ended.input /\ ended.output /\ ~converter.output_valid
  /\ ConverterEdge(TRUE, FALSE, 0, FALSE)
  /\ input' = <<>> /\ output' = <<>>
  /\ ended' = [input |-> FALSE, output |-> FALSE]

GiveByte ==
  /\ ~ended.input /\ Waiting /\ Len(input) < MaxInput
  /\ \E byte \in TapBytes :
       /\ ConverterEdge(FALSE, TRUE, byte, FALSE)
       /\ input' = Append(input, byte)
  /\ Collected

GiveEnd ==
  /\ ~ended.input /\ Waiting
  /\ ConverterEdge(FALSE, FALSE, 0, TRUE)
  /\ ended' = [input |-> TRUE, output |-> ended.output \/ converter.output_done]
  /\ output' = IF converter.output_valid THEN Append(output, converter.output_byte) ELSE output
  /\ UNCHANGED input

Wait ==
  /\ ConverterEdge(FALSE, FALSE, 0, FALSE)
  /\ Collected
  /\ UNCHANGED input

Next == Start \/ GiveByte \/ GiveEnd \/ Wait

Spec == Init /\ [][Next]_vars

\* The clock runs.
FairSpec == Spec /\ WF_vars(Wait)
-----------------------------------------------------------------------------
TypeOK ==
  /\ converter.state \in States
  /\ converter.emit_index \in
       0 .. (IF converter.state = "HEADER" THEN HeaderLength ELSE PrefixLength) - 1
  /\ converter.remaining \in 0 .. 65535
  /\ converter.output_done \in BOOLEAN /\ converter.output_valid \in BOOLEAN
  /\ converter.fault \in BOOLEAN
  /\ input \in Seq(TapBytes)

(***************************************************************************)
(* The reference: what a TAP file stands for.  A block of length zero      *)
(* stands for nothing; the bytes of a truncated block stand for            *)
(* themselves, and a file is well formed if it ends with a whole block.    *)
(***************************************************************************)
BlockLength(file) == file[1] + 256 * file[2]

Expansion[file \in Seq(0 .. 255)] ==
  IF Len(file) < 2 THEN <<>>
  ELSE LET length == BlockLength(file)
           rest == SubSeq(file, 3, Len(file))
       IN  IF length = 0 THEN Expansion[rest]
           ELSE <<16, 232, 3, file[1], file[2]>>
                  \o SubSeq(rest, 1, IF length < Len(rest) THEN length ELSE Len(rest))
                  \o Expansion[SubSeq(rest, length + 1, Len(rest))]

WellFormed[file \in Seq(0 .. 255)] ==
  \/ file = <<>>
  \/ /\ Len(file) >= 2
     /\ LET length == BlockLength(file)
        IN  /\ length > 0 /\ length <= Len(file) - 2
            /\ WellFormed[SubSeq(file, length + 3, Len(file))]

Header == [i \in 1 .. HeaderLength |-> HeaderByte(i - 1)]

(***************************************************************************)
(* A converter that is not emitting has emitted exactly what the bytes it  *)
(* was given stand for.                                                    *)
(***************************************************************************)
Emitting == PauseInput \/ converter.output_valid

OutputIsExpansion ==
  (~Emitting /\ ~(ended.input /\ input = <<>> /\ output = <<>>))
     => output = Header \o Expansion[input]

(***************************************************************************)
(* A file that has ended is reported good exactly when it is a sequence of *)
(* whole, non-empty blocks: a truncated tape is never passed for a whole   *)
(* one.                                                                    *)
(***************************************************************************)
FaultMeansMalformed ==
  (ended.input /\ ended.output /\ converter.state = "LENGTH_LOW")
     => (converter.fault <=> ~WellFormed[input])

(***************************************************************************)
(* The end of the file reaches the other side, whatever the file.          *)
(***************************************************************************)
EndIsPassedOn == ended.input ~> ended.output
=============================================================================
