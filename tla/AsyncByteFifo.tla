--------------------------- MODULE AsyncByteFifo ---------------------------
(***************************************************************************)
(* rtl/loader/nexttang_async_byte_fifo.v, and its 64-byte sibling          *)
(* nexttang_async_byte_fifo_small.v, which differs in its depth only: a    *)
(* byte FIFO between two clocks.  Each side keeps its own pointer, in      *)
(* binary and in Gray code, and samples the other side's Gray pointer      *)
(* through two flops.  Neighbouring Gray codes differ in one bit, so a     *)
(* pointer that moves by one while it is sampled is sampled as the old or  *)
(* as the new one, which is the order of the two steps; the binary and     *)
(* the Gray pointer change together and are one field here.                *)
(***************************************************************************)
EXTENDS Integers, Sequences

CONSTANTS
  Depth,         \* 1024, or 64
  Bytes, ZeroByte

ASSUME FifoAssumption == Depth \in Nat \ {0, 1} /\ ZeroByte \in Bytes

VARIABLES
  writer,        \* registers of the write_clock domain
  reader,        \* registers of the read_clock domain
  memory,
  put, got       \* history: the last byte put in and the last one popped, each
                 \* with a bit that tells it from the byte before it

fifoVars == <<writer, reader, memory, put, got>>

(***************************************************************************)
(* A pointer is one bit wider than an address: it wraps at 2 * Depth.      *)
(***************************************************************************)
Pointers == 0 .. 2 * Depth - 1
\* Mutant: a pointer without its width.
SuccUnwrapped(p) == p + 1
Succ(p) == IF p = 2 * Depth - 1 THEN 0 ELSE p + 1
Ahead(p, q) == IF p >= q THEN p - q ELSE p - q + 2 * Depth   \* how far p is past q
Slot(p) == IF p >= Depth THEN p - Depth ELSE p

WriterRegisters == [pointer : Pointers, read_1 : Pointers, read_2 : Pointers]
ReaderRegisters ==
  [pointer : Pointers, write_1 : Pointers, write_2 : Pointers,
   valid : BOOLEAN, data : Bytes]

WriterReset == [pointer |-> 0, read_1 |-> 0, read_2 |-> 0]
ReaderReset ==
  [pointer |-> 0, write_1 |-> 0, write_2 |-> 0, valid |-> FALSE, data |-> ZeroByte]

\* What the write side knows: how full the FIFO is, and whether it is full.
\* Mutant: one more byte is let in.
FullLate == Ahead(writer.pointer, writer.read_2) = Depth
Full == Ahead(Succ(writer.pointer), writer.read_2) = Depth
\* Mutant: the level is taken from the pointer alone.
LevelWithoutReader == Slot(writer.pointer)
Level == Ahead(writer.pointer, writer.read_2)

(***************************************************************************)
(* The rising edge of write_clock.                                         *)
(***************************************************************************)
\* Mutant: the second flop is not fed.
WriterHalfSampled == [writer EXCEPT !.read_1 = reader.pointer]
WriterSampled ==
  [writer EXCEPT !.read_1 = reader.pointer, !.read_2 = writer.read_1]

WriteEdge(clear, enable, data) ==
  \/ clear /\ writer' = WriterReset /\ UNCHANGED memory
  \/ /\ ~clear /\ enable /\ ~Full
     /\ writer' = [WriterSampled EXCEPT !.pointer = Succ(@)]
     /\ memory' = [memory EXCEPT ![Slot(writer.pointer)] = data]
  \/ ~clear /\ ~(enable /\ ~Full) /\ writer' = WriterSampled /\ UNCHANGED memory

(***************************************************************************)
(* The rising edge of read_clock.  A byte stays shown until it is popped.  *)
(***************************************************************************)
\* Mutant: the second flop is not fed.
ReaderHalfSampled == [reader EXCEPT !.write_1 = writer.pointer]
ReaderSampled ==
  [reader EXCEPT !.write_1 = writer.pointer, !.write_2 = reader.write_1]

Shown ==
  [ReaderSampled EXCEPT !.data    = memory[Slot(reader.pointer)],
                        !.pointer = Succ(@),
                        !.valid   = TRUE]

Empty == reader.pointer = reader.write_2

\* Mutant: the next byte is shown whether or not this one has been popped.
ReadEdgeUnasked(clear, pop) ==
  \/ clear /\ reader' = ReaderReset
  \/ /\ ~clear
     /\ reader' = IF Empty THEN [ReaderSampled EXCEPT !.valid = reader.valid /\ ~pop]
                  ELSE Shown
ReadEdge(clear, pop) ==
  \/ clear /\ reader' = ReaderReset
  \/ ~clear /\ reader.valid /\ ~pop /\ reader' = ReaderSampled
  \/ /\ ~clear /\ (~reader.valid \/ pop)
     /\ reader' = IF Empty THEN [ReaderSampled EXCEPT !.valid = FALSE]
                  ELSE Shown

(***************************************************************************)
(* Between a producer that may write, and a consumer that may pop, at any  *)
(* edge.  Both sides are reset together.                                   *)
(***************************************************************************)
FifoInit ==
  /\ writer = WriterReset
  /\ reader = ReaderReset
  /\ memory = [slot \in 0 .. Depth - 1 |-> ZeroByte]

NothingMoved ==
  /\ put = [bit |-> 0, byte |-> ZeroByte]
  /\ got = [bit |-> 0, byte |-> ZeroByte]

\* The producer holds a byte put in that it offered while full was low; the
\* consumer takes the byte that is shown at an edge at which it pops.
WriterClock(enable, data) ==
  /\ WriteEdge(FALSE, enable, data)
  /\ put' = IF enable /\ ~Full THEN [bit |-> 1 - put.bit, byte |-> data] ELSE put
  /\ UNCHANGED <<reader, got>>

ReaderClock(pop) ==
  /\ ReadEdge(FALSE, pop)
  /\ got' = IF reader.valid /\ pop THEN [bit |-> 1 - got.bit, byte |-> reader.data] ELSE got
  /\ UNCHANGED <<writer, memory, put>>

WriterStep == \E enable \in BOOLEAN, data \in Bytes : WriterClock(enable, data)

ReaderStep == \E pop \in BOOLEAN : ReaderClock(pop)

CoordinatedReset ==
  /\ writer' = WriterReset
  /\ reader' = ReaderReset
  /\ UNCHANGED <<memory, put, got>>

FifoNext == WriterStep \/ ReaderStep \/ CoordinatedReset

FifoStart == FifoInit /\ NothingMoved

FifoSpec == FifoStart /\ [][FifoNext]_fifoVars

(***************************************************************************)
(* The read clock runs and the consumer keeps popping: the edges at which  *)
(* the reader pops keep coming.  The write clock may stop: a byte that is  *)
(* in has moved the pointer that the reader samples.                       *)
(***************************************************************************)
PoppingStep == ReaderClock(TRUE)

FifoFairSpec == FifoSpec /\ WF_fifoVars(PoppingStep)
-----------------------------------------------------------------------------
FifoTypeOK ==
  /\ writer \in WriterRegisters
  /\ reader \in ReaderRegisters
  /\ memory \in [0 .. Depth - 1 -> Bytes]

(***************************************************************************)
(* The inductive invariant: seen from the oldest sample of the read        *)
(* pointer, the pointers and their samples keep their order around the     *)
(* ring, and the ring is never full of unread bytes.                       *)
(***************************************************************************)
Behind(p) == Ahead(p, writer.read_2)

RingInv ==
  /\ Behind(writer.read_1) <= Behind(reader.pointer)
  /\ Behind(reader.pointer) <= Behind(reader.write_2)
  /\ Behind(reader.write_2) <= Behind(reader.write_1)
  /\ Behind(reader.write_1) <= Behind(writer.pointer)
  /\ Behind(writer.pointer) <= Depth - 1

(***************************************************************************)
(* What back-pressure rests on: the level and full flag the writer sees    *)
(* never under-report the unread bytes, however late its samples are.      *)
(***************************************************************************)
Unread == Ahead(writer.pointer, reader.pointer)

LevelIsSafe ==
  /\ Unread <= Level
  /\ Unread = Depth - 1 => Full

(***************************************************************************)
(* The FIFO is a queue: what the producer offers while full is low comes   *)
(* out once and in order, a byte that is shown stays until it is popped,   *)
(* and each pop takes the byte shown.  Only a reset of both sides empties  *)
(* it.  (full may be high although there is room, by the age of the sample *)
(* it is taken from; a byte refused early is no business of the queue.)    *)
(***************************************************************************)
Queue == INSTANCE ByteQueue WITH
  Capacity <- Depth - 1,
  queue <- [i \in 1 .. Unread |-> memory[Slot((reader.pointer + i - 1) % (2 * Depth))]],
  shown <- IF reader.valid THEN <<reader.data>> ELSE <<>>

IsQueue ==
  /\ Queue!Spec
  /\ [][~CoordinatedReset => [Queue!Step]_(Queue!vars)]_fifoVars

(***************************************************************************)
(* A byte that was written is shown to a consumer that pops, unless a      *)
(* reset takes it back: no pointer is lost in the crossing.                *)
(***************************************************************************)
WrittenIsShown == (Unread > 0) ~> (reader.valid \/ Unread = 0)
=============================================================================
