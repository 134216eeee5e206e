------------------------ MODULE ClassicTapePathProofs ------------------------
(***************************************************************************)
(* Proofs about the classic tape path when the files are TZX files, for    *)
(* every depth of the FIFO, pause level, length of sector and of file, and *)
(* number of loads.                                                        *)
(*                                                                         *)
(* A load goes through three stages, and the invariant says what each of   *)
(* them leaves clear for the next.  Fresh: the file has been picked, none  *)
(* of its bytes has come; the write side is cleared one clock later, and   *)
(* the epoch is on its way to the tape clock.  Joined: the tape clock has  *)
(* seen the epoch and cleared its side.  Begun: bytes come, the pointers   *)
(* are in order around the ring, and what the sector still owes fits.      *)
(* Every byte of the load is then taken, shown or unread, and the end flag *)
(* reaches the tape clock after the last byte has.                         *)
(***************************************************************************)
EXTENDS ClassicTapePath, TLAPS

\* A TZX file is not expanded; a whole sector fits above the pause level (512 + 512 <= 1024).
TzxFits == Formats = {"TZX"} /\ PauseLevel + SectorBytes <= Depth

\* No byte comes while the tape clock is held in reset.  The reset of the machine ends two
\* of its clocks after the first pick; a card takes longer, a memory not yet calibrated
\* may take longer still.
ReleasedFirst == disk.valid => tape.released

(***************************************************************************)
(* The inductive invariant.                                                *)
(***************************************************************************)
\* The values the registers take.
Disks ==
  [phase : {"off", "request", "sector"}, start : BOOLEAN, valid : BOOLEAN, done : BOOLEAN,
   left : 0 .. SectorBytes, file : 0 .. FileBytes, loads : Nat, format : {"unknown", "TZX"}]
Streams == [epoch : {0, 1}, write_clear : BOOLEAN, overflow : BOOLEAN, finished : BOOLEAN]
Tapes ==
  [released : BOOLEAN, typed : BOOLEAN, epoch_1 : {0, 1}, epoch_2 : {0, 1}, epoch_seen : {0, 1},
   finished_1 : BOOLEAN, finished_2 : BOOLEAN, restart : 0 .. 3, started : BOOLEAN]
Players == [state : {"idle", "playing", "finished"}, taken : Nat]

Types ==
  /\ disk \in Disks /\ stream \in Streams /\ tape \in Tapes /\ player \in Players
  /\ Fifo!FifoTypeOK
  /\ emitted \in Nat /\ ticked \in BOOLEAN

\* Bytes of the current load have come.
Begun == disk.loads > 0 /\ disk.file < FileBytes

\* The tape clock has seen the current epoch, and no other is on its way to it.
Joined ==
  /\ tape.released /\ tape.epoch_seen = stream.epoch
  /\ tape.epoch_1 = stream.epoch /\ tape.epoch_2 = stream.epoch

\* The reader's end of the FIFO is as its reset leaves it.
ReaderClear ==
  reader.pointer = 0 /\ reader.write_1 = 0 /\ reader.write_2 = 0 /\ ~reader.valid

\* What the phase of the file stream says of its strobes and of the end.
DiskInv ==
  /\ disk.loads = 0 =>
       /\ disk.phase = "off" /\ disk.file = 0 /\ ~disk.done
       /\ stream.epoch = 0 /\ ~stream.write_clear /\ ~stream.finished
  /\ disk.start => disk.phase = "request" /\ disk.file = FileBytes /\ ~stream.write_clear
  /\ disk.phase = "off" => disk.file = 0
  /\ disk.valid => disk.phase = "sector" /\ Begun
  /\ disk.done => disk.phase = "off"
  /\ disk.phase = "sector" /\ disk.file = FileBytes => disk.left = SectorBytes
  /\ stream.finished /\ ~disk.start => disk.phase = "off"

\* While the tape clock is held in reset.
HeldInv ==
  ~tape.released =>
    /\ tape.epoch_1 = 0 /\ tape.epoch_2 = 0 /\ tape.epoch_seen = 0
    /\ ~tape.finished_1 /\ ~tape.finished_2 /\ ~tape.started /\ tape.restart = 0
    /\ ReaderClear /\ writer.read_1 = 0 /\ writer.read_2 = 0 /\ ~Begun
    /\ disk.start => stream.epoch = 0
    /\ stream.write_clear => stream.epoch = 1

\* Before the first byte: the write side clears before the tape clock does.
FreshInv ==
  ~Begun =>
    /\ ~disk.start => emitted = 0
    /\ ~disk.start /\ ~stream.write_clear => writer.pointer = 0
    /\ ~disk.start /\ Joined => ReaderClear
    /\ stream.write_clear /\ tape.released =>
         tape.epoch_2 # stream.epoch /\ (tape.epoch_1 = stream.epoch => ~ticked)

\* A pick finds the epoch known to the tape clock, so one change is ever under way.
CrossInv ==
  tape.released =>
    /\ disk.loads > 0
    /\ disk.start => Joined
    /\ ~Joined =>
         /\ ~Begun /\ tape.epoch_seen # stream.epoch
         /\ tape.epoch_2 = stream.epoch => tape.epoch_1 = stream.epoch

\* While bytes come nothing is cleared, and the ring is in order.
BegunInv == Begun => Joined /\ ~stream.write_clear /\ Fifo!RingInv

\* The byte on the stream.
Offered == IF disk.valid THEN 1 ELSE 0

\* What the sector still owes fits in what the FIFO has left, as the write clock sees it.
RoomInv ==
  /\ ~stream.overflow
  /\ Begun /\ disk.phase = "sector" => Fifo!Level + Offered + disk.left <= Depth - 1

\* The byte shown to the player, and the bytes it took of this load.
Shown == IF reader.valid THEN 1 ELSE 0
Taken == IF tape.started THEN player.taken ELSE 0

\* Every byte of the load is taken, shown or unread; the player ended when none was left.
PlayerInv ==
  /\ ~tape.started /\ player.state = "playing" => ~reader.valid
  /\ tape.started /\ tape.restart > 0 => player.state = "idle" /\ player.taken = 0
  /\ Joined /\ ~disk.start =>
       /\ emitted = Taken + Shown + Fifo!Unread
       /\ tape.started /\ player.state = "finished" =>
            stream.finished /\ ~reader.valid /\ reader.pointer = writer.pointer

\* The end flag, wherever it is on its way, comes after the last byte.
EndInv ==
  ~disk.start /\ tape.released =>
    /\ tape.epoch_1 = stream.epoch /\ tape.finished_1 => stream.finished
    /\ tape.epoch_2 = stream.epoch /\ tape.finished_2 => tape.finished_1
    /\ Joined /\ (stream.finished \/ disk.done) =>
         Begun /\ reader.write_1 = writer.pointer /\ reader.write_2 = writer.pointer
    /\ Joined /\ tape.finished_1 => reader.valid \/ reader.pointer = writer.pointer

\* Together.
PathInv ==
  /\ Types /\ DiskInv /\ HeldInv /\ FreshInv /\ CrossInv /\ BegunInv
  /\ RoomInv /\ PlayerInv /\ EndInv

\* The constants as numbers.
LEMMA Constants ==
  /\ Depth \in Nat /\ Depth > 1 /\ PauseLevel \in Nat /\ PauseLevel > 0
  /\ SectorBytes \in Nat /\ SectorBytes > 0 /\ FileBytes \in Nat /\ FileBytes > 0
BY TapeAssumption

USE Constants

-----------------------------------------------------------------------------
(***************************************************************************)
(* Pointers and distances, as in the proofs about the FIFO.                *)
(***************************************************************************)
\* How far one pointer is past another.
LEMMA Distance ==
  ASSUME NEW p \in Fifo!Pointers, NEW q \in Fifo!Pointers
  PROVE  /\ Fifo!Ahead(p, q) \in 0 .. 2 * Depth - 1
         /\ Fifo!Ahead(p, q) = 0 <=> p = q
         /\ Fifo!Succ(p) \in Fifo!Pointers
         /\ Fifo!Ahead(p, q) < 2 * Depth - 1 => Fifo!Ahead(Fifo!Succ(p), q) = Fifo!Ahead(p, q) + 1
BY DEF Fifo!Pointers, Fifo!Ahead, Fifo!Succ

\* The same for all pointers at once.
LEMMA DistanceIsNumber == \A p, q \in Fifo!Pointers : Fifo!Ahead(p, q) \in Nat
BY DEF Fifo!Pointers, Fifo!Ahead

\* Distances from a pointer in between.
LEMMA DistanceFrom ==
  ASSUME NEW p \in Fifo!Pointers, NEW q \in Fifo!Pointers, NEW r \in Fifo!Pointers,
         Fifo!Ahead(r, q) <= Fifo!Ahead(p, q)
  PROVE  Fifo!Ahead(p, r) = Fifo!Ahead(p, q) - Fifo!Ahead(r, q)
BY DEF Fifo!Pointers, Fifo!Ahead

\* Every pointer and sample is one.
LEMMA Pointers ==
  ASSUME Fifo!FifoTypeOK
  PROVE  {writer.read_2, writer.read_1, writer.pointer, reader.pointer, reader.write_1, reader.write_2}
           \subseteq Fifo!Pointers
BY DEF Fifo!FifoTypeOK, Fifo!WriterRegisters, Fifo!ReaderRegisters

\* What the order around the ring says.
LEMMA RingFacts ==
  ASSUME Fifo!FifoTypeOK, Fifo!RingInv
  PROVE  /\ Fifo!Level \in 0 .. Depth - 1 /\ Fifo!Unread \in 0 .. Depth - 1
         /\ Fifo!Full <=> Fifo!Level = Depth - 1
         /\ reader.pointer = writer.pointer <=> Fifo!Unread = 0
         /\ reader.write_2 = writer.pointer => reader.write_1 = writer.pointer
<1> DEFINE r2 == writer.read_2
           rp == reader.pointer
           w2 == reader.write_2
           w1 == reader.write_1
           wp == writer.pointer
<1>1. r2 \in Fifo!Pointers /\ rp \in Fifo!Pointers /\ w2 \in Fifo!Pointers /\ w1 \in Fifo!Pointers /\ wp \in Fifo!Pointers
  BY Pointers
<1>2. /\ Fifo!Ahead(rp, r2) <= Fifo!Ahead(w2, r2) /\ Fifo!Ahead(w2, r2) <= Fifo!Ahead(w1, r2)
      /\ Fifo!Ahead(w1, r2) <= Fifo!Ahead(wp, r2) /\ Fifo!Ahead(wp, r2) <= Depth - 1
  BY DEF Fifo!RingInv, Fifo!Behind
<1>3. /\ Fifo!Ahead(rp, r2) \in Nat /\ Fifo!Ahead(w2, r2) \in Nat
      /\ Fifo!Ahead(w1, r2) \in Nat /\ Fifo!Ahead(wp, r2) \in Nat
  BY ONLY <1>1, DistanceIsNumber
<1>4. Fifo!Ahead(wp, rp) = Fifo!Ahead(wp, r2) - Fifo!Ahead(rp, r2)
  BY <1>1, <1>2, <1>3, DistanceFrom
<1>5. Fifo!Ahead(Fifo!Succ(wp), r2) = Fifo!Ahead(wp, r2) + 1
  BY <1>1, <1>2, <1>3, Distance
<1>6. Fifo!Ahead(wp, rp) = 0 <=> wp = rp
  BY <1>1, Distance
<1>7. w2 = wp => w1 = wp
  BY <1>1, <1>2 DEF Fifo!Ahead, Fifo!Pointers
<1> QED BY <1>2, <1>3, <1>4, <1>5, <1>6, <1>7 DEF Fifo!Level, Fifo!Unread, Fifo!Full

\* An edge of the write clock.
LEMMA RingWritten ==
  ASSUME Fifo!FifoTypeOK, Fifo!RingInv, NEW enable \in BOOLEAN, enable => ~Fifo!Full,
         reader' = reader, writer'.read_1 = reader.pointer, writer'.read_2 = writer.read_1,
         writer'.pointer = IF enable THEN Fifo!Succ(writer.pointer) ELSE writer.pointer
  PROVE  /\ Fifo!RingInv'
         /\ Fifo!Level' <= Fifo!Level + (IF enable THEN 1 ELSE 0)
         /\ Fifo!Unread' = Fifo!Unread + (IF enable THEN 1 ELSE 0)
<1> DEFINE r2 == writer.read_2
           r1 == writer.read_1
           rp == reader.pointer
           w2 == reader.write_2
           w1 == reader.write_1
           wp == writer.pointer
<1>1. /\ r2 \in Fifo!Pointers /\ r1 \in Fifo!Pointers /\ rp \in Fifo!Pointers
      /\ w2 \in Fifo!Pointers /\ w1 \in Fifo!Pointers /\ wp \in Fifo!Pointers
  BY Pointers
<1>2. /\ Fifo!Ahead(r1, r2) <= Fifo!Ahead(rp, r2) /\ Fifo!Ahead(rp, r2) <= Fifo!Ahead(w2, r2)
      /\ Fifo!Ahead(w2, r2) <= Fifo!Ahead(w1, r2)
      /\ Fifo!Ahead(w1, r2) <= Fifo!Ahead(wp, r2) /\ Fifo!Ahead(wp, r2) <= Depth - 1
  BY DEF Fifo!RingInv, Fifo!Behind
<1>3. /\ Fifo!Ahead(r1, r2) \in Nat /\ Fifo!Ahead(rp, r2) \in Nat /\ Fifo!Ahead(w2, r2) \in Nat
      /\ Fifo!Ahead(w1, r2) \in Nat /\ Fifo!Ahead(wp, r2) \in Nat
  BY ONLY <1>1, DistanceIsNumber
<1>4. /\ Fifo!Ahead(r1, r2) <= Fifo!Ahead(w2, r2) /\ Fifo!Ahead(r1, r2) <= Fifo!Ahead(w1, r2)
      /\ Fifo!Ahead(r1, r2) <= Fifo!Ahead(wp, r2) /\ Fifo!Ahead(rp, r2) <= Fifo!Ahead(wp, r2)
  BY <1>2, <1>3
<1>5. /\ Fifo!Ahead(rp, r1) = Fifo!Ahead(rp, r2) - Fifo!Ahead(r1, r2)
      /\ Fifo!Ahead(w2, r1) = Fifo!Ahead(w2, r2) - Fifo!Ahead(r1, r2)
      /\ Fifo!Ahead(w1, r1) = Fifo!Ahead(w1, r2) - Fifo!Ahead(r1, r2)
      /\ Fifo!Ahead(wp, r1) = Fifo!Ahead(wp, r2) - Fifo!Ahead(r1, r2)
      /\ Fifo!Ahead(wp, rp) = Fifo!Ahead(wp, r2) - Fifo!Ahead(rp, r2)
  BY <1>1, <1>2, <1>4, DistanceFrom
<1>6. enable => Fifo!Ahead(wp, r2) < Depth - 1
  BY RingFacts, <1>2, <1>3 DEF Fifo!Level
<1>7. /\ enable => Fifo!Ahead(Fifo!Succ(wp), r1) = Fifo!Ahead(wp, r1) + 1
      /\ enable => Fifo!Ahead(Fifo!Succ(wp), rp) = Fifo!Ahead(wp, rp) + 1
  BY <1>1, <1>3, <1>5, <1>6, Distance
<1> QED BY <1>2, <1>3, <1>5, <1>6, <1>7 DEF Fifo!RingInv, Fifo!Behind, Fifo!Level, Fifo!Unread

\* An edge of the tape clock.
LEMMA RingRead ==
  ASSUME Fifo!FifoTypeOK, Fifo!RingInv, NEW moves \in BOOLEAN, moves => ~Fifo!Empty,
         writer' = writer, reader'.write_1 = writer.pointer, reader'.write_2 = reader.write_1,
         reader'.pointer = IF moves THEN Fifo!Succ(reader.pointer) ELSE reader.pointer
  PROVE  /\ Fifo!RingInv' /\ Fifo!Level' = Fifo!Level
         /\ Fifo!Unread' = Fifo!Unread - (IF moves THEN 1 ELSE 0)
<1> DEFINE r2 == writer.read_2
           rp == reader.pointer
           w2 == reader.write_2
           w1 == reader.write_1
           wp == writer.pointer
<1>1. /\ r2 \in Fifo!Pointers /\ writer.read_1 \in Fifo!Pointers /\ rp \in Fifo!Pointers
      /\ w2 \in Fifo!Pointers /\ w1 \in Fifo!Pointers /\ wp \in Fifo!Pointers
  BY Pointers
<1>2. /\ Fifo!Ahead(writer.read_1, r2) <= Fifo!Ahead(rp, r2)
      /\ Fifo!Ahead(rp, r2) <= Fifo!Ahead(w2, r2) /\ Fifo!Ahead(w2, r2) <= Fifo!Ahead(w1, r2)
      /\ Fifo!Ahead(w1, r2) <= Fifo!Ahead(wp, r2) /\ Fifo!Ahead(wp, r2) <= Depth - 1
  BY DEF Fifo!RingInv, Fifo!Behind
<1>3. /\ Fifo!Ahead(rp, r2) \in Nat /\ Fifo!Ahead(w2, r2) \in Nat
      /\ Fifo!Ahead(w1, r2) \in Nat /\ Fifo!Ahead(wp, r2) \in Nat /\ Fifo!Ahead(writer.read_1, r2) \in Nat
  BY ONLY <1>1, DistanceIsNumber
<1>4. Fifo!Ahead(rp, r2) # Fifo!Ahead(w2, r2) \/ Fifo!Empty
  BY <1>1 DEF Fifo!Ahead, Fifo!Pointers, Fifo!Empty
<1>5. Fifo!Ahead(Fifo!Succ(rp), r2) = Fifo!Ahead(rp, r2) + 1
  BY <1>1, <1>2, <1>3, Distance
<1>6. reader'.pointer \in Fifo!Pointers /\ Fifo!Ahead(reader'.pointer, r2) <= Fifo!Ahead(wp, r2)
  BY <1>1, <1>2, <1>3, <1>4, <1>5, Distance
<1>7. /\ Fifo!Ahead(wp, reader'.pointer) = Fifo!Ahead(wp, r2) - Fifo!Ahead(reader'.pointer, r2)
      /\ Fifo!Ahead(wp, rp) = Fifo!Ahead(wp, r2) - Fifo!Ahead(rp, r2)
  BY <1>1, <1>2, <1>3, <1>6, DistanceFrom
<1> QED BY <1>2, <1>3, <1>4, <1>5, <1>6, <1>7 DEF Fifo!RingInv, Fifo!Behind, Fifo!Level, Fifo!Unread
-----------------------------------------------------------------------------
(***************************************************************************)
(* What an edge of the write clock does when no load is a TAP file.        *)
(***************************************************************************)
\* The stream is the file's.
LEMMA NoTap == ASSUME Types PROVE ~IsTap /\ StreamValid = disk.valid /\ StreamDone = disk.done
BY DEF Types, Disks, IsTap, StreamValid, StreamDone

\* The registers of the write clock after an edge at which no byte is refused.
LEMMA WriteMoves ==
  ASSUME Types, NEW diskStep, WriteEdge(diskStep), disk.valid => ~Fifo!Full
  PROVE  /\ diskStep /\ UNCHANGED <<reader, tape, player>> /\ ticked' = TRUE
         /\ stream' \in Streams /\ writer' \in Fifo!WriterRegisters /\ memory' \in [0 .. Depth - 1 -> {0}]
         /\ stream'.epoch = IF disk.start THEN 1 - stream.epoch ELSE stream.epoch
         /\ stream'.write_clear = disk.start
         /\ stream'.overflow => stream.overflow
         /\ stream'.finished <=> (stream.finished /\ ~disk.start) \/ disk.done
         /\ emitted' = IF disk.start THEN 0 ELSE emitted + Offered
         /\ IF stream.write_clear
            THEN writer'.pointer = 0 /\ writer'.read_1 = 0 /\ writer'.read_2 = 0
            ELSE /\ writer'.read_1 = reader.pointer /\ writer'.read_2 = writer.read_1
                 /\ writer'.pointer = IF disk.valid THEN Fifo!Succ(writer.pointer) ELSE writer.pointer
<1>1. StreamValid = disk.valid /\ StreamDone = disk.done
  BY NoTap
<1>2. /\ disk.start \in BOOLEAN /\ disk.valid \in BOOLEAN /\ disk.done \in BOOLEAN
      /\ stream.epoch \in {0, 1} /\ stream.write_clear \in BOOLEAN /\ stream.overflow \in BOOLEAN
      /\ stream.finished \in BOOLEAN /\ emitted \in Nat
  BY DEF Types, Disks, Streams
<1>3. diskStep /\ UNCHANGED <<reader, tape, player>> /\ ticked' = TRUE
  BY DEF WriteEdge
<1>4. stream' = [epoch |-> IF disk.start THEN 1 - stream.epoch ELSE stream.epoch,
                 write_clear |-> disk.start,
                 overflow |-> (stream.overflow /\ ~disk.start) \/ (disk.valid /\ Fifo!Full),
                 finished |-> (stream.finished /\ ~disk.start) \/ disk.done]
  BY <1>1 DEF WriteEdge, StreamEdge
<1>5. /\ stream' \in Streams
      /\ stream'.epoch = IF disk.start THEN 1 - stream.epoch ELSE stream.epoch
      /\ stream'.write_clear = disk.start
      /\ stream'.overflow => stream.overflow
      /\ stream'.finished <=> (stream.finished /\ ~disk.start) \/ disk.done
  BY <1>2, <1>4 DEF Streams
<1>6. emitted' = IF disk.start THEN 0 ELSE emitted + Offered
  BY <1>1, <1>2 DEF WriteEdge, Offered
<1>7. Fifo!WriteEdge(stream.write_clear, disk.valid, 0)
  BY <1>1 DEF WriteEdge
<1>8. /\ writer \in Fifo!WriterRegisters /\ memory \in [0 .. Depth - 1 -> {0}]
      /\ reader.pointer \in Fifo!Pointers /\ Fifo!Succ(writer.pointer) \in Fifo!Pointers
  BY Pointers, Distance DEF Types, Fifo!FifoTypeOK
<1>9. memory' \in [0 .. Depth - 1 -> {0}]
  BY <1>7, <1>8 DEF Fifo!WriteEdge
<1>10. /\ writer' \in Fifo!WriterRegisters
       /\ IF stream.write_clear
          THEN writer'.pointer = 0 /\ writer'.read_1 = 0 /\ writer'.read_2 = 0
          ELSE /\ writer'.read_1 = reader.pointer /\ writer'.read_2 = writer.read_1
               /\ writer'.pointer = IF disk.valid THEN Fifo!Succ(writer.pointer) ELSE writer.pointer
  <2>1. 0 \in Fifo!Pointers
    BY DEF Fifo!Pointers
  <2>2. CASE stream.write_clear
    BY <1>7, <2>1, <2>2 DEF Fifo!WriteEdge, Fifo!WriterReset, Fifo!WriterRegisters
  <2>3. CASE ~stream.write_clear /\ disk.valid
    BY <1>7, <1>8, <2>3 DEF Fifo!WriteEdge, Fifo!WriterSampled, Fifo!WriterRegisters
  <2>4. CASE ~stream.write_clear /\ ~disk.valid
    BY <1>7, <1>8, <2>4 DEF Fifo!WriteEdge, Fifo!WriterSampled, Fifo!WriterRegisters
  <2> QED BY <2>2, <2>3, <2>4
<1> QED BY <1>3, <1>5, <1>6, <1>9, <1>10

\* The steps of the file stream, and the pick of a file.
PicksFile ==
  /\ disk.phase = "off" /\ ~disk.start /\ ~disk.valid /\ ~disk.done /\ ~stream.write_clear
  /\ disk'.phase = "request" /\ disk'.start /\ disk'.file = FileBytes /\ disk'.loads = disk.loads + 1
  /\ ~disk'.valid /\ ~disk'.done
BeginsSector ==
  /\ disk.phase = "request" /\ Fifo!Level < PauseLevel
  /\ disk'.phase = "sector" /\ disk'.left = SectorBytes
  /\ ~disk'.start /\ ~disk'.valid /\ ~disk'.done /\ disk'.file = disk.file /\ disk'.loads = disk.loads
SendsByte ==
  /\ disk.phase = "sector" /\ ~disk.start /\ ~disk.valid /\ ~stream.write_clear
  /\ disk.file > 0 /\ disk.left > 0 /\ (disk.file = FileBytes => EpochCrossed)
  /\ disk'.phase = "sector" /\ disk'.valid /\ ~disk'.start /\ ~disk'.done
  /\ disk'.file = disk.file - 1 /\ disk'.left = disk.left - 1 /\ disk'.loads = disk.loads
EndsSector ==
  /\ disk.phase = "sector" /\ ~disk.start /\ ~disk.valid /\ ~stream.write_clear
  /\ disk.left = 0 \/ disk.file = 0
  /\ BytesCrossed
  /\ ~disk'.valid /\ ~disk'.start /\ disk'.file = disk.file /\ disk'.loads = disk.loads
  /\ disk'.done <=> disk.file = 0
  /\ disk'.phase = IF disk.file = 0 THEN "off" ELSE "request"
Rests ==
  /\ ~disk'.start /\ ~disk'.valid /\ ~disk'.done
  /\ disk'.phase = disk.phase /\ disk'.file = disk.file /\ disk'.left = disk.left
  /\ disk'.loads = disk.loads

\* Every step of the file stream is one of these five.
LEMMA DiskMoves ==
  ASSUME Types, TzxFits, DiskStart \/ DiskStep
  PROVE  disk' \in Disks /\ (PicksFile \/ BeginsSector \/ SendsByte \/ EndsSector \/ Rests)
<1>1. disk \in Disks /\ ~IsTap /\ StreamDone = disk.done
  BY NoTap DEF Types
<1>2. /\ disk.left \in 0 .. SectorBytes /\ disk.file \in 0 .. FileBytes /\ disk.loads \in Nat
  BY <1>1 DEF Disks
<1>3. DiskQuiet \in Disks /\ DiskQuiet = [disk EXCEPT !.start = FALSE, !.valid = FALSE, !.done = FALSE]
  BY <1>1 DEF Disks, DiskQuiet
<1>4. /\ ~DiskQuiet.start /\ ~DiskQuiet.valid /\ ~DiskQuiet.done /\ DiskQuiet.phase = disk.phase
      /\ DiskQuiet.file = disk.file /\ DiskQuiet.left = disk.left /\ DiskQuiet.loads = disk.loads
  BY <1>1, <1>3 DEF Disks
<1> HIDE DEF DiskQuiet
<1>5. CASE DiskStart
  <2> PICK format \in Formats :
         disk' = [DiskQuiet EXCEPT !.phase = "request", !.start = TRUE, !.format = format,
                                   !.file = FileBytes, !.loads = @ + 1]
    BY <1>5 DEF DiskStart
  <2>1. format = "TZX"
    BY DEF TzxFits
  <2>2. disk' \in Disks
    <3> DEFINE files == 0 .. FileBytes
               loads == DiskQuiet.loads + 1
    <3>1. FileBytes \in files /\ loads \in Nat
      BY <1>2, <1>4
    <3>2. disk' = [DiskQuiet EXCEPT !.phase = "request", !.start = TRUE, !.format = "TZX",
                                    !.file = FileBytes, !.loads = loads]
      BY <2>1
    <3>3. DiskQuiet \in [phase : {"off", "request", "sector"}, start : BOOLEAN, valid : BOOLEAN,
                         done : BOOLEAN, left : 0 .. SectorBytes, file : files, loads : Nat,
                         format : {"unknown", "TZX"}]
      BY <1>3 DEF Disks
    <3> HIDE DEF files, loads
    <3>4. disk' \in [phase : {"off", "request", "sector"}, start : BOOLEAN, valid : BOOLEAN,
                     done : BOOLEAN, left : 0 .. SectorBytes, file : files, loads : Nat,
                     format : {"unknown", "TZX"}]
      BY ONLY <3>1, <3>2, <3>3
    <3> QED BY <3>4 DEF Disks, files
  <2>3. PicksFile
    BY <1>1, <1>5, <1>3, <1>4 DEF DiskStart, WriteSideIdle, PicksFile, Disks
  <2> QED BY <2>2, <2>3
<1>6. CASE DiskRequest
  <2>1. CASE FilePause
    BY <1>1, <1>6, <1>3, <1>4, <2>1 DEF DiskRequest, Rests
  <2>2. CASE ~FilePause
    <3>1. Fifo!Level \in Int /\ PauseLevel \in Int
      BY Pointers, DistanceIsNumber DEF Types, Fifo!Level
    <3>2. Fifo!Level < PauseLevel
      BY <3>1, <2>2 DEF FilePause, FifoPause
    <3>3. disk' = [DiskQuiet EXCEPT !.phase = "sector", !.left = SectorBytes]
      BY <1>6, <2>2 DEF DiskRequest
    <3>4. disk' \in Disks
      <4>1. SectorBytes \in 0 .. SectorBytes
        OBVIOUS
      <4> QED BY <1>3, <3>3, <4>1 DEF Disks
    <3> QED BY <1>1, <1>6, <1>3, <1>4, <3>2, <3>3, <3>4 DEF DiskRequest, BeginsSector, Disks
  <2> QED BY <2>1, <2>2
<1>7. CASE DiskByte
  <2>1. disk' = [DiskQuiet EXCEPT !.valid = TRUE, !.left = @ - 1, !.file = @ - 1]
    BY <1>7 DEF DiskByte
  <2>2. disk' \in Disks
    <3>1. DiskQuiet.left - 1 \in 0 .. SectorBytes /\ DiskQuiet.file - 1 \in 0 .. FileBytes
      BY <1>2, <1>7, <1>4 DEF DiskByte
    <3> QED BY ZenonT(60), <1>3, <2>1, <3>1 DEF Disks
  <2>3. SendsByte
    BY <1>7, <1>3, <1>4, <2>1 DEF DiskByte, WriteSideIdle, SendsByte, Disks
  <2> QED BY <2>2, <2>3
<1>8. CASE DiskSectorEnd
  <2>1. disk' = IF disk.file = 0 THEN [DiskQuiet EXCEPT !.phase = "off", !.left = 0, !.done = TRUE]
                ELSE [DiskQuiet EXCEPT !.phase = "request"]
    BY <1>8 DEF DiskSectorEnd
  <2>2. disk' \in Disks
    <3>1. 0 \in 0 .. SectorBytes
      OBVIOUS
    <3> QED BY <1>3, <2>1, <3>1 DEF Disks
  <2>3. EndsSector
    BY <1>8, <1>3, <1>4, <2>1 DEF DiskSectorEnd, WriteSideIdle, EndsSector, Disks
  <2> QED BY <2>2, <2>3
<1>9. CASE DiskWait
  BY <1>9, <1>3, <1>4 DEF DiskWait, Rests
<1> QED BY <1>5, <1>6, <1>7, <1>8, <1>9 DEF DiskStep
-----------------------------------------------------------------------------
(***************************************************************************)
(* What an edge of the tape clock does.                                    *)
(***************************************************************************)
\* The registers of the stream on the tape clock.
Resets ==
  /\ ~tape.released
  /\ tape'.epoch_1 = 0 /\ tape'.epoch_2 = 0 /\ tape'.epoch_seen = 0
  /\ ~tape'.finished_1 /\ ~tape'.finished_2 /\ ~tape'.started /\ tape'.restart = 0
Samples ==
  /\ tape.released /\ tape'.released
  /\ tape'.epoch_1 = stream.epoch /\ tape'.epoch_2 = tape.epoch_1
  /\ tape'.finished_1 = stream.finished /\ tape'.finished_2 = tape.finished_1
Clears ==
  /\ Clearing /\ tape'.epoch_seen = tape.epoch_2 /\ ~tape'.started /\ tape'.restart = 0
Starts ==
  /\ ~Clearing /\ ~tape.started /\ tape'.started /\ tape'.restart = 3
  /\ tape'.epoch_seen = tape.epoch_seen
Counts ==
  /\ ~Clearing /\ tape'.started = tape.started /\ tape'.epoch_seen = tape.epoch_seen
  /\ tape'.restart = IF tape.restart = 0 THEN 0 ELSE tape.restart - 1

\* An edge resets them or samples, and then clears, starts or counts down.
LEMMA TapeRegistersMove ==
  ASSUME Types, NEW wants \in BOOLEAN, NEW released \in BOOLEAN, NEW typed \in BOOLEAN,
         TapeEdge(wants, released, typed)
  PROVE  /\ tape' \in Tapes
         /\ tape'.released => disk.loads > 0
         /\ Resets \/ (Samples /\ (Clears \/ Starts \/ Counts))
<1>1. /\ tape \in Tapes /\ stream \in Streams
      /\ tape.released => released
      /\ released => disk.loads > 0
      /\ tape' = TapeRegisters(released, typed)
  BY DEF Types, TapeEdge
<1>2. DOMAIN tape = {"released", "typed", "epoch_1", "epoch_2", "epoch_seen",
                     "finished_1", "finished_2", "restart", "started"}
  BY <1>1 DEF Tapes
<1> DEFINE registers == IF tape.released THEN TapeRunning ELSE TapeReset
<1>3. tape' = [released |-> released, typed |-> typed,
               epoch_1 |-> registers.epoch_1, epoch_2 |-> registers.epoch_2,
               epoch_seen |-> registers.epoch_seen, finished_1 |-> registers.finished_1,
               finished_2 |-> registers.finished_2, restart |-> registers.restart,
               started |-> registers.started]
  <2>1. tape' = [f \in DOMAIN tape |-> CASE f = "released" -> released
                                         [] f = "typed" -> typed
                                         [] OTHER -> registers[f]]
    BY <1>1 DEF TapeRegisters
  <2> HIDE DEF registers
  <2> QED BY <1>2, <2>1
<1>4. CASE ~tape.released
  BY <1>1, <1>3, <1>4 DEF TapeReset, Tapes, Resets
<1>5. CASE tape.released
  <2>1. registers = TapeRunning
    BY <1>5
  <2>2. TapeSampled = [tape EXCEPT !.epoch_1 = stream.epoch, !.epoch_2 = tape.epoch_1,
                           !.finished_1 = stream.finished, !.finished_2 = tape.finished_1]
    BY DEF TapeSampled
  <2>3. CASE Clearing
    <3>1. registers = [TapeSampled EXCEPT !.epoch_seen = tape.epoch_2, !.restart = 0, !.started = FALSE]
      BY <2>1, <2>3 DEF TapeRunning, Clearing
    <3> HIDE DEF registers
    <3> QED BY <1>1, <1>3, <1>5, <2>2, <2>3, <3>1 DEF Tapes, Streams, Samples, Clears
  <2>4. CASE ~Clearing /\ tape.typed /\ ~tape.started
    <3>1. registers = [TapeSampled EXCEPT !.restart = 3, !.started = TRUE]
      BY <2>1, <2>4 DEF TapeRunning, Clearing
    <3> HIDE DEF registers
    <3> QED BY <1>1, <1>3, <1>5, <2>2, <2>4, <3>1 DEF Tapes, Streams, Samples, Starts
  <2>5. CASE ~Clearing /\ ~(tape.typed /\ ~tape.started)
    <3>1. registers = [TapeSampled EXCEPT !.restart = IF @ = 0 THEN 0 ELSE @ - 1]
      BY <2>1, <2>5 DEF TapeRunning, Clearing
    <3> HIDE DEF registers
    <3> QED BY <1>1, <1>3, <1>5, <2>2, <2>5, <3>1 DEF Tapes, Streams, Samples, Counts
  <2> QED BY <2>3, <2>4, <2>5
<1> QED BY <1>4, <1>5

\* The player, by what it does with the byte shown.
Played(took) ==
  \/ PlayerReset /\ player'.state = "idle" /\ player'.taken = 0
  \/ /\ ~PlayerReset /\ ~took /\ player'.taken = player.taken
     /\ \/ player'.state = player.state
        \/ player'.state = "playing" /\ player.state = "idle"
        \/ player'.state = "finished" /\ tape.finished_2 /\ ~reader.valid
  \/ /\ ~PlayerReset /\ took
     /\ player'.taken = player.taken + 1 /\ player'.state = player.state

\* The player takes a byte, or changes its state, or is reset.
LEMMA PlayerMoves ==
  ASSUME Types, NEW wants \in BOOLEAN, PlayerEdge(wants)
  PROVE  /\ player' \in Players /\ Played(Takes(wants))
         /\ Takes(wants) => player.state = "playing" /\ reader.valid
<1>1. player \in Players /\ reader.valid \in BOOLEAN /\ tape \in Tapes
  BY DEF Types, Fifo!FifoTypeOK, Fifo!ReaderRegisters
<1>2. Takes(wants) => player.state = "playing" /\ reader.valid
  BY DEF Takes
<1>3. CASE PlayerReset
  BY <1>1, <1>2, <1>3 DEF PlayerEdge, Players, Played
<1>4. CASE ~PlayerReset /\ player.state = "idle" /\ PlayerStart
  BY <1>1, <1>2, <1>4 DEF PlayerEdge, Players, Played
<1>5. CASE ~PlayerReset /\ Takes(wants)
  <2>1. player.state # "idle" /\ player.taken + 1 \in Nat
    BY <1>1, <1>2, <1>5 DEF Players
  <2>2. player' = [player EXCEPT !.taken = @ + 1]
    BY <1>2, <1>5, <2>1 DEF PlayerEdge, StreamEnd
  <2>3. player' \in Players
    BY <1>1, <2>1, <2>2 DEF Players
  <2> QED BY <1>1, <1>2, <1>5, <2>2, <2>3 DEF Players, Played
<1>6. CASE ~PlayerReset /\ ~Takes(wants) /\ player.state = "playing" /\ wants /\ StreamEnd
  BY <1>1, <1>2, <1>6 DEF PlayerEdge, Players, Played, StreamEnd
<1>7. CASE /\ ~PlayerReset /\ ~(player.state = "idle" /\ PlayerStart) /\ ~Takes(wants)
           /\ ~(player.state = "playing" /\ wants /\ StreamEnd)
  BY <1>1, <1>2, <1>7 DEF PlayerEdge, Players, Played
<1> QED BY <1>3, <1>4, <1>5, <1>6, <1>7

\* The reader's end of the FIFO.
ReaderReads(took) ==
  /\ reader'.write_1 = writer.pointer /\ reader'.write_2 = reader.write_1
  /\ \/ /\ reader.valid /\ ~took
        /\ reader'.pointer = reader.pointer /\ reader'.valid
     \/ /\ ~reader.valid \/ took
        /\ Fifo!Empty /\ reader'.pointer = reader.pointer /\ ~reader'.valid
     \/ /\ ~reader.valid \/ took
        /\ ~Fifo!Empty /\ reader'.pointer = Fifo!Succ(reader.pointer) /\ reader'.valid

\* The reader clears, keeps its byte, runs dry or shows the next.
LEMMA ReaderMoves ==
  ASSUME Types, NEW clear \in BOOLEAN, NEW pop \in BOOLEAN, Fifo!ReadEdge(clear, pop)
  PROVE  /\ reader' \in Fifo!ReaderRegisters
         /\ IF clear THEN ReaderClear' ELSE ReaderReads(pop)
<1>1. /\ reader \in Fifo!ReaderRegisters /\ memory \in [0 .. Depth - 1 -> {0}]
      /\ writer.pointer \in Fifo!Pointers /\ reader.pointer \in Fifo!Pointers
      /\ Fifo!Succ(reader.pointer) \in Fifo!Pointers
  BY Pointers, Distance DEF Types, Fifo!FifoTypeOK
<1>2. memory[Fifo!Slot(reader.pointer)] \in {0}
  BY <1>1 DEF Fifo!Slot, Fifo!Pointers
<1>3. CASE clear
  <2>1. 0 \in Fifo!Pointers
    BY DEF Fifo!Pointers
  <2>2. reader' = [pointer |-> 0, write_1 |-> 0, write_2 |-> 0, valid |-> FALSE, data |-> 0]
    BY <1>3 DEF Fifo!ReadEdge, Fifo!ReaderReset
  <2>3. reader' \in Fifo!ReaderRegisters
    BY <2>1, <2>2 DEF Fifo!ReaderRegisters
  <2> QED BY <1>3, <2>2, <2>3 DEF ReaderClear
<1>4. CASE ~clear /\ reader.valid /\ ~pop
  BY <1>1, <1>4 DEF Fifo!ReadEdge, Fifo!ReaderSampled, Fifo!ReaderRegisters, ReaderReads
<1>5. CASE ~clear /\ (~reader.valid \/ pop) /\ Fifo!Empty
  <2>1. reader' = [Fifo!ReaderSampled EXCEPT !.valid = FALSE]
    BY <1>5 DEF Fifo!ReadEdge
  <2> QED BY <1>1, <1>5, <2>1 DEF Fifo!ReaderSampled, Fifo!ReaderRegisters, ReaderReads
<1>6. CASE ~clear /\ (~reader.valid \/ pop) /\ ~Fifo!Empty
  <2>1. reader' = Fifo!Shown
    BY <1>6 DEF Fifo!ReadEdge
  <2> HIDE DEF Fifo!Slot, Fifo!Succ, Fifo!Pointers
  <2> QED BY <1>1, <1>2, <1>6, <2>1 DEF Fifo!Shown, Fifo!ReaderSampled, Fifo!ReaderRegisters, ReaderReads
<1> QED BY <1>3, <1>4, <1>5, <1>6 DEF Fifo!ReadEdge
-----------------------------------------------------------------------------
(***************************************************************************)
(* The write clock keeps the invariant.                                    *)
(***************************************************************************)
\* The types of the fields.
LEMMA Fields ==
  ASSUME Types
  PROVE  /\ disk.phase \in {"off", "request", "sector"} /\ disk.start \in BOOLEAN /\ disk.valid \in BOOLEAN
         /\ disk.done \in BOOLEAN /\ disk.left \in 0 .. SectorBytes /\ disk.file \in 0 .. FileBytes
         /\ disk.loads \in Nat
         /\ stream.epoch \in {0, 1} /\ stream.write_clear \in BOOLEAN /\ stream.overflow \in BOOLEAN
         /\ stream.finished \in BOOLEAN
         /\ tape.released \in BOOLEAN /\ tape.epoch_1 \in {0, 1} /\ tape.epoch_2 \in {0, 1}
         /\ tape.epoch_seen \in {0, 1} /\ tape.finished_1 \in BOOLEAN /\ tape.finished_2 \in BOOLEAN
         /\ tape.restart \in 0 .. 3 /\ tape.started \in BOOLEAN
         /\ player.state \in {"idle", "playing", "finished"} /\ player.taken \in Nat
         /\ reader.valid \in BOOLEAN /\ emitted \in Nat /\ ticked \in BOOLEAN
BY DEF Types, Disks, Streams, Tapes, Players, Fifo!FifoTypeOK, Fifo!ReaderRegisters

\* With every pointer at zero the FIFO is in order and empty.
LEMMA ClearRing ==
  ASSUME ReaderClear, writer.pointer = 0
  PROVE  /\ Fifo!Unread = 0
         /\ writer.read_1 = 0 /\ writer.read_2 = 0 => Fifo!RingInv /\ Fifo!Level = 0
BY DEF ReaderClear, Fifo!RingInv, Fifo!Behind, Fifo!Level, Fifo!Unread, Fifo!Ahead

\* Every edge of the write clock keeps the invariant.
LEMMA WriteKeeps ==
  ASSUME PathInv, TzxFits, ReleasedFirst', WriteEdge(DiskStart) \/ WriteEdge(DiskStep)
  PROVE  PathInv'
<1>1. /\ Types /\ DiskInv /\ HeldInv /\ FreshInv /\ CrossInv /\ BegunInv
      /\ RoomInv /\ PlayerInv /\ EndInv /\ Fifo!FifoTypeOK
  BY DEF PathInv, Types
<1>2. disk.valid => ~Fifo!Full
  BY <1>1, Fields, RingFacts DEF DiskInv, BegunInv, RoomInv, Offered
<1>3. /\ UNCHANGED <<reader, tape, player>> /\ ticked' = TRUE
      /\ stream' \in Streams /\ writer' \in Fifo!WriterRegisters /\ memory' \in [0 .. Depth - 1 -> {0}]
      /\ stream'.epoch = IF disk.start THEN 1 - stream.epoch ELSE stream.epoch
      /\ stream'.write_clear = disk.start
      /\ stream'.overflow => stream.overflow
      /\ stream'.finished <=> (stream.finished /\ ~disk.start) \/ disk.done
      /\ emitted' = IF disk.start THEN 0 ELSE emitted + Offered
      /\ IF stream.write_clear
         THEN writer'.pointer = 0 /\ writer'.read_1 = 0 /\ writer'.read_2 = 0
         ELSE /\ writer'.read_1 = reader.pointer /\ writer'.read_2 = writer.read_1
              /\ writer'.pointer = IF disk.valid THEN Fifo!Succ(writer.pointer) ELSE writer.pointer
  BY <1>1, <1>2, WriteMoves
<1>4. disk' \in Disks /\ (PicksFile \/ BeginsSector \/ SendsByte \/ EndsSector \/ Rests)
  BY <1>1, DiskMoves DEF WriteEdge
<1>5. Types'
  <2>1. emitted' \in Nat
    BY <1>1, <1>3, Fields DEF Offered
  <2> QED BY <1>1, <1>3, <1>4, <2>1 DEF Types, Fifo!FifoTypeOK
\* The epoch changes one step after a pick, and a pick finds it known to the tape clock.
<1>6. /\ ~disk.start => Joined' = Joined
      /\ disk.start => ~Joined' /\ ~Begun /\ ~disk.valid
  BY <1>1, <1>3, Fields DEF Joined, CrossInv, DiskInv, Begun
<1>7. Begun /\ ~disk'.start => Begun'
  BY <1>1, <1>4, Fields DEF Begun, PicksFile, BeginsSector, SendsByte, EndsSector, Rests
<1>8. Begun' /\ ~Begun => SendsByte /\ disk.file = FileBytes /\ tape.released
  BY <1>1, <1>3, <1>4, Fields
     DEF DiskInv, Begun, PicksFile, BeginsSector, SendsByte, EndsSector, Rests, ReleasedFirst
<1>9. Begun' => disk.loads > 0
  BY <1>1, <1>4, Fields DEF DiskInv, Begun, PicksFile, BeginsSector, SendsByte, EndsSector, Rests
\* The first byte of a load finds both ends of the FIFO cleared and the FIFO empty.
<1>10. Begun' /\ ~Begun =>
         Joined /\ ~stream.write_clear /\ ~disk.start /\ ~disk.valid /\ Fifo!RingInv /\ Fifo!Level = 0
  <2> SUFFICES ASSUME Begun', ~Begun
               PROVE  Joined /\ ~stream.write_clear /\ ~disk.start /\ ~disk.valid /\ Fifo!RingInv /\ Fifo!Level = 0
    OBVIOUS
  <2>1. SendsByte /\ EpochCrossed /\ tape.released
    BY <1>8 DEF SendsByte
  <2>2. Joined
    BY <1>1, <2>1 DEF CrossInv, EpochCrossed
  <2>3. ReaderClear /\ writer.pointer = 0 /\ writer.read_1 = 0 /\ writer.read_2 = 0
    BY <1>1, <2>1, <2>2 DEF FreshInv, SendsByte, EpochCrossed, ReaderClear
  <2> QED BY <2>1, <2>2, <2>3, ClearRing DEF SendsByte
\* While a load's bytes come, an edge of the write clock keeps the ring in order.
<1>11. Begun \/ Begun' =>
         (Begun' \/ disk'.start) /\ (Fifo!RingInv /\ ~stream.write_clear)
  BY <1>1, <1>7, <1>10 DEF BegunInv
<1>12. Begun \/ Begun' =>
         Fifo!RingInv' /\ Fifo!Level' <= Fifo!Level + Offered /\ Fifo!Unread' = Fifo!Unread + Offered
  <2> SUFFICES ASSUME Begun \/ Begun'
               PROVE  Fifo!RingInv' /\ Fifo!Level' <= Fifo!Level + Offered /\ Fifo!Unread' = Fifo!Unread + Offered
    OBVIOUS
  <2>1. Fifo!RingInv /\ ~stream.write_clear
    BY <1>11
  <2> QED BY <1>1, <1>2, <1>3, <2>1, Fields, RingWritten DEF Offered
<1>13. DiskInv'
  BY SMTT(30), <1>1, <1>3, <1>4, Fields DEF DiskInv, Begun, PicksFile, BeginsSector, SendsByte, EndsSector, Rests
<1>14. HeldInv'
  <2> SUFFICES ASSUME ~tape.released PROVE HeldInv'
    BY <1>3 DEF HeldInv
  <2>1. ~Begun /\ ~Begun'
    BY <1>1, <1>8 DEF HeldInv
  <2>2. ReaderClear' /\ writer'.read_1 = 0 /\ writer'.read_2 = 0
    BY <1>1, <1>3 DEF HeldInv, ReaderClear
  <2>3. disk'.start => stream'.epoch = 0
    BY <1>1, <1>3, <1>4, <2>1, Fields DEF HeldInv, DiskInv, Begun, PicksFile, BeginsSector, SendsByte, EndsSector, Rests
  <2>4. stream'.write_clear => stream'.epoch = 1
    BY <1>1, <1>3 DEF HeldInv
  <2> QED BY <1>1, <1>3, <2>1, <2>2, <2>3, <2>4 DEF HeldInv
<1>15. FreshInv'
  <2> SUFFICES ASSUME ~Begun' PROVE FreshInv'
    BY DEF FreshInv
  <2>1. ~disk'.start => ~Begun /\ ~disk.valid
    BY <1>1, <1>7 DEF DiskInv
  <2>2. ~disk'.start => emitted' = 0
    BY <1>1, <1>3, <2>1, Fields DEF FreshInv, Offered
  <2>3. ~disk'.start /\ ~stream'.write_clear => writer'.pointer = 0
    BY <1>1, <1>3, <2>1 DEF FreshInv
  <2>4. ~disk'.start /\ Joined' => ReaderClear'
    BY <1>1, <1>3, <1>6, <2>1 DEF FreshInv, ReaderClear
  <2>5. stream'.write_clear /\ tape'.released =>
          tape'.epoch_2 # stream'.epoch /\ tape'.epoch_1 # stream'.epoch
    BY <1>1, <1>3, Fields DEF CrossInv, Joined
  <2> QED BY <2>2, <2>3, <2>4, <2>5 DEF FreshInv
<1>16. CrossInv'
  <2> SUFFICES ASSUME tape.released PROVE CrossInv'
    BY <1>3 DEF CrossInv
  <2>1. disk'.loads > 0
    BY <1>1, <1>4, Fields DEF CrossInv, PicksFile, BeginsSector, SendsByte, EndsSector, Rests
  <2>2. disk'.start => Joined'
    BY <1>1, <1>4, <1>6, Fields
       DEF CrossInv, BegunInv, DiskInv, Begun, PicksFile, BeginsSector, SendsByte, EndsSector, Rests
  <2>3. ~Joined' => ~Begun'
    BY <1>1, <1>6, <1>8, <1>10 DEF BegunInv, SendsByte
  <2>4. ~Joined' =>
          /\ tape'.epoch_seen # stream'.epoch
          /\ tape'.epoch_2 = stream'.epoch => tape'.epoch_1 = stream'.epoch
    BY <1>1, <1>3, <1>6, Fields DEF CrossInv, Joined
  <2> QED BY <2>1, <2>2, <2>3, <2>4 DEF CrossInv
<1>17. BegunInv'
  <2> SUFFICES ASSUME Begun' PROVE BegunInv'
    BY DEF BegunInv
  <2>1. Joined /\ ~disk.start
    BY <1>1, <1>6, <1>10 DEF BegunInv
  <2> QED BY <1>3, <1>6, <1>12, <2>1 DEF BegunInv
<1>18. RoomInv'
  <2>1. ~stream'.overflow
    BY <1>1, <1>3 DEF RoomInv
  <2> SUFFICES ASSUME Begun', disk'.phase = "sector"
               PROVE  Fifo!Level' + Offered' + disk'.left <= Depth - 1
    BY <2>1 DEF RoomInv
  <2>2. Fifo!Level \in Int /\ Fifo!Level' \in Int
    <3>1. /\ writer.pointer \in Fifo!Pointers /\ writer.read_2 \in Fifo!Pointers
          /\ writer'.pointer \in Fifo!Pointers /\ writer'.read_2 \in Fifo!Pointers
      BY <1>1, <1>3, Pointers DEF Fifo!WriterRegisters
    <3>2. Fifo!Level \in Nat /\ Fifo!Level' \in Nat
      BY <3>1, DistanceIsNumber DEF Fifo!Level
    <3> QED BY <3>2
  <2>3. CASE BeginsSector
    <3>1. disk.phase = "request" /\ ~disk.valid /\ ~disk'.valid /\ Fifo!Level < PauseLevel
      BY <1>1, <2>3 DEF DiskInv, BeginsSector
    <3>2. Fifo!Level' <= Fifo!Level
      BY <1>12, <2>2, <3>1 DEF Offered
    <3>3. disk'.left = SectorBytes /\ Offered' = 0
      BY <2>3, <3>1 DEF BeginsSector, Offered
    <3>4. PauseLevel + SectorBytes <= Depth
      BY DEF TzxFits
    <3>5. Fifo!Level' + SectorBytes <= Depth - 1
      <4> DEFINE before == Fifo!Level
                 after == Fifo!Level'
      <4>1. before \in Int /\ after \in Int /\ before < PauseLevel /\ after <= before
        BY <2>2, <3>1, <3>2
      <4> HIDE DEF before, after
      <4>2. after + SectorBytes <= Depth - 1
        BY ONLY <4>1, <3>4, Constants
      <4> QED BY <4>2 DEF after
    <3>6. Fifo!Level' + 0 + SectorBytes = Fifo!Level' + SectorBytes
      BY <2>2
    <3> QED BY <3>3, <3>5, <3>6
  <2>4. CASE SendsByte /\ Begun
    BY <1>1, <1>12, <2>2, <2>4, Fields DEF RoomInv, Offered, SendsByte
  <2>5. CASE SendsByte /\ ~Begun
    BY <1>1, <1>8, <1>10, <1>12, <2>2, <2>5, Fields DEF DiskInv, Offered, SendsByte, TzxFits
  <2>6. CASE Rests
    BY <1>1, <1>8, <1>12, <2>2, <2>6, Fields DEF RoomInv, Offered, Rests, SendsByte
  <2> QED BY <1>4, <2>3, <2>4, <2>5, <2>6 DEF PicksFile, EndsSector
\* Nothing is on its way once the end has come.
<1>19. ~disk.start /\ (stream.finished \/ disk.done) /\ Joined =>
          Begun /\ ~disk.valid /\ writer'.pointer = writer.pointer
  BY <1>1, <1>3 DEF DiskInv, EndInv, BegunInv, Joined
<1>20. PlayerInv'
  <2> SUFFICES ASSUME Joined', ~disk'.start
               PROVE  /\ emitted' = Taken + Shown + Fifo!Unread'
                      /\ tape.started /\ player.state = "finished" =>
                           stream'.finished /\ ~reader.valid /\ reader.pointer = writer'.pointer
    BY <1>1, <1>3 DEF PlayerInv, Taken, Shown
  <2>1. Joined /\ ~disk.start
    BY <1>6
  <2>2. Fifo!Unread' = Fifo!Unread + Offered
    <3>1. CASE Begun
      BY <1>12, <3>1
    <3>2. CASE ~Begun
      <4>1. ReaderClear /\ writer.pointer = 0 /\ ~stream.write_clear /\ ~disk.valid
        BY <1>1, <2>1, <3>2 DEF FreshInv, DiskInv, Joined
      <4>2. ReaderClear' /\ writer'.pointer = 0
        BY <1>3, <4>1 DEF ReaderClear
      <4>3. Fifo!Unread = 0
        BY <4>1, ClearRing
      <4>4. Fifo!Unread' = 0
        BY <4>2 DEF ReaderClear, Fifo!Unread, Fifo!Ahead
      <4> QED BY <4>1, <4>3, <4>4 DEF Offered
    <3> QED BY <3>1, <3>2
  <2>3. Fifo!Unread \in Nat
    BY <1>1, Pointers, DistanceIsNumber DEF Fifo!Unread
  <2>4. emitted' = Taken + Shown + Fifo!Unread'
    <3>1. emitted = Taken + Shown + Fifo!Unread
      BY <1>1, <2>1 DEF PlayerInv
    <3>2. emitted' = emitted + Offered
      BY <1>3, <2>1
    <3>3. Taken \in Nat /\ Shown \in Nat /\ Offered \in Nat
      BY <1>1, Fields DEF Taken, Shown, Offered
    <3> DEFINE taken == Taken
               shown == Shown
               offered == Offered
               before == Fifo!Unread
               after == Fifo!Unread'
    <3>4. taken \in Nat /\ shown \in Nat /\ offered \in Nat /\ before \in Nat /\ after = before + offered
      BY <2>2, <2>3, <3>3
    <3>5. emitted = taken + shown + before /\ emitted' = emitted + offered
      BY <3>1, <3>2
    <3> HIDE DEF taken, shown, offered, before, after
    <3>6. emitted' = taken + shown + after
      BY ONLY <3>4, <3>5
    <3> QED BY <3>6 DEF taken, shown, after
  <2>5. tape.started /\ player.state = "finished" =>
          stream'.finished /\ ~reader.valid /\ reader.pointer = writer'.pointer
    BY <1>1, <1>3, <1>19, <2>1 DEF PlayerInv
  <2> QED BY <2>4, <2>5
<1>21. EndInv'
  <2> SUFFICES ASSUME ~disk'.start, tape.released PROVE EndInv'
    BY <1>3 DEF EndInv
  <2>1. /\ tape'.epoch_1 = stream'.epoch /\ tape'.finished_1 => stream'.finished
        /\ tape'.epoch_2 = stream'.epoch /\ tape'.finished_2 => tape'.finished_1
    BY <1>1, <1>3, Fields DEF EndInv, CrossInv, Joined
  <2>2. Joined' /\ (stream'.finished \/ disk'.done) =>
          Begun' /\ reader'.write_1 = writer'.pointer /\ reader'.write_2 = writer'.pointer
    <3> SUFFICES ASSUME Joined', stream'.finished \/ disk'.done
                 PROVE  Begun' /\ reader.write_1 = writer'.pointer /\ reader.write_2 = writer'.pointer
      BY <1>3
    <3>1. Joined /\ ~disk.start
      BY <1>6
    <3>2. CASE stream.finished \/ disk.done
      BY <1>1, <1>7, <1>19, <3>1, <3>2 DEF EndInv
    <3>3. CASE ~stream.finished /\ ~disk.done
      <4>1. EndsSector /\ disk.file = 0
        BY <1>3, <1>4, <3>3 DEF PicksFile, BeginsSector, SendsByte, EndsSector, Rests
      <4>2. Begun
        BY <1>1, <4>1, Fields DEF DiskInv, Begun, EndsSector
      <4>3. reader.write_2 = writer.pointer
        BY <4>1 DEF EndsSector, BytesCrossed
      <4>4. reader.write_1 = writer.pointer
        BY <1>1, <4>2, <4>3, RingFacts DEF BegunInv
      <4> QED BY <1>1, <1>3, <1>7, <4>1, <4>2, <4>3, <4>4 DEF EndsSector, BegunInv
    <3> QED BY <3>2, <3>3
  <2>3. Joined' /\ tape'.finished_1 => reader'.valid \/ reader'.pointer = writer'.pointer
    BY <1>1, <1>3, <1>6, <1>19 DEF EndInv, Joined
  <2> QED BY <2>1, <2>2, <2>3 DEF EndInv
<1> QED BY <1>5, <1>13, <1>14, <1>15, <1>16, <1>17, <1>18, <1>20, <1>21 DEF PathInv
-----------------------------------------------------------------------------
(***************************************************************************)
(* The tape clock keeps the invariant.                                     *)
(***************************************************************************)
\* Every edge of the tape clock keeps the invariant.
LEMMA TapeKeeps ==
  ASSUME PathInv, NEW wants \in BOOLEAN, NEW released \in BOOLEAN, NEW typed \in BOOLEAN,
         TapeEdge(wants, released, typed)
  PROVE  PathInv'
<1> DEFINE took == Takes(wants)
<1>1. /\ Types /\ DiskInv /\ HeldInv /\ FreshInv /\ CrossInv /\ BegunInv
      /\ RoomInv /\ PlayerInv /\ EndInv /\ Fifo!FifoTypeOK
  BY DEF PathInv, Types
<1>2. ticked /\ ticked' = FALSE /\ UNCHANGED <<disk, stream, writer, memory, emitted>>
  BY DEF TapeEdge
<1>3. /\ tape' \in Tapes
      /\ tape'.released => disk.loads > 0
      /\ Resets \/ (Samples /\ (Clears \/ Starts \/ Counts))
  BY <1>1, TapeRegistersMove
<1>4. /\ player' \in Players /\ Played(took)
      /\ took => player.state = "playing" /\ reader.valid
      /\ took \in BOOLEAN
  BY <1>1, PlayerMoves DEF TapeEdge, Takes
<1>5. /\ reader' \in Fifo!ReaderRegisters
      /\ IF ~tape.released \/ Clearing THEN ReaderClear' ELSE ReaderReads(took)
  BY <1>1, <1>4, ReaderMoves DEF TapeEdge, Clearing
<1> HIDE DEF took
<1>6. Types'
  BY <1>1, <1>2, <1>3, <1>4, <1>5 DEF Types, Fifo!FifoTypeOK
<1>7. DiskInv' /\ (Begun' <=> Begun) /\ Fifo!Level' = Fifo!Level
  BY <1>1, <1>2 DEF DiskInv, Begun, Fifo!Level
\* A load that is over has begun.
<1>8. ~disk.start /\ (stream.finished \/ disk.done) /\ disk.loads > 0 => Begun
  BY <1>1, Fields DEF DiskInv, Begun
<1>9. CASE ~tape.released
  <2>1. ~Begun /\ ReaderClear' /\ Resets /\ player'.state = "idle"
    BY <1>1, <1>3, <1>4, <1>5, <1>9 DEF HeldInv, Played, PlayerReset, Samples
  <2>2. HeldInv'
    BY <1>1, <1>2, <1>7, <1>9, <2>1 DEF HeldInv, Resets
  <2>3. FreshInv'
    BY <1>1, <1>2, <1>7, <1>9, <2>1 DEF HeldInv, FreshInv, Resets
  <2>4. CrossInv'
    BY <1>1, <1>2, <1>3, <1>7, <1>9, <2>1, Fields DEF HeldInv, CrossInv, Resets, Joined
  <2>5. BegunInv' /\ RoomInv'
    BY <1>1, <1>2, <1>7, <2>1 DEF BegunInv, RoomInv
  <2>6. Joined' /\ ~disk.start => emitted = 0 /\ writer.pointer = 0
    BY <1>1, <1>2, <1>9, <2>1 DEF HeldInv, FreshInv, Joined, Resets
  <2>7. Joined' /\ ~disk.start => Fifo!Unread' = 0
    BY <1>2, <2>1, <2>6 DEF ReaderClear, Fifo!Unread, Fifo!Ahead
  <2>8. PlayerInv'
    BY <1>2, <2>1, <2>6, <2>7 DEF PlayerInv, ReaderClear, Resets, Taken, Shown
  <2>9. EndInv'
    BY <1>2, <1>3, <1>8, <2>1 DEF EndInv, Resets
  <2> QED BY <1>6, <1>7, <2>2, <2>3, <2>4, <2>5, <2>8, <2>9 DEF PathInv
<1>10. CASE tape.released /\ Clearing
  <2>1. ~Joined /\ ~Begun /\ ~disk.start
    BY <1>1, <1>10 DEF Joined, Clearing, CrossInv
  <2>2. /\ Samples /\ Clears /\ ReaderClear'
        /\ tape.epoch_2 = stream.epoch /\ tape.epoch_1 = stream.epoch
    BY <1>1, <1>3, <1>5, <1>10, <2>1, Fields DEF CrossInv, Clearing, Resets, Starts, Counts
  <2>3. Joined'
    BY <1>2, <2>2 DEF Joined, Samples, Clears
  <2>4. emitted = 0 /\ ~stream.write_clear /\ writer.pointer = 0
    BY <1>1, <1>10, <2>1, <2>2 DEF FreshInv
  <2>5. Fifo!Unread' = 0
    BY <1>2, <2>2, <2>4 DEF ReaderClear, Fifo!Unread, Fifo!Ahead
  <2>6. ~stream.finished /\ ~disk.done
    BY <1>1, <1>8, <1>10, <2>1 DEF CrossInv
  <2>7. HeldInv' /\ FreshInv' /\ CrossInv' /\ BegunInv' /\ RoomInv'
    BY <1>1, <1>2, <1>3, <1>7, <2>1, <2>2, <2>3, <2>4
       DEF HeldInv, FreshInv, CrossInv, BegunInv, RoomInv, Samples
  <2>8. PlayerInv'
    BY <1>2, <2>2, <2>4, <2>5 DEF PlayerInv, ReaderClear, Clears, Taken, Shown
  <2>9. EndInv'
    BY <1>1, <1>2, <1>10, <2>1, <2>2, <2>6 DEF EndInv, Samples
  <2> QED BY <1>6, <1>7, <2>7, <2>8, <2>9 DEF PathInv
<1>11. CASE tape.released /\ ~Clearing
  <2>1. /\ Samples /\ (Starts \/ Counts) /\ tape'.epoch_seen = tape.epoch_seen
        /\ ReaderReads(took)
    BY <1>3, <1>5, <1>11 DEF Resets, Clears, Starts, Counts
  <2>2. tape.epoch_2 = tape.epoch_seen
    BY <1>11 DEF Clearing
\* A player that has not been started, or has just been, is idle and has taken nothing.
  <2>3. /\ ~tape'.started => ~tape.started /\ player'.state = "idle"
        /\ Starts \/ ~tape.started \/ tape.restart > 1 => player'.state = "idle" /\ player'.taken = 0
        /\ tape'.started /\ tape'.restart > 0 => player'.state = "idle" /\ player'.taken = 0
    BY <1>1, <1>4, <2>1, Fields DEF Played, PlayerReset, Starts, Counts
  <2>4. CASE ~Joined
    <3>1. ~Begun /\ ~disk.start /\ tape.epoch_seen # stream.epoch /\ ~Joined'
      BY <1>1, <1>2, <1>11, <2>1, <2>4 DEF CrossInv, Joined
    <3>2. FreshInv'
      BY <1>1, <1>2, <1>7, <1>11, <2>1, <3>1 DEF FreshInv, Samples
    <3>3. HeldInv' /\ CrossInv' /\ BegunInv' /\ RoomInv'
      BY <1>1, <1>2, <1>3, <1>7, <2>1, <3>1 DEF HeldInv, CrossInv, BegunInv, RoomInv, Samples
    <3>4. PlayerInv'
      BY <2>3, <3>1 DEF PlayerInv
    <3>5. EndInv'
      BY <1>1, <1>2, <1>11, <2>1, <3>1 DEF EndInv, Samples
    <3> QED BY <1>6, <1>7, <3>2, <3>3, <3>4, <3>5 DEF PathInv
  <2>5. CASE Joined
    <3>1. Joined'
      BY <1>2, <2>1, <2>5 DEF Joined, Samples
    <3>2. ~Begun /\ ~disk.start => ReaderClear /\ writer.pointer = 0
      BY <1>1, <2>5 DEF FreshInv, Joined
    <3>3. ~Begun /\ ~disk.start => ReaderClear'
      BY <2>1, <3>2 DEF ReaderReads, ReaderClear, Fifo!Empty
    <3> DEFINE moves == (~reader.valid \/ took) /\ ~Fifo!Empty
    <3>4. Begun => Fifo!RingInv' /\ Fifo!Unread' = Fifo!Unread - (IF moves THEN 1 ELSE 0)
      BY <1>1, <1>2, <2>1, RingRead DEF BegunInv, ReaderReads
    <3>5. ~disk.start => Fifo!Unread' = Fifo!Unread - (IF moves THEN 1 ELSE 0)
      <4>1. ASSUME ~Begun, ~disk.start
            PROVE  Fifo!Unread = 0 /\ Fifo!Unread' = 0 /\ ~moves
        BY <1>2, <3>2, <3>3, <4>1 DEF ReaderClear, Fifo!Unread, Fifo!Ahead, Fifo!Empty
      <4> QED BY <3>4, <4>1
    <3>6. HeldInv' /\ FreshInv' /\ CrossInv' /\ BegunInv' /\ RoomInv'
      BY <1>1, <1>2, <1>3, <1>7, <2>1, <2>5, <3>1, <3>3, <3>4
         DEF HeldInv, FreshInv, CrossInv, BegunInv, RoomInv, Samples, Joined, Offered
    <3>7. ~disk.start => emitted = Taken' + Shown' + Fifo!Unread'
      <4> SUFFICES ASSUME ~disk.start PROVE emitted = Taken' + Shown' + Fifo!Unread'
        OBVIOUS
      <4>1. emitted = Taken + Shown + Fifo!Unread /\ Fifo!Unread \in Nat
        BY <1>1, <2>5, Pointers, DistanceIsNumber DEF PlayerInv, Fifo!Unread
      <4>2. Taken' = Taken + (IF took THEN 1 ELSE 0)
        <5>1. CASE ~tape.started
          BY <1>1, <1>4, <2>3, <5>1 DEF PlayerInv, Taken
        <5>2. CASE tape.started /\ tape.restart > 0
          <6>1. ~took /\ player.taken = 0 /\ tape'.started
            BY <1>1, <1>4, <2>1, <5>2 DEF PlayerInv, Starts, Counts
          <6>2. player'.taken = 0
            BY <1>4, <6>1, <5>2 DEF Played
          <6> QED BY <5>2, <6>1, <6>2 DEF Taken
        <5>3. CASE tape.started /\ tape.restart = 0
          <6>1. ~PlayerReset
            BY <1>11, <5>3 DEF PlayerReset
          <6>2. ~PlayerReset /\ tape'.started
            BY <2>1, <5>3, <6>1 DEF Starts, Counts
          <6>3. player'.taken = player.taken + (IF took THEN 1 ELSE 0)
            BY <1>1, <1>4, <6>2, Fields DEF Played
          <6> QED BY <5>3, <6>2, <6>3 DEF Taken
        <5> QED BY <1>1, <5>1, <5>2, <5>3, Fields
      <4>3. Shown' = Shown - (IF took THEN 1 ELSE 0) + (IF moves THEN 1 ELSE 0)
        BY <1>4, <2>1 DEF Shown, ReaderReads
      <4> QED BY <1>1, <3>5, <4>1, <4>2, <4>3, <1>4, Fields DEF Taken, Shown
    <3>8. ~disk.start /\ stream.finished => reader.write_2 = writer.pointer /\ reader.write_1 = writer.pointer
      BY <1>1, <1>11, <2>5 DEF EndInv
    <3>9. ~disk.start /\ tape'.started /\ player'.state = "finished" =>
            stream.finished /\ ~reader.valid /\ reader.pointer = writer.pointer
      BY <1>1, <1>4, <1>11, <2>1, <2>3, <2>5 DEF PlayerInv, EndInv, Joined, Played, Starts, Counts
    <3>10. ~disk.start /\ tape'.started /\ player'.state = "finished" =>
             ~reader'.valid /\ reader'.pointer = writer.pointer
      BY <2>1, <3>8, <3>9 DEF ReaderReads, Fifo!Empty
    <3>11. PlayerInv'
      BY <1>2, <2>3, <3>7, <3>9, <3>10 DEF PlayerInv
    <3>12. EndInv'
      BY <1>1, <1>2, <1>7, <1>11, <2>1, <2>5, <3>8 DEF EndInv, Samples, Joined, ReaderReads, Fifo!Empty
    <3> QED BY <1>6, <1>7, <3>6, <3>11, <3>12 DEF PathInv
  <2> QED BY <2>4, <2>5
<1> QED BY <1>9, <1>10, <1>11
-----------------------------------------------------------------------------
(***************************************************************************)
(* The theorems.                                                           *)
(***************************************************************************)
\* It holds at first.
LEMMA PathInit ==
  ASSUME Init
  PROVE  PathInv
<1> USE DEF Init
<1>1. Types
  <2>1. disk \in Disks
    <3>1. 0 \in 0 .. SectorBytes /\ 0 \in 0 .. FileBytes
      OBVIOUS
    <3> QED BY <3>1 DEF Disks
  <2>2. stream \in Streams /\ player \in Players /\ emitted \in Nat /\ ticked \in BOOLEAN
    BY DEF Streams, Players
  <2>3. tape = [released |-> FALSE, typed |-> FALSE, epoch_1 |-> 0, epoch_2 |-> 0, epoch_seen |-> 0,
                finished_1 |-> FALSE, finished_2 |-> FALSE, restart |-> 0, started |-> FALSE]
    OBVIOUS
  <2>4. tape \in Tapes
    <3>1. 0 \in 0 .. 3
      OBVIOUS
    <3> QED BY ONLY <2>3, <3>1 DEF Tapes
  <2>5. Fifo!FifoTypeOK
    <3>1. 0 \in Fifo!Pointers
      BY DEF Fifo!Pointers
    <3>2. writer \in Fifo!WriterRegisters
      BY <3>1 DEF Fifo!FifoInit, Fifo!WriterReset, Fifo!WriterRegisters
    <3>3. reader = [pointer |-> 0, write_1 |-> 0, write_2 |-> 0, valid |-> FALSE, data |-> 0]
      BY DEF Fifo!FifoInit, Fifo!ReaderReset
    <3>4. reader \in Fifo!ReaderRegisters
      BY <3>1, <3>3 DEF Fifo!ReaderRegisters
    <3> QED BY <3>2, <3>4 DEF Fifo!FifoInit, Fifo!FifoTypeOK
  <2> QED BY <2>1, <2>2, <2>4, <2>5 DEF Types
<1>2. ReaderClear /\ writer.pointer = 0 /\ writer.read_1 = 0 /\ writer.read_2 = 0
  BY DEF Fifo!FifoInit, Fifo!ReaderReset, Fifo!WriterReset, ReaderClear
<1>3. ~Begun
  BY DEF Begun
<1>4. DiskInv
  BY DEF DiskInv
<1>5. HeldInv
  BY <1>2, <1>3 DEF HeldInv
<1>6. FreshInv /\ CrossInv /\ EndInv
  BY <1>2 DEF FreshInv, CrossInv, EndInv
<1>7. BegunInv /\ RoomInv
  BY <1>3 DEF BegunInv, RoomInv
<1>8. PlayerInv
  BY DEF PlayerInv, Joined
<1> QED BY <1>1, <1>4, <1>5, <1>6, <1>7, <1>8 DEF PathInv

\* It says nothing of what is not in the state.
LEMMA PathStutters ==
  ASSUME PathInv, UNCHANGED vars
  PROVE  PathInv'
<1> USE DEF vars
<1>1. Types'
  BY DEF PathInv, Types, Fifo!FifoTypeOK
<1>2. (Begun' <=> Begun) /\ (Joined' <=> Joined) /\ (ReaderClear' <=> ReaderClear)
  BY DEF Begun, Joined, ReaderClear
<1>3. Fifo!RingInv' = Fifo!RingInv /\ Fifo!Level' = Fifo!Level /\ Fifo!Unread' = Fifo!Unread
  BY DEF Fifo!RingInv, Fifo!Behind, Fifo!Level, Fifo!Unread
<1>4. DiskInv' /\ HeldInv' /\ FreshInv' /\ CrossInv'
  BY <1>2 DEF PathInv, DiskInv, HeldInv, FreshInv, CrossInv
<1>5. BegunInv' /\ RoomInv' /\ PlayerInv' /\ EndInv'
  BY <1>2, <1>3 DEF PathInv, BegunInv, RoomInv, PlayerInv, EndInv, Offered, Taken, Shown
<1> QED BY <1>1, <1>4, <1>5 DEF PathInv

(***************************************************************************)
(* The invariant holds of every TZX load (nexttang_tzx_stream.v:51-77).    *)
(***************************************************************************)
THEOREM PathInvariant ==
  ASSUME TzxFits
  PROVE  Spec /\ []ReleasedFirst => []PathInv
<1>1. Init => PathInv
  BY PathInit
<1>2. PathInv /\ ReleasedFirst' /\ [Next]_vars => PathInv'
  <2> SUFFICES ASSUME PathInv, ReleasedFirst', [Next]_vars PROVE PathInv'
    OBVIOUS
  <2>1. CASE WriteStep
    BY <2>1, WriteKeeps DEF WriteStep
  <2>2. CASE TapeStep
    BY <2>2, TapeKeeps DEF TapeStep
  <2>3. CASE UNCHANGED vars
    BY <2>3, PathStutters
  <2> QED BY <2>1, <2>2, <2>3 DEF Next
<1> QED BY <1>1, <1>2, PTL DEF Spec

(***************************************************************************)
(* No byte of a TZX file is refused: "The FIFO can absorb one complete     *)
(* in-flight sector after backpressure is raised", in every order of the   *)
(* two clocks and over any number of loads (nexttang_tzx_stream.v:6-7).    *)
(***************************************************************************)
THEOREM NoTzxByteRefused ==
  ASSUME TzxFits
  PROVE  Spec /\ []ReleasedFirst => [](NothingRefused /\ TzxNeverRefused)
<1>1. PathInv => NothingRefused /\ TzxNeverRefused
  <2> SUFFICES ASSUME PathInv PROVE NothingRefused
    BY DEF TzxNeverRefused
  <2>1. Types /\ DiskInv /\ BegunInv /\ RoomInv /\ Fifo!FifoTypeOK
    BY DEF PathInv, Types
  <2>2. disk.valid => ~Fifo!Full
    BY <2>1, Fields, RingFacts DEF DiskInv, BegunInv, RoomInv, Offered
  <2> QED BY <2>1, <2>2, NoTap DEF NothingRefused, RoomInv
<1> QED BY <1>1, PathInvariant, PTL

(***************************************************************************)
(* A TZX tape that has been played was played whole, without the exception *)
(* for refused bytes: the player, restarted by the new epoch, ended with   *)
(* exactly the bytes of its own load (nexttang_tzx_stream.v:45-48, 64-77). *)
(***************************************************************************)
THEOREM TzxPlayedWhole ==
  ASSUME TzxFits
  PROVE  Spec /\ []ReleasedFirst =>
           []PlayedWhole /\ [](Current /\ player.state = "finished" => player.taken = emitted)
<1>1. PathInv => PlayedWhole /\ (Current /\ player.state = "finished" => player.taken = emitted)
  <2> SUFFICES ASSUME PathInv, Current
               PROVE  /\ player.taken <= emitted
                      /\ player.state = "finished" => disk.phase = "off" /\ player.taken = emitted
    BY DEF PlayedWhole
  <2>1. Types /\ DiskInv /\ HeldInv /\ CrossInv /\ BegunInv /\ PlayerInv /\ EndInv /\ Fifo!FifoTypeOK
    BY DEF PathInv, Types
  <2>2. Joined /\ ~disk.start /\ tape.started /\ tape.released
    BY <2>1 DEF Current, HeldInv, CrossInv
  <2>3. emitted = player.taken + Shown + Fifo!Unread /\ Fifo!Unread \in Nat
    BY <2>1, <2>2, Pointers, DistanceIsNumber DEF PlayerInv, Taken, Fifo!Unread
  <2>4. player.taken <= emitted
    BY <2>1, <2>3, Fields DEF Shown
  <2>5. ASSUME player.state = "finished"
        PROVE  disk.phase = "off" /\ player.taken = emitted
    <3>1. stream.finished /\ ~reader.valid /\ reader.pointer = writer.pointer
      BY <2>1, <2>2, <2>5 DEF PlayerInv
    <3>2. Begun /\ disk.phase = "off"
      BY <2>1, <2>2, <3>1 DEF EndInv, DiskInv
    <3>3. Fifo!Unread = 0
      BY <2>1, <3>1, <3>2, RingFacts DEF BegunInv
    <3> QED BY <2>1, <2>3, <3>1, <3>2, <3>3, Fields DEF Shown
  <2> QED BY <2>4, <2>5
<1> QED BY <1>1, PathInvariant, PTL
=============================================================================
