----------------------------- MODULE SdSpiReader -----------------------------
(***************************************************************************)
(* rtl/storage/nexttang_sd_spi_reader.v: start-up of an SD card in SPI     *)
(* mode and reading of its sectors.                                        *)
(*                                                                         *)
(* A START state and the WAIT state after it are one state here, and one   *)
(* step: the exchange of one byte with the card, with what the reader does *)
(* with the byte received.  Nothing but the SPI engine acts between the    *)
(* two.  The two bytes that follow the data (the CRC) are not looked at    *)
(* and are told apart only by crc_count.                                   *)
(*                                                                         *)
(* The card is external: it may be silent, refuse or err at any byte, for  *)
(* ever, but when it says yes it has done what the command asks.           *)
(***************************************************************************)
EXTENDS Integers

CONSTANTS
  Sectors,          \* the sectors that are asked for
  SectorBytes,      \* 512
  AddressRange,     \* 2^32, scaled with SectorBytes: the width of an argument
  PowerBytes,       \* 10 bytes with the card deselected after power-up
  ResponseLimit,    \* RESPONSE_LIMIT
  InitRetries       \* INIT_RETRIES

ASSUME SdAssumption ==
  /\ Sectors \subseteq Nat /\ Sectors # {}
  /\ {SectorBytes, AddressRange, PowerBytes, ResponseLimit} \subseteq Nat \ {0}
  /\ InitRetries \in Nat

VARIABLES
  reader,   \* the registers
  asked,    \* history: the sector of the last accepted request
  medium    \* the card

vars == <<reader, asked, medium>>

Operations == {"CMD0", "CMD8", "CMD55", "ACMD41", "CMD58", "CMD16", "CMD17"}
States == {"POWER", "GAP", "COMMAND", "RESPONSE", "R7", "READY", "TOKEN",
           "DATA", "CRC", "FINISH_GAP", "ERROR"}

\* What a byte can say: nothing yet, start of data, accepted, accepted and
\* idle, illegal command (bit 2).  Bit 7 is clear in an answer to a command.
Silence == 255
Token == 254
Received == {Silence, Token, 0, 1, 5}
IsAnswer(rx) == rx < 128
Illegal(rx) == (rx \div 4) % 2 = 1

Hcs == 1073741824     \* 32'h40000000: the host supports high capacity
Pattern == 426        \* 32'h000001aa

Init ==
  /\ reader = [state |-> "POWER", operation |-> "CMD0", argument |-> 0,
               index |-> 0, power |-> 0, responses |-> 0, extra |-> 0,
               retries |-> 0, v2 |-> FALSE, high_capacity |-> FALSE,
               data |-> 0, crc |-> 0, cs |-> TRUE, fast |-> FALSE,
               ready |-> FALSE, busy |-> TRUE, error |-> FALSE,
               byte_valid |-> FALSE, read_done |-> FALSE]
  /\ asked \in Sectors
  /\ medium \in [v2 : BOOLEAN, hc : BOOLEAN, idle : {FALSE},
                 length : {0, SectorBytes}, serving : {-1}, released : {FALSE}]
  /\ medium.hc => medium.v2

(***************************************************************************)
(* The steps of the reader.  Quiet drops the two pulses, as every edge     *)
(* does; Begin is the task begin_command.                                  *)
(***************************************************************************)
Quiet == [reader EXCEPT !.byte_valid = FALSE, !.read_done = FALSE]

\* Mutant: the command goes out at once, the card is never deselected.
BeginWithoutGap(registers, operation, argument) ==
  [registers EXCEPT !.operation = operation, !.argument = argument,
                    !.index = 0, !.responses = 0,
                    !.cs = FALSE, !.state = "COMMAND"]

Begin(registers, operation, argument) ==
  [registers EXCEPT !.operation = operation, !.argument = argument,
                    !.index = 0, !.responses = 0,
                    !.cs = TRUE, !.state = "GAP"]

Failed == [Quiet EXCEPT !.state = "ERROR"]
BecomeReady(registers) ==
  [registers EXCEPT !.ready = TRUE, !.busy = FALSE, !.cs = TRUE, !.state = "READY"]

\* Mutant: a silent card is asked again without counting.
RetryForEver(operation, argument) == Begin(Quiet, operation, argument)

\* Mutant: one retry more than the counter is meant for.
RetryOnceMore(operation, argument) ==
  IF reader.retries <= InitRetries
  THEN Begin([Quiet EXCEPT !.retries = @ + 1], operation, argument)
  ELSE Failed

\* Try again while retries are left.
Retry(operation, argument) ==
  IF reader.retries < InitRetries
  THEN Begin([Quiet EXCEPT !.retries = @ + 1], operation, argument)
  ELSE Failed

Power ==
  /\ reader.state = "POWER"
  /\ reader' = IF reader.power = PowerBytes - 1
               THEN Begin([Quiet EXCEPT !.power = 0], "CMD0", 0)
               ELSE [Quiet EXCEPT !.power = @ + 1]

Gap ==
  /\ reader.state = "GAP"
  /\ reader' = [Quiet EXCEPT !.cs = FALSE, !.state = "COMMAND"]

Command ==
  /\ reader.state = "COMMAND"
  /\ reader' = IF reader.index = 5
               THEN [Quiet EXCEPT !.state = "RESPONSE"]
               ELSE [Quiet EXCEPT !.index = @ + 1]

(***************************************************************************)
(* The first byte without bit 7 answers the command.                       *)
(***************************************************************************)
Answers(operation, rx) ==
  reader.state = "RESPONSE" /\ reader.operation = operation /\ IsAnswer(rx)

GoIdle(rx) ==
  /\ Answers("CMD0", rx)
  /\ reader' = IF rx = 1 THEN Begin([Quiet EXCEPT !.retries = 0], "CMD8", Pattern)
               ELSE Retry("CMD0", 0)

InterfaceCondition(rx) ==
  /\ Answers("CMD8", rx)
  /\ reader' = IF Illegal(rx)
               THEN Begin([Quiet EXCEPT !.v2 = FALSE], "CMD55", 0)
               ELSE [Quiet EXCEPT !.v2 = TRUE, !.extra = 0, !.state = "R7"]

ApplicationCommand(rx) ==
  /\ Answers("CMD55", rx)
  /\ reader' = IF rx <= 1 THEN Begin(Quiet, "ACMD41", IF reader.v2 THEN Hcs ELSE 0)
               ELSE Failed

OperatingCondition(rx) ==
  /\ Answers("ACMD41", rx)
  /\ reader' = IF rx = 0 THEN Begin(Quiet, "CMD58", 0)
               ELSE IF rx = 1 THEN Retry("CMD55", 0)
               ELSE Failed

ReadOcr(rx) ==
  /\ Answers("CMD58", rx)
  /\ reader' = IF rx = 0 THEN [Quiet EXCEPT !.extra = 0, !.state = "R7"] ELSE Failed

SetBlockLength(rx) ==
  /\ Answers("CMD16", rx)
  /\ reader' = IF rx = 0 THEN BecomeReady(Quiet) ELSE Failed

ReadBlock(rx) ==
  /\ Answers("CMD17", rx)
  /\ reader' = IF rx = 0 THEN [Quiet EXCEPT !.responses = 0, !.state = "TOKEN"]
               ELSE Failed

NoAnswerYet(rx) ==
  /\ reader.state = "RESPONSE" /\ ~IsAnswer(rx)
  /\ reader' = IF reader.responses < ResponseLimit - 1
               THEN [Quiet EXCEPT !.responses = @ + 1]
               ELSE IF reader.operation = "CMD0" THEN Retry("CMD0", 0)
               ELSE Failed

(***************************************************************************)
(* Four more bytes after CMD8 (the echo of the pattern) and after CMD58    *)
(* (the OCR, whose bit 30 says how the card is addressed).                 *)
(***************************************************************************)
ExtraByte ==
  /\ reader.state = "R7" /\ reader.extra < 3
  /\ reader' = [Quiet EXCEPT !.extra = @ + 1]

Echo(same) ==
  /\ reader.state = "R7" /\ reader.extra = 3 /\ reader.operation = "CMD8"
  /\ reader' = IF same THEN Begin(Quiet, "CMD55", 0) ELSE Failed

\* Mutant: a standard card is used with the block length it comes with.
OcrUnsized(ccs) ==
  /\ reader.state = "R7" /\ reader.extra = 3 /\ reader.operation = "CMD58"
  /\ reader' = BecomeReady([Quiet EXCEPT !.high_capacity = ccs, !.fast = TRUE])

Ocr(ccs) ==
  /\ reader.state = "R7" /\ reader.extra = 3 /\ reader.operation = "CMD58"
  /\ LET known == [Quiet EXCEPT !.high_capacity = ccs, !.fast = TRUE]
     IN  reader' = IF ccs THEN BecomeReady(known)
                   ELSE Begin(known, "CMD16", SectorBytes)

(***************************************************************************)
(* A sector: the request, the token, the bytes, the CRC and a last byte    *)
(* with the card deselected.                                               *)
(***************************************************************************)
\* Mutant: every card is addressed by blocks.
AddressByBlock(sector) == sector % AddressRange

Address(sector) ==
  IF reader.high_capacity THEN sector % AddressRange
  ELSE (sector * SectorBytes) % AddressRange

ReadStart(sector) ==
  /\ reader.state = "READY"
  /\ reader' = Begin([Quiet EXCEPT !.ready = FALSE, !.busy = TRUE, !.data = 0],
                     "CMD17", Address(sector))
  /\ asked' = sector

Rest ==
  /\ reader.state = "READY"
  /\ reader' = BecomeReady(Quiet)

TokenByte(rx) ==
  /\ reader.state = "TOKEN"
  /\ reader' = IF rx = Token THEN [Quiet EXCEPT !.data = 0, !.state = "DATA"]
               ELSE IF rx # Silence \/ reader.responses = ResponseLimit - 1 THEN Failed
               ELSE [Quiet EXCEPT !.responses = @ + 1]

\* Mutant: the sector ends one byte early.
DataByteShort ==
  /\ reader.state = "DATA"
  /\ LET shown == [Quiet EXCEPT !.byte_valid = TRUE]
     IN  reader' = IF reader.data = SectorBytes - 2
                   THEN [shown EXCEPT !.crc = 0, !.state = "CRC"]
                   ELSE [shown EXCEPT !.data = @ + 1]

DataByte ==
  /\ reader.state = "DATA"
  /\ LET shown == [Quiet EXCEPT !.byte_valid = TRUE]
     IN  reader' = IF reader.data = SectorBytes - 1
                   THEN [shown EXCEPT !.crc = 0, !.state = "CRC"]
                   ELSE [shown EXCEPT !.data = @ + 1]

CrcByte ==
  /\ reader.state = "CRC"
  /\ reader' = IF reader.crc = 1 THEN [Quiet EXCEPT !.cs = TRUE, !.state = "FINISH_GAP"]
               ELSE [Quiet EXCEPT !.crc = 1]

FinishGap ==
  /\ reader.state = "FINISH_GAP"
  /\ reader' = [Quiet EXCEPT !.read_done = TRUE, !.ready = TRUE, !.busy = FALSE,
                             !.state = "READY"]

ShowError ==
  /\ reader.state = "ERROR"
  /\ reader' = [Quiet EXCEPT !.ready = FALSE, !.busy = FALSE, !.error = TRUE, !.cs = TRUE]

(***************************************************************************)
(* What the card does with the byte it has just been clocked for.          *)
(***************************************************************************)
Selected == reader.cs = FALSE

Says(operation, rx) == Answers(operation, rx) /\ Selected

\* Only a card of version 2 knows CMD8, and one of high capacity starts up
\* only for a host that says it supports it.
Truthful(rx) ==
  /\ Says("CMD8", rx) /\ ~Illegal(rx) => medium.v2
  /\ Says("ACMD41", rx) /\ rx = 0 /\ medium.hc => reader.argument = Hcs

Served(rx) ==
  [medium EXCEPT
     !.released = ~Selected,
     !.idle   = IF Says("CMD0", rx) /\ rx = 1 THEN TRUE
                ELSE IF Says("ACMD41", rx) /\ rx = 0 THEN FALSE
                ELSE @,
     !.length = IF Says("CMD16", rx) /\ rx = 0 THEN reader.argument ELSE @,
     !.serving = IF Says("CMD17", rx) /\ rx = 0
                 THEN IF medium.hc THEN reader.argument ELSE reader.argument \div SectorBytes
                 ELSE @]

(***************************************************************************)
(* One byte, and one edge of the clock while none is exchanged.            *)
(***************************************************************************)
Exchange ==
  /\ \E rx \in Received :
       /\ Truthful(rx)
       /\ medium' = Served(rx)
       /\ \/ Power \/ Gap \/ Command
          \/ GoIdle(rx) \/ InterfaceCondition(rx) \/ ApplicationCommand(rx)
          \/ OperatingCondition(rx) \/ ReadOcr(rx) \/ SetBlockLength(rx)
          \/ ReadBlock(rx) \/ NoAnswerYet(rx)
          \/ ExtraByte \/ Ocr(medium.hc) \/ \E same \in BOOLEAN : Echo(same)
          \/ TokenByte(rx) \/ DataByte \/ CrcByte \/ FinishGap
  /\ UNCHANGED asked

Request ==
  /\ \E sector \in Sectors : ReadStart(sector)
  /\ UNCHANGED medium

NoRequest == (Rest \/ ShowError) /\ UNCHANGED <<asked, medium>>

Next == Exchange \/ Request \/ NoRequest

Spec == Init /\ [][Next]_vars

\* The clock runs and the SPI engine clocks a byte through whatever the card does.
FairSpec == Spec /\ WF_vars(Exchange) /\ WF_vars(NoRequest)
-----------------------------------------------------------------------------
TypeOK ==
  /\ reader \in [state : States, operation : Operations, argument : Nat,
                 index : 0..5, power : 0..PowerBytes - 1,
                 responses : 0..ResponseLimit - 1, extra : 0..3,
                 retries : 0..InitRetries, v2 : BOOLEAN, high_capacity : BOOLEAN,
                 data : 0..SectorBytes - 1, crc : 0..1, cs : BOOLEAN,
                 fast : BOOLEAN, ready : BOOLEAN, busy : BOOLEAN, error : BOOLEAN,
                 byte_valid : BOOLEAN, read_done : BOOLEAN]
  /\ asked \in Sectors
  /\ medium \in [v2 : BOOLEAN, hc : BOOLEAN, idle : BOOLEAN,
                 length : {0, SectorBytes}, serving : -1..AddressRange - 1,
                 released : BOOLEAN]

(***************************************************************************)
(* The comment of begin_command (l.107-109): whatever ended the previous   *)
(* command (an answer, a time-out, the data of a sector), the card is      *)
(* clocked for at least a byte while deselected before the next command,   *)
(* and is selected when the command goes out.                              *)
(***************************************************************************)
GapBeforeCommand ==
  reader.state = "COMMAND" /\ reader.index = 0 => medium.released /\ Selected

\* When the reader says that it is ready, the card has left the idle state, both
\* know how sectors are addressed and how long they are, and the fast clock has not
\* been used before.
ReadyMeansAgreed ==
  /\ reader.ready =>
       /\ ~medium.idle
       /\ medium.hc = reader.high_capacity
       /\ medium.hc \/ medium.length = SectorBytes
  /\ reader.fast => ~medium.idle

\* The bytes shown are those of the sector that was asked for, for both ways of
\* addressing and as far as an argument reaches.
Reachable(sector) ==
  sector < IF medium.hc THEN AddressRange ELSE AddressRange \div SectorBytes

RightSector ==
  reader.state = "DATA" /\ Reachable(asked) => medium.serving = asked

(***************************************************************************)
(* Reader and card agree, whatever kind of card it is: on how to address   *)
(* it when it is ready, and on the sector while it is read.                *)
(***************************************************************************)
CardAgrees == ReadyMeansAgreed /\ RightSector

(***************************************************************************)
(* Start-up and every read end, ready or in error, whatever the card does: *)
(* the waits and the retries, also of the two-command start-up loop, are   *)
(* bounded together.                                                       *)
(***************************************************************************)
BusyEnds == reader.busy ~> ~reader.busy

(***************************************************************************)
(* The reader keeps the promise its users are modelled with: a request is  *)
(* taken only when ready, then every byte once, in order, then done.       *)
(***************************************************************************)
Promise == INSTANCE SectorReader WITH
  status <- IF reader.state = "ERROR" THEN "failed"
            ELSE IF reader.ready THEN "ready"
            ELSE IF reader.operation = "CMD17" THEN "reading"
            ELSE "starting",
  sector <- asked,
  given  <- IF reader.state = "READY" THEN 0
            ELSE IF reader.state \in {"CRC", "FINISH_GAP"} THEN SectorBytes
            ELSE reader.data,
  event  <- IF reader.byte_valid THEN "byte"
            ELSE IF reader.read_done THEN "done"
            ELSE "none"

IsSectorReader == Promise!Spec
=============================================================================
