-------------------------- MODULE SdSpiReaderProofs --------------------------
(***************************************************************************)
(* For every set of sectors, size of a sector, width of an argument and    *)
(* limit: the card is released before each command, reader and card agree, *)
(* and the reader keeps the promise of a sector reader.                    *)
(***************************************************************************)
EXTENDS SdSpiReader, TLAPS

Registers ==
  [state : States, operation : Operations, argument : Nat,
   index : 0..5, power : 0..PowerBytes - 1,
   responses : 0..ResponseLimit - 1, extra : 0..3,
   retries : 0..InitRetries, v2 : BOOLEAN, high_capacity : BOOLEAN,
   data : 0..SectorBytes - 1, crc : 0..1, cs : BOOLEAN,
   fast : BOOLEAN, ready : BOOLEAN, busy : BOOLEAN, error : BOOLEAN,
   byte_valid : BOOLEAN, read_done : BOOLEAN]

StartUp == {"CMD0", "CMD8", "CMD55", "ACMD41"}

\* The chip select and the operation at each state of the reader.
Wires ==
  /\ reader.state \in {"POWER", "GAP", "READY", "FINISH_GAP"} => reader.cs
  /\ reader.state \in {"COMMAND", "RESPONSE", "R7", "TOKEN", "DATA", "CRC"} => ~reader.cs
  /\ reader.state = "COMMAND" /\ reader.index = 0 => medium.released
  /\ reader.state = "POWER" => reader.operation = "CMD0"
  /\ reader.state = "R7" => reader.operation \in {"CMD8", "CMD58"}
  /\ reader.state = "READY" => reader.operation \in {"CMD58", "CMD16", "CMD17"}
  /\ reader.state \in {"TOKEN", "DATA", "CRC", "FINISH_GAP"} => reader.operation = "CMD17"
  /\ reader.ready <=> reader.state = "READY"
  /\ reader.state \in {"POWER", "GAP", "COMMAND", "RESPONSE", "R7", "TOKEN"} => reader.data = 0
  /\ reader.busy => reader.state # "READY"
  /\ ~reader.byte_valid \/ ~reader.read_done

\* What the start-up has settled with the card, operation by operation.
Settled ==
  /\ reader.operation \in StartUp => ~reader.fast
  /\ reader.operation \notin StartUp => ~medium.idle
  /\ reader.operation \in {"CMD16", "CMD17"} \/ reader.ready => reader.high_capacity = medium.hc
  /\ reader.operation = "CMD16" => reader.argument = SectorBytes
  /\ reader.operation = "CMD17" \/ reader.ready => medium.hc \/ medium.length = SectorBytes

\* The address that went out, and what the card makes of it.
Addressed ==
  /\ reader.operation = "CMD17" => reader.argument = Address(asked)
  /\ reader.state \in {"TOKEN", "DATA"} =>
       medium.serving = IF medium.hc THEN reader.argument ELSE reader.argument \div SectorBytes

SdInv == TypeOK /\ Wires /\ Settled /\ Addressed

LEMMA Constants ==
  /\ SectorBytes \in Nat /\ SectorBytes > 0 /\ AddressRange \in Nat /\ AddressRange > 0
  /\ PowerBytes \in Nat /\ PowerBytes > 0 /\ ResponseLimit \in Nat /\ ResponseLimit > 0
  /\ InitRetries \in Nat /\ Sectors \subseteq Nat
BY SdAssumption

USE Constants

LEMMA Ranges ==
  /\ 0 \in 0..5 /\ 0 \in 0..3 /\ 0 \in 0..1 /\ 1 \in 0..1
  /\ 0 \in 0..PowerBytes - 1 /\ 0 \in 0..ResponseLimit - 1 /\ 0 \in 0..InitRetries
  /\ 0 \in 0..SectorBytes - 1
OBVIOUS

(***************************************************************************)
(* The registers keep their types.                                         *)
(***************************************************************************)
LEMMA QuietType == reader \in Registers => Quiet \in Registers
BY DEF Registers, Quiet

LEMMA FailedType == reader \in Registers => Failed \in Registers
BY QuietType DEF Registers, Failed, States

LEMMA BeginType ==
  ASSUME NEW r \in Registers, NEW o \in Operations, NEW a \in Nat
  PROVE  Begin(r, o, a) \in Registers
BY Ranges DEF Registers, Begin, States

LEMMA ReadyType ==
  ASSUME NEW r \in Registers
  PROVE  BecomeReady(r) \in Registers
BY DEF Registers, BecomeReady, States

LEMMA RetryType ==
  ASSUME reader \in Registers, NEW o \in Operations, NEW a \in Nat
  PROVE  Retry(o, a) \in Registers
<1>1. CASE reader.retries < InitRetries
  <2> DEFINE r == [Quiet EXCEPT !.retries = @ + 1]
  <2>1. Quiet.retries + 1 \in 0..InitRetries
    BY <1>1 DEF Registers, Quiet
  <2>2. r \in Registers
    BY <2>1, QuietType DEF Registers
  <2> HIDE DEF r
  <2>3. Begin(r, o, a) \in Registers
    BY <2>2, BeginType
  <2> QED BY <1>1, <2>3 DEF Retry, r
<1>2. CASE ~(reader.retries < InitRetries)
  BY <1>2, FailedType DEF Retry
<1> QED BY <1>1, <1>2

LEMMA CommandConstants ==
  /\ {"CMD0", "CMD8", "CMD55", "ACMD41", "CMD58", "CMD16", "CMD17"} \subseteq Operations
  /\ Pattern \in Nat /\ Hcs \in Nat
  /\ \A sector \in Sectors : Address(sector) \in 0..AddressRange - 1
<1>1. \A n \in Nat : n % AddressRange \in 0..AddressRange - 1
  OBVIOUS
<1>2. ASSUME NEW sector \in Sectors PROVE sector \in Nat /\ sector * SectorBytes \in Nat
  OBVIOUS
<1>3. \A sector \in Sectors : Address(sector) \in 0..AddressRange - 1
  BY <1>1, <1>2, Zenon DEF Address
<1> QED BY <1>3 DEF Operations, Pattern, Hcs

\* What the reader may do with the byte it received.
Acts(rx) ==
  \/ Power \/ Gap \/ Command
  \/ GoIdle(rx) \/ InterfaceCondition(rx) \/ ApplicationCommand(rx)
  \/ OperatingCondition(rx) \/ ReadOcr(rx) \/ SetBlockLength(rx)
  \/ ReadBlock(rx) \/ NoAnswerYet(rx)
  \/ ExtraByte \/ Ocr(medium.hc) \/ (\E same \in BOOLEAN : Echo(same))
  \/ TokenByte(rx) \/ DataByte \/ CrcByte \/ FinishGap

LEMMA ExchangeActs ==
  Exchange => \E rx \in Received : Truthful(rx) /\ medium' = Served(rx) /\ Acts(rx) /\ asked' = asked
BY DEF Exchange, Acts

LEMMA ActsType ==
  ASSUME reader \in Registers, medium.hc \in BOOLEAN, NEW rx \in Received, Acts(rx)
  PROVE  reader' \in Registers
<1> USE CommandConstants, QuietType, FailedType, Ranges
<1>1. CASE Power
  <2>1. CASE reader.power = PowerBytes - 1
    <3> DEFINE q == [Quiet EXCEPT !.power = 0]
    <3>1. q \in Registers
      BY DEF Registers
    <3> HIDE DEF q
    <3>2. Begin(q, "CMD0", 0) \in Registers
      BY <3>1, BeginType
    <3> QED BY <1>1, <2>1, <3>2 DEF Power, q
  <2>2. CASE reader.power # PowerBytes - 1
    <3>1. Quiet.power + 1 \in 0..PowerBytes - 1
      BY <2>2 DEF Registers, Quiet
    <3> QED BY <1>1, <2>2, <3>1 DEF Power, Registers
  <2> QED BY <2>1, <2>2
<1>2. CASE Gap
  BY ZenonT(60), <1>2 DEF Gap, Registers, States
<1>3. CASE Command
  <2>1. CASE reader.index = 5
    BY <1>3, <2>1 DEF Command, Registers, States
  <2>2. CASE reader.index # 5
    <3>1. Quiet.index + 1 \in 0..5
      BY <2>2 DEF Registers, Quiet
    <3> QED BY <1>3, <2>2, <3>1 DEF Command, Registers
  <2> QED BY <2>1, <2>2
<1>4. CASE GoIdle(rx)
  <2> DEFINE q == [Quiet EXCEPT !.retries = 0]
  <2>1. q \in Registers
    BY DEF Registers
  <2> HIDE DEF q
  <2>2. Begin(q, "CMD8", Pattern) \in Registers
    BY <2>1, BeginType
  <2> QED BY <1>4, <2>2, RetryType DEF GoIdle, q
<1>5. CASE InterfaceCondition(rx)
  <2> DEFINE q == [Quiet EXCEPT !.v2 = FALSE]
  <2>1. q \in Registers /\ [Quiet EXCEPT !.v2 = TRUE, !.extra = 0, !.state = "R7"] \in Registers
    BY ZenonT(60) DEF Registers, States
  <2> HIDE DEF q
  <2>2. Begin(q, "CMD55", 0) \in Registers
    BY <2>1, BeginType
  <2> QED BY <1>5, <2>1, <2>2 DEF InterfaceCondition, q
<1>6. CASE ApplicationCommand(rx)
  <2>1. Begin(Quiet, "ACMD41", IF reader.v2 THEN Hcs ELSE 0) \in Registers
    BY BeginType
  <2> QED BY <1>6, <2>1 DEF ApplicationCommand
<1>7. CASE OperatingCondition(rx)
  BY <1>7, BeginType, RetryType DEF OperatingCondition
<1>8. CASE ReadOcr(rx)
  <2>1. [Quiet EXCEPT !.extra = 0, !.state = "R7"] \in Registers
    BY DEF Registers, States
  <2> QED BY <1>8, <2>1 DEF ReadOcr
<1>9. CASE SetBlockLength(rx)
  BY <1>9, ReadyType DEF SetBlockLength
<1>10. CASE ReadBlock(rx)
  <2>1. [Quiet EXCEPT !.responses = 0, !.state = "TOKEN"] \in Registers
    BY DEF Registers, States
  <2> QED BY <1>10, <2>1 DEF ReadBlock
<1>11. reader.responses < ResponseLimit - 1 => [Quiet EXCEPT !.responses = @ + 1] \in Registers
  <2>1. reader.responses < ResponseLimit - 1 => Quiet.responses + 1 \in 0..ResponseLimit - 1
    BY DEF Registers, Quiet
  <2> QED BY <2>1 DEF Registers
<1>12. CASE NoAnswerYet(rx)
  BY <1>11, <1>12, RetryType DEF NoAnswerYet
<1>13. CASE ExtraByte
  <2>1. Quiet.extra + 1 \in 0..3
    BY <1>13 DEF Registers, Quiet, ExtraByte
  <2> QED BY <1>13, <2>1 DEF ExtraByte, Registers
<1>14. CASE Ocr(medium.hc)
  <2> DEFINE q == [Quiet EXCEPT !.high_capacity = medium.hc, !.fast = TRUE]
  <2>1. q \in Registers
    BY DEF Registers
  <2> HIDE DEF q
  <2>2. Begin(q, "CMD16", SectorBytes) \in Registers /\ BecomeReady(q) \in Registers
    BY <2>1, BeginType, ReadyType
  <2> QED BY <1>14, <2>2 DEF Ocr, q
<1>15. CASE \E same \in BOOLEAN : Echo(same)
  BY <1>15, BeginType DEF Echo
<1>16. CASE TokenByte(rx)
  <2>1. [Quiet EXCEPT !.data = 0, !.state = "DATA"] \in Registers
    BY DEF Registers, States
  <2>2. reader.responses # ResponseLimit - 1 => reader.responses < ResponseLimit - 1
    BY DEF Registers
  <2> QED BY <1>11, <1>16, <2>1, <2>2 DEF TokenByte
<1>17. CASE DataByte
  <2> DEFINE shown == [Quiet EXCEPT !.byte_valid = TRUE]
  <2>1. shown \in Registers
    BY DEF Registers
  <2>2. reader.data # SectorBytes - 1 => shown.data + 1 \in 0..SectorBytes - 1
    BY DEF Registers, Quiet
  <2> HIDE DEF shown
  <2>3. [shown EXCEPT !.crc = 0, !.state = "CRC"] \in Registers
    BY <2>1 DEF Registers, States
  <2>4. reader.data # SectorBytes - 1 => [shown EXCEPT !.data = @ + 1] \in Registers
    BY <2>1, <2>2 DEF Registers
  <2> QED BY <1>17, <2>3, <2>4 DEF DataByte, shown
<1>18. CASE CrcByte
  <2>1. [Quiet EXCEPT !.cs = TRUE, !.state = "FINISH_GAP"] \in Registers /\ [Quiet EXCEPT !.crc = 1] \in Registers
    BY DEF Registers, States
  <2> QED BY <1>18, <2>1 DEF CrcByte
<1>19. CASE FinishGap
  BY ZenonT(60), <1>19 DEF FinishGap, Registers, States
<1> QED
  BY <1>1, <1>2, <1>3, <1>4, <1>5, <1>6, <1>7, <1>8, <1>9, <1>10, <1>12, <1>13, <1>14, <1>15, <1>16,
     <1>17, <1>18, <1>19 DEF Acts

LEMMA ActsWires ==
  ASSUME SdInv, NEW rx \in Received, Truthful(rx), medium' = Served(rx), asked' = asked, Acts(rx)
  PROVE  Wires'
<1> USE DEF SdInv, TypeOK, Registers, Quiet, Begin, Failed, BecomeReady, Retry, Wires, Served, Selected, Answers, Says, IsAnswer
<1>1. CASE Power
  BY <1>1 DEF Power
<1>2. CASE Gap
  BY <1>2 DEF Gap
<1>3. CASE Command
  BY <1>3 DEF Command
<1>4. CASE GoIdle(rx)
  BY <1>4 DEF GoIdle
<1>5. CASE InterfaceCondition(rx)
  BY <1>5 DEF InterfaceCondition
<1>6. CASE ApplicationCommand(rx)
  BY <1>6 DEF ApplicationCommand
<1>7. CASE OperatingCondition(rx)
  BY <1>7 DEF OperatingCondition
<1>8. CASE ReadOcr(rx)
  BY <1>8 DEF ReadOcr
<1>9. CASE SetBlockLength(rx)
  BY <1>9 DEF SetBlockLength
<1>10. CASE ReadBlock(rx)
  BY <1>10 DEF ReadBlock
<1>11. CASE NoAnswerYet(rx)
  BY <1>11 DEF NoAnswerYet
<1>12. CASE ExtraByte
  BY <1>12 DEF ExtraByte
<1>13. CASE Ocr(medium.hc)
  BY <1>13 DEF Ocr
<1>14. CASE \E same \in BOOLEAN : Echo(same)
  BY <1>14 DEF Echo
<1>15. CASE TokenByte(rx)
  BY <1>15 DEF TokenByte
<1>16. CASE DataByte
  BY <1>16 DEF DataByte
<1>17. CASE CrcByte
  BY <1>17 DEF CrcByte
<1>18. CASE FinishGap
  BY <1>18 DEF FinishGap
<1> QED
  BY <1>1, <1>2, <1>3, <1>4, <1>5, <1>6, <1>7, <1>8, <1>9, <1>10, <1>11, <1>12, <1>13, <1>14, <1>15, <1>16, <1>17, <1>18 DEF Acts

LEMMA ActsSettled ==
  ASSUME SdInv, NEW rx \in Received, Truthful(rx), medium' = Served(rx), asked' = asked, Acts(rx)
  PROVE  Settled'
<1> USE DEF SdInv, TypeOK, Registers, Quiet, Begin, Failed, BecomeReady, Retry, Wires, Settled, Served, Selected, Answers, Says, IsAnswer, Truthful, StartUp
<1>1. CASE Power
  BY <1>1 DEF Power
<1>2. CASE Gap
  BY <1>2 DEF Gap
<1>3. CASE Command
  BY <1>3 DEF Command
<1>4. CASE GoIdle(rx)
  BY <1>4 DEF GoIdle
<1>5. CASE InterfaceCondition(rx)
  BY <1>5 DEF InterfaceCondition
<1>6. CASE ApplicationCommand(rx)
  BY <1>6 DEF ApplicationCommand
<1>7. CASE OperatingCondition(rx)
  BY <1>7 DEF OperatingCondition
<1>8. CASE ReadOcr(rx)
  BY <1>8 DEF ReadOcr
<1>9. CASE SetBlockLength(rx)
  BY <1>9 DEF SetBlockLength
<1>10. CASE ReadBlock(rx)
  BY <1>10 DEF ReadBlock
<1>11. CASE NoAnswerYet(rx)
  BY <1>11 DEF NoAnswerYet
<1>12. CASE ExtraByte
  BY <1>12 DEF ExtraByte
<1>13. CASE Ocr(medium.hc)
  BY <1>13 DEF Ocr
<1>14. CASE \E same \in BOOLEAN : Echo(same)
  BY <1>14 DEF Echo
<1>15. CASE TokenByte(rx)
  BY <1>15 DEF TokenByte
<1>16. CASE DataByte
  BY <1>16 DEF DataByte
<1>17. CASE CrcByte
  BY <1>17 DEF CrcByte
<1>18. CASE FinishGap
  BY <1>18 DEF FinishGap
<1> QED
  BY <1>1, <1>2, <1>3, <1>4, <1>5, <1>6, <1>7, <1>8, <1>9, <1>10, <1>11, <1>12, <1>13, <1>14, <1>15, <1>16, <1>17, <1>18 DEF Acts

LEMMA ActsAddressed ==
  ASSUME SdInv, NEW rx \in Received, Truthful(rx), medium' = Served(rx), asked' = asked, Acts(rx)
  PROVE  Addressed'
<1> USE DEF SdInv, TypeOK, Registers, Quiet, Begin, Failed, BecomeReady, Retry, Wires, Settled, Addressed, Served, Selected, Answers, Says, IsAnswer, StartUp, Address
<1>1. CASE Power
  BY <1>1 DEF Power
<1>2. CASE Gap
  BY <1>2 DEF Gap
<1>3. CASE Command
  BY <1>3 DEF Command
<1>4. CASE GoIdle(rx)
  BY <1>4 DEF GoIdle
<1>5. CASE InterfaceCondition(rx)
  BY <1>5 DEF InterfaceCondition
<1>6. CASE ApplicationCommand(rx)
  BY <1>6 DEF ApplicationCommand
<1>7. CASE OperatingCondition(rx)
  BY <1>7 DEF OperatingCondition
<1>8. CASE ReadOcr(rx)
  BY <1>8 DEF ReadOcr
<1>9. CASE SetBlockLength(rx)
  BY <1>9 DEF SetBlockLength
<1>10. CASE ReadBlock(rx)
  BY <1>10 DEF ReadBlock
<1>11. CASE NoAnswerYet(rx)
  BY <1>11 DEF NoAnswerYet
<1>12. CASE ExtraByte
  BY <1>12 DEF ExtraByte
<1>13. CASE Ocr(medium.hc)
  BY <1>13 DEF Ocr
<1>14. CASE \E same \in BOOLEAN : Echo(same)
  BY <1>14 DEF Echo
<1>15. CASE TokenByte(rx)
  BY <1>15 DEF TokenByte
<1>16. CASE DataByte
  BY <1>16 DEF DataByte
<1>17. CASE CrcByte
  BY <1>17 DEF CrcByte
<1>18. CASE FinishGap
  BY <1>18 DEF FinishGap
<1> QED
  BY <1>1, <1>2, <1>3, <1>4, <1>5, <1>6, <1>7, <1>8, <1>9, <1>10, <1>11, <1>12, <1>13, <1>14, <1>15, <1>16, <1>17, <1>18 DEF Acts

(***************************************************************************)
(* Division by the length of a sector.                                     *)
(***************************************************************************)
LEMMA Divided ==
  ASSUME NEW n \in Nat, NEW d \in Nat, d > 0
  PROVE  n \div d \in Nat /\ n % d \in 0..d - 1 /\ n = d * (n \div d) + (n % d)
OBVIOUS

LEMMA DivBounds ==
  ASSUME NEW n \in Nat
  PROVE  n \div SectorBytes \in Nat /\ n \div SectorBytes <= n /\ (n \div SectorBytes) * SectorBytes <= n
<1> DEFINE k == n \div SectorBytes
           r == n % SectorBytes
<1>1. k \in Nat /\ r \in Nat /\ n = SectorBytes * k + r
  BY Divided
<1> HIDE DEF k, r
<1>2. k <= SectorBytes * k /\ k * SectorBytes = SectorBytes * k
  BY <1>1
<1>3. k <= n /\ k * SectorBytes <= n
  BY <1>1, <1>2
<1> QED BY <1>1, <1>3 DEF k

LEMMA AddressTurnsBack ==
  ASSUME NEW sector \in Nat, sector < AddressRange \div SectorBytes
  PROVE  /\ (sector * SectorBytes) % AddressRange = sector * SectorBytes
         /\ (sector * SectorBytes) \div SectorBytes = sector
<1> DEFINE whole == AddressRange \div SectorBytes
           n == sector * SectorBytes
           k == n \div SectorBytes
           r == n % SectorBytes
<1>1. whole \in Nat /\ whole * SectorBytes <= AddressRange /\ sector + 1 <= whole
  BY DivBounds
<1>2. n \in Nat
  OBVIOUS
<1>3. n < AddressRange
  <2> HIDE DEF whole
  <2>1. (sector + 1) * SectorBytes <= whole * SectorBytes
    BY <1>1
  <2>2. (sector + 1) * SectorBytes = n + SectorBytes
    OBVIOUS
  <2> QED BY <1>1, <2>1, <2>2
<1>4. n % AddressRange = n
  BY <1>2, <1>3
<1>5. k \in Nat /\ r \in 0..SectorBytes - 1 /\ n = SectorBytes * k + r
  BY <1>2, Divided
<1>6. k < sector => SectorBytes * k + SectorBytes <= n
  <2> HIDE DEF k
  <2>1. k < sector => (k + 1) * SectorBytes <= sector * SectorBytes
    BY <1>5
  <2> QED BY <1>5, <2>1
<1>7. k > sector => SectorBytes * k >= n + SectorBytes
  <2> HIDE DEF k
  <2>1. k > sector => k * SectorBytes >= (sector + 1) * SectorBytes
    BY <1>5
  <2> QED BY <1>5, <2>1
<1>8. k = sector
  <2> DEFINE w == SectorBytes * k
  <2>1. w \in Nat /\ n = w + r /\ (k < sector => w + SectorBytes <= n) /\ (k > sector => w >= n + SectorBytes)
    BY <1>5, <1>6, <1>7
  <2> HIDE DEF w, k, r, n
  <2> QED BY <1>2, <1>5, <2>1
<1> QED BY <1>4, <1>8

LEMMA MediumType ==
  ASSUME SdInv, NEW rx \in Received, Truthful(rx), medium' = Served(rx), asked' = asked
  PROVE  medium' \in [v2 : BOOLEAN, hc : BOOLEAN, idle : BOOLEAN, length : {0, SectorBytes},
                      serving : -1..AddressRange - 1, released : BOOLEAN]
<1> DEFINE serves == IF medium.hc THEN reader.argument ELSE reader.argument \div SectorBytes
<1>1. ASSUME Says("CMD17", rx) PROVE serves \in -1..AddressRange - 1
  <2>1. reader.argument \in 0..AddressRange - 1
    BY <1>1, CommandConstants DEF SdInv, TypeOK, Addressed, Says, Answers
  <2>2. reader.argument \div SectorBytes \in Nat /\ reader.argument \div SectorBytes <= reader.argument
    BY <2>1, DivBounds
  <2> QED BY <2>1, <2>2
<1> HIDE DEF serves
<1>2. medium' = [medium EXCEPT
                   !.released = ~Selected,
                   !.idle = IF Says("CMD0", rx) /\ rx = 1 THEN TRUE
                            ELSE IF Says("ACMD41", rx) /\ rx = 0 THEN FALSE ELSE @,
                   !.length = IF Says("CMD16", rx) /\ rx = 0 THEN reader.argument ELSE @,
                   !.serving = IF Says("CMD17", rx) /\ rx = 0 THEN serves ELSE @]
  BY DEF Served, serves
<1>3. Says("CMD16", rx) => reader.argument = SectorBytes
  BY DEF SdInv, Settled, Says, Answers
<1> QED BY <1>1, <1>2, <1>3 DEF SdInv, TypeOK, Selected

LEMMA RequestKeeps ==
  ASSUME SdInv, Request
  PROVE  SdInv'
<1>1. PICK sector \in Sectors : ReadStart(sector)
  BY DEF Request
<1>2. medium' = medium /\ asked' = sector
  BY <1>1 DEF Request, ReadStart
<1> DEFINE q == [Quiet EXCEPT !.ready = FALSE, !.busy = TRUE, !.data = 0]
<1>3. reader \in Registers /\ q \in Registers /\ Address(sector) \in Nat
  <2>1. reader \in Registers
    BY DEF SdInv, TypeOK, Registers
  <2>2. q \in Registers
    BY <2>1, QuietType, Ranges DEF Registers
  <2> QED BY <2>1, <2>2, CommandConstants
<1> HIDE DEF q
<1>4. reader' = Begin(q, "CMD17", Address(sector))
  BY <1>1 DEF ReadStart, q
<1>5. reader' \in Registers
  BY <1>3, <1>4, BeginType, CommandConstants
<1>6. TypeOK'
  BY <1>2, <1>5 DEF SdInv, TypeOK, Registers
<1>7. reader.state = "READY"
  BY <1>1 DEF ReadStart
<1>8. Address(sector)' = Address(sector)
  BY <1>3, <1>4 DEF Address, q, Quiet, Begin, Registers
<1>9. Wires'
  BY <1>3, <1>4, <1>7 DEF SdInv, Wires, q, Quiet, Begin, Registers
<1>10. Settled'
  BY <1>2, <1>3, <1>4, <1>7 DEF SdInv, Wires, Settled, q, Quiet, Begin, Registers, StartUp
<1>11. Addressed'
  BY <1>2, <1>3, <1>4, <1>8 DEF Addressed, q, Quiet, Begin, Registers
<1> QED BY <1>6, <1>9, <1>10, <1>11 DEF SdInv

LEMMA NoRequestKeeps ==
  ASSUME SdInv, NoRequest
  PROVE  SdInv'
<1>1. medium' = medium /\ asked' = asked /\ reader \in Registers
  BY DEF NoRequest, SdInv, TypeOK, Registers
<1>2. CASE Rest
  <2>1. TypeOK'
    BY <1>1, <1>2, QuietType, ReadyType DEF Rest, SdInv, TypeOK, Registers
  <2> QED BY <1>1, <1>2, <2>1 DEF Rest, SdInv, Wires, Settled, Addressed, Quiet, BecomeReady, Registers, StartUp, Address
<1>3. CASE ShowError
  <2>1. reader' \in Registers
    BY ZenonT(60), <1>1, <1>3, QuietType DEF ShowError, Registers
  <2>2. TypeOK'
    BY <1>1, <2>1 DEF SdInv, TypeOK, Registers
  <2> QED BY <1>1, <1>3, <2>2 DEF ShowError, SdInv, Wires, Settled, Addressed, Quiet, Registers, StartUp, Address
<1> QED BY <1>2, <1>3 DEF NoRequest

LEMMA InitInv == Init => SdInv
<1> SUFFICES ASSUME Init PROVE SdInv
  OBVIOUS
<1>1. reader \in Registers
  BY Ranges DEF Init, Registers, States, Operations
<1>2. TypeOK
  <2>1. -1 \in -1..AddressRange - 1
    OBVIOUS
  <2> QED BY <1>1, <2>1 DEF Init, TypeOK, Registers
<1> QED BY <1>2 DEF Init, SdInv, Wires, Settled, Addressed, StartUp

LEMMA StepInv == SdInv /\ [Next]_vars => SdInv'
<1> SUFFICES ASSUME SdInv, [Next]_vars PROVE SdInv'
  OBVIOUS
<1>1. CASE Exchange
  <2>1. PICK rx \in Received : Truthful(rx) /\ medium' = Served(rx) /\ Acts(rx) /\ asked' = asked
    BY <1>1, ExchangeActs
  <2>2. reader' \in Registers
    BY <2>1, ActsType DEF SdInv, TypeOK, Registers
  <2>3. TypeOK'
    BY <2>1, <2>2, MediumType DEF SdInv, TypeOK, Registers
  <2> QED BY <2>1, <2>3, ActsWires, ActsSettled, ActsAddressed DEF SdInv
<1>2. CASE UNCHANGED vars
  BY <1>2 DEF vars, SdInv, TypeOK, Wires, Settled, Addressed, Address
<1> QED BY <1>1, <1>2, RequestKeeps, NoRequestKeeps DEF Next

(***************************************************************************)
(* The reader has its types, whatever the card answers (the registers of   *)
(* rtl/storage/nexttang_sd_spi_reader.v).                                  *)
(***************************************************************************)
THEOREM TypeCorrect == Spec => []TypeOK
<1>1. SdInv => TypeOK
  BY DEF SdInv
<1> QED BY <1>1, InitInv, StepInv, PTL DEF Spec

(***************************************************************************)
(* The card is clocked while deselected before each command goes out       *)
(* (begin_command).                                                        *)
(***************************************************************************)
THEOREM GapBeforeEveryCommand == Spec => []GapBeforeCommand
<1>1. SdInv => GapBeforeCommand
  BY DEF SdInv, Wires, GapBeforeCommand, Selected, TypeOK
<1> QED BY <1>1, InitInv, StepInv, PTL DEF Spec

(***************************************************************************)
(* Reader and card agree on how sectors are addressed whenever the reader  *)
(* is ready, and on the sector while its bytes are shown (the OCR, CMD16   *)
(* and the argument of CMD17).                                             *)
(***************************************************************************)
THEOREM ReaderAndCardAgree == Spec => []CardAgrees
<1>1. SdInv => CardAgrees
  <2> SUFFICES ASSUME SdInv PROVE CardAgrees
    OBVIOUS
  <2>1. ReadyMeansAgreed
    BY DEF SdInv, Wires, Settled, ReadyMeansAgreed, StartUp, TypeOK
  <2>2. ASSUME reader.state = "DATA", Reachable(asked) PROVE medium.serving = asked
    <3>1. asked \in Nat /\ reader.high_capacity = medium.hc /\ reader.argument = Address(asked)
          /\ medium.serving = IF medium.hc THEN reader.argument ELSE reader.argument \div SectorBytes
      BY <2>2 DEF SdInv, TypeOK, Wires, Settled, Addressed
    <3>2. CASE medium.hc
      BY <2>2, <3>1, <3>2 DEF Reachable, Address
    <3>3. CASE ~medium.hc
      BY <2>2, <3>1, <3>3, AddressTurnsBack DEF Reachable, Address
    <3> QED BY <3>2, <3>3
  <2> QED BY <2>1, <2>2 DEF CardAgrees, RightSector
<1> QED BY <1>1, InitInv, StepInv, PTL DEF Spec

(***************************************************************************)
(* The promise, step by step.                                              *)
(***************************************************************************)
LEMMA ActsPromised ==
  ASSUME SdInv, NEW rx \in Received, asked' = asked, Acts(rx)
  PROVE  [Promise!Next]_(Promise!card)
<1> USE DEF SdInv, TypeOK, Registers, Quiet, Begin, Failed, BecomeReady, Retry, Wires, Answers,
            Promise!Next, Promise!card, Promise!Wait, Promise!BecomeReady, Promise!ShowByte,
            Promise!Finish, Promise!Fail
<1>1. CASE Power
  BY <1>1 DEF Power
<1>2. CASE Gap
  BY <1>2 DEF Gap
<1>3. CASE Command
  BY <1>3 DEF Command
<1>4. CASE GoIdle(rx)
  BY <1>4 DEF GoIdle
<1>5. CASE InterfaceCondition(rx)
  BY <1>5 DEF InterfaceCondition
<1>6. CASE ApplicationCommand(rx)
  BY <1>6 DEF ApplicationCommand
<1>7. CASE OperatingCondition(rx)
  BY <1>7 DEF OperatingCondition
<1>8. CASE ReadOcr(rx)
  BY <1>8 DEF ReadOcr
<1>9. CASE SetBlockLength(rx)
  BY <1>9 DEF SetBlockLength
<1>10. CASE ReadBlock(rx)
  BY <1>10 DEF ReadBlock
<1>11. CASE NoAnswerYet(rx)
  BY <1>11 DEF NoAnswerYet
<1>12. CASE ExtraByte
  BY <1>12 DEF ExtraByte
<1>13. CASE Ocr(medium.hc)
  BY <1>13 DEF Ocr
<1>14. CASE \E same \in BOOLEAN : Echo(same)
  BY <1>14 DEF Echo
<1>15. CASE TokenByte(rx)
  BY <1>15 DEF TokenByte
<1>16. CASE DataByte
  BY <1>16 DEF DataByte
<1>17. CASE CrcByte
  BY <1>17 DEF CrcByte
<1>18. CASE FinishGap
  BY <1>18 DEF FinishGap
<1> QED
  BY <1>1, <1>2, <1>3, <1>4, <1>5, <1>6, <1>7, <1>8, <1>9, <1>10, <1>11, <1>12, <1>13, <1>14, <1>15, <1>16, <1>17, <1>18 DEF Acts

LEMMA InitPromised == Init => Promise!Init
BY DEF Init, Promise!Init

LEMMA StepPromised == SdInv /\ [Next]_vars => [Promise!Next]_(Promise!card)
<1> SUFFICES ASSUME SdInv, [Next]_vars PROVE [Promise!Next]_(Promise!card)
  OBVIOUS
<1>1. reader \in Registers
  BY DEF SdInv, TypeOK, Registers
<1>2. CASE Exchange
  BY <1>2, ExchangeActs, ActsPromised
<1>3. CASE Request
  <2>1. PICK sector \in Sectors : ReadStart(sector)
    BY <1>3 DEF Request
  <2>2. Promise!Accept(sector)
    BY <1>1, <2>1 DEF SdInv, Wires, ReadStart, Promise!Accept, Registers, Quiet, Begin
  <2> QED BY <2>1, <2>2 DEF Promise!Next
<1>4. CASE NoRequest
  BY ZenonT(60), <1>1, <1>4 DEF NoRequest, Rest, ShowError, SdInv, Wires, Registers, Quiet, BecomeReady,
                    Promise!Next, Promise!Wait
<1>5. CASE UNCHANGED vars
  BY <1>5 DEF vars, Promise!card
<1> QED BY <1>2, <1>3, <1>4, <1>5 DEF Next

(***************************************************************************)
(* The reader is a sector reader: a sector is accepted only when it is     *)
(* ready, its bytes come once each and in order, then it is done, and a    *)
(* failure is final (the states of the reader against SectorReader).       *)
(***************************************************************************)
THEOREM KeepsItsPromise == Spec => IsSectorReader
<1>1. Init => SdInv /\ Promise!Init
  BY InitInv, InitPromised
<1>2. SdInv /\ [Next]_vars => SdInv' /\ [Promise!Next]_(Promise!card)
  BY StepInv, StepPromised
<1> QED BY <1>1, <1>2, PTL DEF Spec, IsSectorReader, Promise!Spec
=============================================================================
