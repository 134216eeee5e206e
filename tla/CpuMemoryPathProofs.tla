------------------------- MODULE CpuMemoryPathProofs -------------------------
(***************************************************************************)
(* The memory path from the CPU to the DDR3 cells, for every set of lines, *)
(* lanes and bytes and every setting of the timeout and of the drain: the  *)
(* layers agree on the transaction in flight, and what the CPU sees is a   *)
(* byte memory.  What the two bridge registers do is taken from the proofs *)
(* about the bridge.                                                       *)
(***************************************************************************)
EXTENDS CpuMemoryPath, TLAPS

Proved == INSTANCE MemoryCdcBridgeProofs WITH
  Requests <- Svc!Transactions, ZeroRequest <- Svc!ZeroTransaction,
  Answers <- Bytes, ZeroAnswer <- ZeroByte

(***************************************************************************)
(* The inductive invariant, one part per boundary between two layers.      *)
(***************************************************************************)
CommandsToDdr ==
  [beat : Ui!Beats, data : Ui!BeatData, enabled : SUBSET (Ui!Halves \X Lanes)]

Types ==
  /\ TypeOK
  /\ service.state = "ISSUE" => service.waited < MaxWaitCycles
  /\ ddr \in [cells : [Ui!Beats -> Ui!BeatData], queued : {NoWrite} \union CommandsToDdr,
              age : 0 .. CommitCycles - 1, reading : BOOLEAN]

\* The CPU and the service: who waits for whom.
CpuInv ==
  /\ service.complete => core.phase = "asking" /\ service.state = "IDLE" /\ service.previous
  /\ core.phase = "done" => service.previous /\ service.state = "IDLE"
  /\ core.phase = "asking" /\ service.state = "IDLE" => (service.previous <=> service.complete)
  /\ service.state # "IDLE" =>
       core.phase = "asking" /\ service.previous /\ service.transaction = core.transaction
  /\ service.request <=> service.state = "ISSUE"
  /\ NoOverrun

\* The service and the near end of the bridge.
CrossInv ==
  /\ service.state \in {"IDLE", "ISSUE"} => ~source.outstanding /\ ~source.response_valid
  /\ service.state = "RESPONSE" => (source.outstanding <=> ~source.response_valid)
  /\ source.outstanding => source.request_hold = core.transaction

\* The far end of the bridge and the adapter: the line is that of the payload.
Carried ==
  LET payload == destination.payload IN
    /\ adapter.line_write = payload.write
    /\ adapter.line = payload.address.line /\ adapter.read_lane = payload.address.lane
    /\ adapter.line_data = [Line!Blank EXCEPT ![payload.address.lane] = payload.data]
    /\ adapter.line_enable = {payload.address.lane}

LineInv ==
  /\ destination.state \in {"IDLE", "ISSUE"} => adapter.state = "IDLE" /\ ~adapter.response_valid
  /\ destination.state = "RESPONSE" => (adapter.state = "IDLE" <=> adapter.response_valid)
  /\ adapter.state # "IDLE" => Carried
  /\ adapter.line_request <=> adapter.state = "ISSUE"

\* The adapter, the controller's interface and the write in the controller's queue.
UiInv ==
  /\ adapter.state \in {"IDLE", "ISSUE"} => gowin.state = "IDLE" /\ ~gowin.response_valid
  /\ adapter.state = "RESPONSE" => (gowin.state = "IDLE" <=> gowin.response_valid)
  /\ gowin.state # "IDLE" =>
       gowin.beat = Ui!BeatOf(adapter.line) /\ gowin.half = Ui!HalfOf(adapter.line)
  /\ gowin.state \in {"WRITE", "WRITE_DRAIN"} =>
       /\ adapter.line_write
       /\ gowin.write_data = Ui!InHalf(gowin.half, adapter.line_data)
       /\ gowin.enabled = Ui!Unmasked(gowin.half, adapter.line_enable)
  /\ gowin.state \in {"READ_COMMAND", "READ_RESPONSE"} => ~adapter.line_write
  /\ Queued =>
       /\ gowin.state = "WRITE_DRAIN" /\ ddr.age = gowin.drained
       /\ ddr.queued = [beat |-> gowin.beat, data |-> gowin.write_data, enabled |-> gowin.enabled]

\* A transaction is done: its byte is in the cells, or is the byte of the cells.
ByteIn(cells, address) == cells[Ui!BeatOf(address.line)][<<Ui!HalfOf(address.line), address.lane>>]

DoneIn(cells, transaction, byte) ==
  IF transaction.write THEN ByteIn(cells, transaction.address) = transaction.data
  ELSE byte = ByteIn(cells, transaction.address)

Done(transaction, byte) == DoneIn(ddr.cells, transaction, byte)

\* The answer, wherever it is on its way back to the CPU.
DataInv ==
  /\ gowin.state = "WRITE_DRAIN" /\ ~Queued =>
       ByteIn(ddr.cells, destination.payload.address) = destination.payload.data
  /\ gowin.response_valid =>
       Done(destination.payload, gowin.read_data[destination.payload.address.lane])
  /\ adapter.response_valid => Done(destination.payload, adapter.read_data)
  /\ Proved!Phase = "answered" => Done(source.request_hold, destination.response_hold)
  /\ service.state = "RESPONSE" /\ source.response_valid =>
       Done(core.transaction, source.read_data)
  /\ service.complete => Done(core.transaction, service.read_data)

PathInv == Types /\ CpuInv /\ CrossInv /\ Proved!BridgeInv /\ LineInv /\ UiInv /\ DataInv

USE PathAssumption

(***************************************************************************)
(* The bridge here is the bridge of those proofs.                          *)
(***************************************************************************)
LEMMA BridgeAssumed == Svc!ZeroTransaction \in Svc!Transactions /\ ZeroByte \in Bytes
BY DEF Svc!ZeroTransaction, Svc!Transactions, ZeroAddress, Addresses

LEMMA SameTypes ==
  (source \in Bridge!SourceRegisters /\ destination \in Bridge!DestinationRegisters) <=> Proved!TypeOK
BY DEF Proved!TypeOK, Bridge!SourceRegisters, Proved!SourceRegisters,
       Bridge!DestinationRegisters, Proved!DestinationRegisters, Bridge!Bit, Proved!Bit

LEMMA SameSource ==
  ASSUME NEW request, NEW payload, Bridge!SourceEdge(request, payload)
  PROVE  Proved!SourceEdge(request, payload)
BY DEF Bridge!SourceEdge, Bridge!SourceAccept, Bridge!SourceReady, Bridge!SourceShifted,
       Bridge!SourceComplete, Bridge!SourceWait, Bridge!ResponseCrossed, Bridge!Flip,
       Proved!SourceEdge, Proved!SourceAccept, Proved!SourceReady, Proved!SourceShifted,
       Proved!SourceComplete, Proved!SourceWait, Proved!ResponseCrossed, Proved!Flip

LEMMA SameDestination ==
  ASSUME NEW ready, NEW valid, NEW data, Bridge!DestinationEdge(ready, valid, data)
  PROVE  Proved!DestinationEdge(ready, valid, data)
BY DEF Bridge!DestinationEdge, Bridge!DestinationLatch, Bridge!DestinationIdle, Bridge!DestinationIssue,
       Bridge!DestinationResponse, Bridge!DestinationShifted, Bridge!RequestCrossed, Bridge!Answered,
       Proved!DestinationEdge, Proved!DestinationLatch, Proved!DestinationIdle, Proved!DestinationIssue,
       Proved!DestinationResponse, Proved!DestinationShifted, Proved!RequestCrossed, Proved!Answered

(***************************************************************************)
(* The machine clock.                                                      *)
(***************************************************************************)
\* What an edge does to the registers of the service that others look at.
LEMMA ServiceMoves ==
  ASSUME Types, CpuInv, CrossInv,
         Svc!ServiceEdge(TRUE, Asked, core.transaction, Bridge!SourceReady, source.response_valid, source.read_data)
  PROVE  /\ service'.previous = Asked
         /\ \/ /\ service.state = "IDLE" /\ ~(Asked /\ ~service.previous)
               /\ service'.state = "IDLE" /\ ~service'.request /\ ~service'.complete
               /\ service'.faults = service.faults
            \/ /\ service.state = "IDLE" /\ Asked /\ ~service.previous
               /\ service'.state = "ISSUE" /\ service'.request /\ ~service'.complete
               /\ service'.transaction = core.transaction /\ service'.faults = service.faults
            \/ /\ service.state = "ISSUE" /\ service'.state = "RESPONSE"
               /\ ~service'.request /\ ~service'.complete
               /\ service'.transaction = service.transaction /\ service'.faults = service.faults
            \/ /\ service.state = "RESPONSE" /\ source.response_valid /\ service'.state = "IDLE"
               /\ ~service'.request /\ service'.complete /\ service'.faults = service.faults
               /\ service'.transaction = service.transaction
               /\ service'.read_data = IF service.transaction.write THEN service.read_data ELSE source.read_data
            \/ /\ service.state = "RESPONSE" /\ ~source.response_valid
               /\ service'.state = "RESPONSE" /\ service'.request = service.request /\ ~service'.complete
               /\ service'.transaction = service.transaction /\ service'.faults = service.faults
            \/ /\ service.state \in {"RESPONSE", "FAULT"} /\ ~(service.state = "RESPONSE" /\ source.response_valid)
               /\ service'.state = "FAULT" /\ ~service'.request /\ ~service'.complete
               /\ service'.transaction = service.transaction
               /\ service'.faults \subseteq service.faults \union {"timeout"}
<1> USE DEF Types, TypeOK, CpuInv, CrossInv, Asked, Svc!ServiceRegisters,
            Svc!Sampled, Svc!Noted, Svc!NewRequest, Svc!Finished, Svc!TimedOut, Bridge!SourceReady
<1>1. CASE Svc!IdleEdge(TRUE, Asked, core.transaction)
  BY ZenonT(60), <1>1 DEF Svc!IdleEdge
<1>2. CASE Svc!IssueEdge(TRUE, Asked, Bridge!SourceReady, source.response_valid, source.read_data)
  BY ZenonT(60), <1>2 DEF Svc!IssueEdge
<1>3. CASE Svc!ResponseEdge(TRUE, Asked, source.response_valid, source.read_data)
  BY ZenonT(60), <1>3 DEF Svc!ResponseEdge
<1>4. CASE Svc!FaultEdge(TRUE, Asked)
  BY <1>4 DEF Svc!FaultEdge
<1> QED BY <1>1, <1>2, <1>3, <1>4 DEF Svc!ServiceEdge, Svc!LoseCalibration

\* What it does to the registers of the near end of the bridge.
LEMMA SourceMoves ==
  ASSUME Types, NEW request \in BOOLEAN, NEW payload, Bridge!SourceEdge(request, payload)
  PROVE  \/ /\ ~source.outstanding /\ request
            /\ source'.outstanding /\ ~source'.response_valid /\ source'.request_hold = payload
            /\ source'.request_toggle = 1 - source.request_toggle
         \/ /\ ~source.outstanding /\ ~request
            /\ ~source'.outstanding /\ ~source'.response_valid
         \/ /\ source.outstanding /\ source.response_sync_2 = source.request_toggle
            /\ ~source'.outstanding /\ source'.response_valid
            /\ source'.read_data = destination.response_hold
         \/ /\ source.outstanding
            /\ source'.outstanding /\ ~source'.response_valid
            /\ source'.request_hold = source.request_hold
            /\ source'.request_toggle = source.request_toggle
<1> USE DEF Types, TypeOK, Bridge!SourceRegisters, Bridge!SourceShifted, Bridge!SourceReady, Bridge!ResponseCrossed
<1>1. CASE Bridge!SourceAccept(payload)
  BY <1>1 DEF Bridge!SourceEdge, Bridge!SourceAccept, Bridge!SourceComplete, Bridge!SourceWait, Bridge!Flip
<1>2. CASE Bridge!SourceComplete
  BY <1>2 DEF Bridge!SourceComplete
<1>3. CASE Bridge!SourceWait
  BY <1>3 DEF Bridge!SourceWait
<1> QED BY <1>1, <1>2, <1>3 DEF Bridge!SourceEdge

LEMMA CpuKeeps ==
  ASSUME Types, CpuInv, CrossInv, MachineEdge(TRUE)
  PROVE  CpuInv'
BY ServiceMoves DEF Types, TypeOK, CpuInv, MachineEdge, CoreEdge, Asked, NoOverrun

LEMMA CrossKeeps ==
  ASSUME Types, CpuInv, CrossInv, MachineEdge(TRUE)
  PROVE  CrossInv'
<1>1. service.request \in BOOLEAN /\ Bridge!SourceEdge(service.request, service.transaction)
  BY DEF Types, TypeOK, Svc!ServiceRegisters, MachineEdge
<1> QED BY <1>1, ServiceMoves, SourceMoves DEF Types, TypeOK, CpuInv, CrossInv, MachineEdge, CoreEdge, Asked

LEMMA MachineDataKeeps ==
  ASSUME Types, CpuInv, CrossInv, Proved!BridgeInv, DataInv, MachineEdge(TRUE)
  PROVE  DataInv'
<1>1. /\ destination' = destination /\ adapter' = adapter /\ gowin' = gowin /\ ddr' = ddr
      /\ service.request \in BOOLEAN /\ Bridge!SourceEdge(service.request, service.transaction)
      /\ Svc!ServiceEdge(TRUE, Asked, core.transaction, Bridge!SourceReady, source.response_valid, source.read_data)
  BY DEF Types, TypeOK, Svc!ServiceRegisters, MachineEdge
<1>3. Queued' <=> Queued
  BY <1>1 DEF Queued
<1>4. Proved!Phase' = "answered" => Done(source'.request_hold, destination.response_hold)
  <2>1. SUFFICES ASSUME Proved!Phase' = "answered" PROVE Done(source'.request_hold, destination.response_hold)
    OBVIOUS
  <2>2. source'.outstanding /\ destination.response_toggle = source'.request_toggle
    BY <1>1, <2>1 DEF Proved!Phase
  <2>3. source.outstanding
    <3>1. ~source.outstanding => destination.response_toggle = source.request_toggle
      BY DEF Proved!BridgeInv, Proved!EmptyInv, Proved!Phase
    <3>2. source.request_toggle \in {0, 1}
      BY DEF Types, TypeOK, Bridge!SourceRegisters, Bridge!Bit
    <3> QED BY <1>1, <2>2, <3>1, <3>2, SourceMoves
  <2>4. source'.request_hold = source.request_hold /\ source'.request_toggle = source.request_toggle
    BY <1>1, <2>2, <2>3, SourceMoves
  <2> QED BY <2>2, <2>3, <2>4 DEF DataInv, Proved!Phase
<1>5. service'.state = "RESPONSE" /\ source'.response_valid => Done(core'.transaction, source'.read_data)
  <2> SUFFICES ASSUME service'.state = "RESPONSE", source'.response_valid
               PROVE  Done(core'.transaction, source'.read_data)
    OBVIOUS
  <2>1. source.outstanding /\ source.response_sync_2 = source.request_toggle /\ source'.read_data = destination.response_hold
    BY <1>1, SourceMoves
  <2>2. Proved!Phase = "answered"
    BY <2>1 DEF Proved!BridgeInv, Proved!SentInv, Proved!OfferedInv, Proved!Phase, Proved!ResponseSettled
  <2>3. core'.transaction = core.transaction
    BY <1>1, <2>1, ServiceMoves DEF MachineEdge, CoreEdge, CpuInv, CrossInv, Types, TypeOK
  <2> QED BY <2>1, <2>2, <2>3 DEF DataInv, CrossInv
<1>6. service'.complete => Done(core'.transaction, service'.read_data)
  <2> SUFFICES ASSUME service'.complete PROVE Done(core'.transaction, service'.read_data)
    OBVIOUS
  <2>1. /\ service.state = "RESPONSE" /\ source.response_valid
        /\ service'.read_data = IF service.transaction.write THEN service.read_data ELSE source.read_data
    BY <1>1, ServiceMoves
  <2>2. core'.transaction = core.transaction /\ service.transaction = core.transaction
    BY <2>1 DEF MachineEdge, CoreEdge, CpuInv, Types, TypeOK
  <2> QED BY <2>1, <2>2 DEF DataInv, Done, DoneIn
<1> QED BY <1>1, <1>3, <1>4, <1>5, <1>6 DEF DataInv, Done

LEMMA MachineTypes ==
  ASSUME Types, CpuInv, CrossInv, MachineEdge(TRUE)
  PROVE  Types'
<1>1. core' \in [phase : {"idle", "asking", "done"}, transaction : Accesses, taken : Bytes]
  BY DEF Types, TypeOK, MachineEdge, CoreEdge, Svc!ServiceRegisters
<1>2. service' \in Svc!ServiceRegisters /\ (service'.state = "ISSUE" => service'.waited < MaxWaitCycles)
  <2> DEFINE sampled == Svc!Sampled(Asked)
             noted == Svc!Noted(Asked)
  <2>1. /\ service \in Svc!ServiceRegisters /\ source.read_data \in Bytes
        /\ core.transaction \in Svc!Transactions /\ Asked \in BOOLEAN
    BY DEF Types, TypeOK, Bridge!SourceRegisters, Asked, Accesses
  <2>2. sampled \in Svc!ServiceRegisters /\ sampled.waited = service.waited /\ sampled.state = service.state
    BY <2>1 DEF Svc!Sampled, Svc!ServiceRegisters
  <2>3. noted \in Svc!ServiceRegisters /\ noted.waited = service.waited /\ noted.state = service.state
    BY <2>1, <2>2 DEF Svc!Noted, Svc!ServiceRegisters, Svc!Faults
  <2>4. 0 \in 0 .. MaxWaitCycles /\ 0 < MaxWaitCycles /\ service.waited \in 0 .. MaxWaitCycles
    BY <2>1 DEF Svc!ServiceRegisters
  <2>5. CASE Svc!IdleEdge(TRUE, Asked, core.transaction)
    <3> HIDE DEF sampled
    <3>1. \/ service' = [sampled EXCEPT !.waited = 0, !.transaction = core.transaction, !.request = TRUE,
                                        !.state = "ISSUE"]
          \/ service' = [sampled EXCEPT !.waited = 0, !.request = FALSE]
      BY <2>5 DEF Svc!IdleEdge, sampled
    <3>2. sampled.state # "ISSUE"
      BY <2>2, <2>5 DEF Svc!IdleEdge
    <3> QED BY <2>1, <2>2, <2>4, <3>1, <3>2 DEF Svc!ServiceRegisters
  <2>6. service.state \in {"ISSUE", "RESPONSE"} /\ ~Svc!Expired => service.waited + 1 \in 0 .. MaxWaitCycles
                                                    /\ service.waited + 1 < MaxWaitCycles
    BY <2>4 DEF Svc!Expired
  <2>7. service.state = "ISSUE" => service.waited + 1 \in 0 .. MaxWaitCycles
    BY <2>4 DEF Types
  <2>8. Svc!Finished(Asked, source.read_data) \in Svc!ServiceRegisters
        /\ Svc!Finished(Asked, source.read_data).state = "IDLE"
    BY <2>1, <2>3 DEF Svc!Finished, Svc!ServiceRegisters
  <2>9. Svc!TimedOut(Asked) \in Svc!ServiceRegisters /\ Svc!TimedOut(Asked).state = "FAULT"
    BY <2>1, <2>3 DEF Svc!TimedOut, Svc!ServiceRegisters, Svc!Faults
  <2>10. CASE Svc!IssueEdge(TRUE, Asked, Bridge!SourceReady, source.response_valid, source.read_data)
    <3>1. \/ service' = [noted EXCEPT !.request = FALSE, !.waited = @ + 1, !.state = "RESPONSE"]
          \/ service' = Svc!TimedOut(Asked)
          \/ ~Svc!Expired /\ service' = [noted EXCEPT !.waited = @ + 1]
      BY <2>10 DEF Svc!IssueEdge, CrossInv
    <3>2. service.state = "ISSUE"
      BY <2>10 DEF Svc!IssueEdge
    <3> HIDE DEF noted
    <3> QED BY ZenonT(60), <2>3, <2>6, <2>7, <2>9, <3>1, <3>2 DEF Svc!ServiceRegisters
  <2>11. CASE Svc!ResponseEdge(TRUE, Asked, source.response_valid, source.read_data)
    <3>1. \/ service' = Svc!Finished(Asked, source.read_data)
          \/ service' = Svc!TimedOut(Asked)
          \/ ~Svc!Expired /\ service' = [noted EXCEPT !.waited = @ + 1]
      BY <2>11 DEF Svc!ResponseEdge
    <3>2. service.state = "RESPONSE"
      BY <2>11 DEF Svc!ResponseEdge
    <3> HIDE DEF noted
    <3> QED BY <2>3, <2>6, <2>8, <2>9, <3>1, <3>2 DEF Svc!ServiceRegisters
  <2>12. CASE Svc!FaultEdge(TRUE, Asked)
    BY <2>2, <2>12 DEF Svc!FaultEdge, Svc!ServiceRegisters
  <2> QED BY <2>5, <2>10, <2>11, <2>12 DEF MachineEdge, Svc!ServiceEdge, Svc!LoseCalibration
<1>3. source' \in Bridge!SourceRegisters
  <2>1. Proved!TypeOK /\ service.request \in BOOLEAN /\ service.transaction \in Svc!Transactions
    BY SameTypes DEF Types, TypeOK, Svc!ServiceRegisters
  <2>2. Proved!SourceEdge(service.request, service.transaction)
    BY SameSource DEF MachineEdge
  <2>3. source' \in Proved!SourceRegisters
    BY <2>1, <2>2, BridgeAssumed, Proved!SourceType
  <2> QED BY <2>3 DEF Proved!SourceRegisters, Bridge!SourceRegisters, Proved!Bit, Bridge!Bit
<1> QED BY <1>1, <1>2, <1>3 DEF Types, TypeOK, MachineEdge

(***************************************************************************)
(* The memory clock.  What an edge does at each layer, to the registers    *)
(* that the next layers look at.                                           *)
(***************************************************************************)
LEMMA DestinationMoves ==
  ASSUME Types, Proved!BridgeInv, LineInv,
         Bridge!DestinationEdge(Line!ByteReady, adapter.response_valid, adapter.read_data)
  PROVE  \/ /\ destination.state = "IDLE" /\ destination'.state = "ISSUE"
            /\ destination'.payload = source.request_hold
            /\ destination'.response_hold = destination.response_hold
            /\ destination'.response_toggle = destination.response_toggle
         \/ /\ destination.state = "IDLE" /\ destination'.state = "IDLE"
            /\ destination'.response_hold = destination.response_hold
            /\ destination'.response_toggle = destination.response_toggle
         \/ /\ \/ destination.state = "ISSUE"
               \/ destination.state = "RESPONSE" /\ ~adapter.response_valid
            /\ destination'.state = "RESPONSE" /\ destination'.payload = destination.payload
            /\ destination'.response_hold = destination.response_hold
            /\ destination'.response_toggle = destination.response_toggle
         \/ /\ destination.state = "RESPONSE" /\ adapter.response_valid /\ destination'.state = "IDLE"
            /\ destination'.payload = destination.payload
            /\ destination'.response_hold = adapter.read_data
<1> USE DEF Types, TypeOK, LineInv, Line!ByteReady, Bridge!DestinationRegisters, Bridge!DestinationShifted, Bridge!Answered
<1>1. CASE Bridge!DestinationLatch
  BY <1>1 DEF Bridge!DestinationLatch
<1>2. CASE Bridge!DestinationIdle
  BY <1>2 DEF Bridge!DestinationIdle
<1>3. CASE Bridge!DestinationIssue(Line!ByteReady, adapter.response_valid, adapter.read_data)
  BY ZenonT(60), <1>3 DEF Bridge!DestinationIssue
<1>4. CASE Bridge!DestinationResponse(adapter.response_valid, adapter.read_data)
  BY <1>4 DEF Bridge!DestinationResponse
<1> QED BY <1>1, <1>2, <1>3, <1>4 DEF Bridge!DestinationEdge

LEMMA AdapterMoves ==
  ASSUME Types, Proved!BridgeInv, LineInv, UiInv,
         Line!AdapterEdge(destination.request, destination.payload.write, destination.payload.address,
                          destination.payload.data, Ui!LineReady, gowin.response_valid, gowin.read_data)
  PROVE  \/ /\ adapter.state = "IDLE" /\ destination.state = "ISSUE"
            /\ adapter'.state = "ISSUE" /\ adapter'.line_request /\ ~adapter'.response_valid
            /\ adapter'.line_write = destination.payload.write
            /\ adapter'.line = destination.payload.address.line
            /\ adapter'.read_lane = destination.payload.address.lane
            /\ adapter'.line_data = [Line!Blank EXCEPT ![destination.payload.address.lane] = destination.payload.data]
            /\ adapter'.line_enable = {destination.payload.address.lane}
         \/ /\ adapter.state = "IDLE" /\ destination.state # "ISSUE"
            /\ adapter'.state = "IDLE" /\ ~adapter'.line_request /\ ~adapter'.response_valid
         \/ /\ \/ adapter.state = "ISSUE"
               \/ adapter.state = "RESPONSE" /\ ~gowin.response_valid
            /\ adapter'.state = "RESPONSE" /\ ~adapter'.line_request /\ ~adapter'.response_valid
            /\ adapter'.line_write = adapter.line_write /\ adapter'.line = adapter.line
            /\ adapter'.read_lane = adapter.read_lane /\ adapter'.line_data = adapter.line_data
            /\ adapter'.line_enable = adapter.line_enable
         \/ /\ adapter.state = "RESPONSE" /\ gowin.response_valid
            /\ adapter'.state = "IDLE" /\ ~adapter'.line_request /\ adapter'.response_valid
            /\ adapter'.read_data = IF adapter.line_write THEN adapter.read_data
                                    ELSE gowin.read_data[adapter.read_lane]
<1> USE DEF Types, TypeOK, LineInv, UiInv, Line!AdapterRegisters, Line!Quiet, Line!ByteDone, Line!ByteReady, Ui!LineReady
<1>1. destination.request <=> destination.state = "ISSUE"
  BY DEF Proved!BridgeInv
<1>2. CASE Line!AdapterIdle(destination.request, destination.payload.write, destination.payload.address,
                            destination.payload.data)
  <2> DEFINE data == [Line!Blank EXCEPT ![destination.payload.address.lane] = destination.payload.data]
  <2>1. CASE destination.request
    <3>1. adapter' = [Line!Quiet EXCEPT
            !.line_write   = destination.payload.write,
            !.line         = destination.payload.address.line,
            !.read_lane    = destination.payload.address.lane,
            !.line_data    = data,
            !.line_enable  = {destination.payload.address.lane},
            !.line_request = TRUE,
            !.state        = "ISSUE"]
      BY <1>2, <2>1 DEF Line!AdapterIdle
    <3>2. adapter.state = "IDLE"
      BY <1>2 DEF Line!AdapterIdle
    <3> HIDE DEF data
    <3>3. /\ adapter'.state = "ISSUE" /\ adapter'.line_request /\ ~adapter'.response_valid
          /\ adapter'.line_write = destination.payload.write
          /\ adapter'.line = destination.payload.address.line
          /\ adapter'.read_lane = destination.payload.address.lane
          /\ adapter'.line_data = data
          /\ adapter'.line_enable = {destination.payload.address.lane}
      BY <3>1
    <3> QED BY <1>1, <2>1, <3>2, <3>3 DEF data
  <2>2. CASE ~destination.request
    BY ZenonT(60), <1>1, <1>2, <2>2 DEF Line!AdapterIdle
  <2> QED BY <2>1, <2>2
<1>3. CASE Line!AdapterIssue(Ui!LineReady, gowin.response_valid, gowin.read_data)
  BY ZenonT(60), <1>3 DEF Line!AdapterIssue
<1>4. CASE Line!AdapterResponse(gowin.response_valid, gowin.read_data)
  BY <1>4 DEF Line!AdapterResponse
<1> QED BY <1>2, <1>3, <1>4 DEF Line!AdapterEdge

LEMMA LineKeeps ==
  ASSUME Types, Proved!BridgeInv, LineInv, UiInv, MemoryEdge
  PROVE  LineInv'
<1>1. /\ Bridge!DestinationEdge(Line!ByteReady, adapter.response_valid, adapter.read_data)
      /\ Line!AdapterEdge(destination.request, destination.payload.write, destination.payload.address,
                          destination.payload.data, Ui!LineReady, gowin.response_valid, gowin.read_data)
  BY DEF MemoryEdge
<1> QED BY <1>1, DestinationMoves, AdapterMoves DEF LineInv, Carried, Types, TypeOK, Bridge!DestinationRegisters, Line!AdapterRegisters, Line!Blank

LEMMA GowinMoves ==
  ASSUME Types, UiInv, NEW command_ready \in BOOLEAN, NEW data_ready \in BOOLEAN, NEW valid \in BOOLEAN,
         NEW beat_data,
         Ui!GowinEdge(adapter.line_request, adapter.line_write, adapter.line, adapter.line_data,
                      adapter.line_enable, command_ready, data_ready, valid, beat_data)
  PROVE  \/ /\ gowin.state = "IDLE" /\ ~adapter.line_request
            /\ gowin'.state = "IDLE" /\ ~gowin'.response_valid
         \/ /\ gowin.state = "IDLE" /\ adapter.line_request /\ ~gowin'.response_valid
            /\ gowin'.beat = Ui!BeatOf(adapter.line) /\ gowin'.half = Ui!HalfOf(adapter.line)
            /\ gowin'.state = IF adapter.line_write THEN "WRITE" ELSE "READ_COMMAND"
            /\ adapter.line_write =>
                 /\ gowin'.write_data = Ui!InHalf(Ui!HalfOf(adapter.line), adapter.line_data)
                 /\ gowin'.enabled = Ui!Unmasked(Ui!HalfOf(adapter.line), adapter.line_enable)
         \/ /\ gowin.state \in {"WRITE", "WRITE_DRAIN"}
            /\ gowin'.beat = gowin.beat /\ gowin'.half = gowin.half
            /\ gowin'.write_data = gowin.write_data /\ gowin'.enabled = gowin.enabled
            /\ \/ /\ gowin.state = "WRITE" /\ ~(command_ready /\ data_ready)
                  /\ gowin'.state = "WRITE" /\ ~gowin'.response_valid
               \/ /\ gowin.state = "WRITE" /\ command_ready /\ data_ready
                  /\ gowin'.state = "WRITE_DRAIN" /\ gowin'.drained = 0 /\ ~gowin'.response_valid
               \/ /\ gowin.state = "WRITE_DRAIN" /\ ~Ui!Drained
                  /\ gowin'.state = "WRITE_DRAIN" /\ gowin'.drained = gowin.drained + 1
                  /\ ~gowin'.response_valid
               \/ /\ gowin.state = "WRITE_DRAIN" /\ Ui!Drained
                  /\ gowin'.state = "IDLE" /\ gowin'.response_valid
         \/ /\ gowin.state \in {"READ_COMMAND", "READ_RESPONSE"}
            /\ gowin'.beat = gowin.beat /\ gowin'.half = gowin.half
            /\ \/ gowin'.state \in {"READ_COMMAND", "READ_RESPONSE"} /\ ~gowin'.response_valid
               \/ /\ gowin'.state = "IDLE" /\ gowin'.response_valid
                  /\ gowin'.read_data = Ui!HalfLine(beat_data, gowin.half)
<1> USE DEF Types, TypeOK, Ui!GowinRegisters, Ui!GowinQuiet
<1> HIDE PathAssumption
<1>1. CASE Ui!GowinIdle(adapter.line_request, adapter.line_write, adapter.line, adapter.line_data,
                        adapter.line_enable)
  BY ZenonT(60), <1>1 DEF Ui!GowinIdle, Ui!LineReady
<1>2. CASE Ui!GowinWrite(command_ready, data_ready)
  BY <1>2 DEF Ui!GowinWrite
<1>3. CASE Ui!GowinDrain
  BY <1>3 DEF Ui!GowinDrain
<1>4. CASE Ui!GowinRead(command_ready, valid, beat_data)
  BY ZenonT(60), <1>4 DEF Ui!GowinRead, Ui!LineRead
<1> QED BY <1>1, <1>2, <1>3, <1>4 DEF Ui!GowinEdge

\* The controller: the write of the interface is the only one in its queue.
LEMMA DdrMoves ==
  ASSUME Types, UiInv, NEW command_ready \in BOOLEAN, NEW data_ready \in BOOLEAN, NEW valid \in BOOLEAN,
         DdrEdge(command_ready, data_ready, valid)
  PROVE  \/ /\ ~Queued /\ Ui!WritePresented(command_ready, data_ready)
            /\ ddr'.cells = ddr.cells /\ ddr'.age = 0
            /\ ddr'.queued = [beat |-> gowin.beat, data |-> gowin.write_data, enabled |-> gowin.enabled]
         \/ /\ ~Queued /\ ~Ui!WritePresented(command_ready, data_ready)
            /\ ddr'.cells = ddr.cells /\ ddr'.queued = NoWrite /\ ddr'.age = ddr.age
         \/ /\ Queued /\ ddr'.cells = Committed /\ ddr'.queued = NoWrite /\ ddr'.age = 0
         \/ /\ Queued /\ ddr.age + 1 < CommitCycles
            /\ ddr'.cells = ddr.cells /\ ddr'.queued = ddr.queued /\ ddr'.age = ddr.age + 1
<1>1. Queued => ~Ui!WritePresented(command_ready, data_ready)
  BY DEF UiInv, Ui!WritePresented
<1>2. PICK landed \in Landed :
        IF Ui!WritePresented(command_ready, data_ready)
        THEN ddr' = [landed EXCEPT !.age = 0,
                       !.queued = [beat |-> gowin.beat, data |-> gowin.write_data, enabled |-> gowin.enabled]]
        ELSE \E reading : ddr' = [landed EXCEPT !.reading = reading]
  BY DEF DdrEdge
<1>3. \/ ~Queued /\ landed = ddr
      \/ /\ Queued /\ landed = [ddr EXCEPT !.cells = Committed, !.queued = NoWrite, !.age = 0]
      \/ /\ Queued /\ ddr.age + 1 < CommitCycles /\ landed = [ddr EXCEPT !.age = @ + 1]
  BY <1>2 DEF Landed
<1> HIDE DEF Committed, NoWrite
<1> QED BY ZenonT(60), <1>1, <1>2, <1>3 DEF Types, Queued

\* The write in the queue is the byte of the transaction, at its address.
LEMMA WriteCarried ==
  ASSUME Types, LineInv, UiInv, gowin.state \in {"WRITE", "WRITE_DRAIN"}
  PROVE  LET payload == destination.payload IN
           /\ destination.state = "RESPONSE" /\ adapter.state = "RESPONSE" /\ payload.write
           /\ gowin.beat = Ui!BeatOf(payload.address.line) /\ gowin.half = Ui!HalfOf(payload.address.line)
           /\ gowin.enabled = {<<gowin.half, payload.address.lane>>}
           /\ gowin.write_data[<<gowin.half, payload.address.lane>>] = payload.data
<1> DEFINE payload == destination.payload
           lane == payload.address.lane
<1>1. /\ adapter.state = "RESPONSE" /\ destination.state = "RESPONSE" /\ Carried
      /\ adapter.line_write
      /\ gowin.write_data = Ui!InHalf(gowin.half, adapter.line_data)
      /\ gowin.enabled = Ui!Unmasked(gowin.half, adapter.line_enable)
      /\ gowin.beat = Ui!BeatOf(adapter.line) /\ gowin.half = Ui!HalfOf(adapter.line)
  BY DEF Types, TypeOK, LineInv, UiInv, Line!AdapterRegisters, Bridge!DestinationRegisters
<1>2. lane \in Lanes /\ payload.data \in Bytes /\ gowin.half \in Ui!Halves
  BY DEF Types, TypeOK, Bridge!DestinationRegisters, Svc!Transactions, Addresses, Ui!GowinRegisters
<1>3. adapter.line_data[lane] = payload.data /\ adapter.line_enable = {lane}
  BY <1>1, <1>2 DEF Carried, Line!Blank
<1>4. gowin.enabled = {<<gowin.half, lane>>}
  BY <1>1, <1>3 DEF Ui!Unmasked
<1>5. gowin.write_data[<<gowin.half, lane>>] = adapter.line_data[lane]
  BY <1>1, <1>2 DEF Ui!InHalf
<1> QED BY <1>1, <1>3, <1>4, <1>5 DEF Carried

\* A line is in one half of one beat, and no two lines share it.
LEMMA Halved ==
  ASSUME NEW line \in Lines
  PROVE  /\ Ui!BeatOf(line) \in Ui!Beats /\ Ui!HalfOf(line) \in Ui!Halves
         /\ line = 2 * Ui!BeatOf(line) + Ui!HalfOf(line)
<1>1. line \in Nat
  BY DEF PathAssumption
<1> QED BY <1>1 DEF Ui!Beats, Ui!BeatOf, Ui!HalfOf, Ui!Halves

\* When it lands, it changes that byte of the store and no other.
LEMMA CommitStores ==
  ASSUME Types, LineInv, UiInv, Queued, ddr'.cells = Committed, NEW address \in Addresses
  PROVE  ByteIn(ddr'.cells, address) = IF address = destination.payload.address THEN destination.payload.data
                                       ELSE ByteIn(ddr.cells, address)
<1> DEFINE asked == destination.payload.address
           cell == <<Ui!HalfOf(address.line), address.lane>>
           beat == Ui!BeatOf(address.line)
<1>1. /\ gowin.beat = Ui!BeatOf(asked.line) /\ gowin.half = Ui!HalfOf(asked.line)
      /\ ddr.queued.beat = gowin.beat
      /\ ddr.queued.enabled = {<<gowin.half, asked.lane>>}
      /\ ddr.queued.data[<<gowin.half, asked.lane>>] = destination.payload.data
  BY WriteCarried DEF UiInv
<1>2. /\ address.line \in Lines /\ address.lane \in Lanes /\ asked.line \in Lines /\ asked.lane \in Lanes
      /\ address = [line |-> address.line, lane |-> address.lane]
      /\ asked = [line |-> asked.line, lane |-> asked.lane]
  BY DEF Types, TypeOK, Bridge!DestinationRegisters, Svc!Transactions, Addresses
<1>3. address = asked <=> beat = gowin.beat /\ cell = <<gowin.half, asked.lane>>
  <2>1. address.line = 2 * beat + Ui!HalfOf(address.line)
    BY <1>2, Halved
  <2>2. asked.line = 2 * gowin.beat + gowin.half
    BY <1>1, <1>2, Halved
  <2> QED BY <1>1, <1>2, <2>1, <2>2
<1>4. beat \in Ui!Beats /\ cell \in Ui!Halves \X Lanes /\ DOMAIN ddr.cells[beat] = Ui!Halves \X Lanes
  BY <1>2, Halved DEF Types, Ui!BeatData
<1>5. ByteIn(ddr'.cells, address) = Committed[beat][cell]
  BY DEF ByteIn
<1>6. Committed[beat][cell] =
        IF beat = ddr.queued.beat /\ cell \in ddr.queued.enabled THEN ddr.queued.data[cell]
        ELSE ddr.cells[beat][cell]
  BY <1>4 DEF Committed
<1> HIDE DEF beat, cell, asked
<1>7. ByteIn(ddr.cells, address) = ddr.cells[beat][cell]
  BY DEF ByteIn, beat, cell
<1> QED BY <1>1, <1>3, <1>5, <1>6, <1>7 DEF asked

LEMMA UiKeeps ==
  ASSUME Types, Proved!BridgeInv, LineInv, UiInv, MemoryEdge
  PROVE  UiInv'
<1>1. PICK command_ready \in BOOLEAN, data_ready \in BOOLEAN, valid \in BOOLEAN :
        /\ DdrEdge(command_ready, data_ready, valid)
        /\ Ui!GowinEdge(adapter.line_request, adapter.line_write, adapter.line, adapter.line_data,
                        adapter.line_enable, command_ready, data_ready, valid, ddr.cells[gowin.beat])
        /\ Line!AdapterEdge(destination.request, destination.payload.write, destination.payload.address,
                            destination.payload.data, Ui!LineReady, gowin.response_valid, gowin.read_data)
  BY DEF MemoryEdge
<1>2. 0 \in 0 .. WriteDrainCycles /\ CommitCycles \in Nat /\ WriteDrainCycles \in Nat
      /\ CommitCycles <= WriteDrainCycles /\ 1 <= CommitCycles
  BY DEF PathAssumption
<1>3. Queued => ddr.age \in Nat /\ gowin.drained \in Nat
  BY DEF Types, TypeOK, Ui!GowinRegisters
<1>4. ddr'.queued = NoWrite => ~Queued'
  BY DEF Queued, NoWrite
<1> USE DEF UiInv
<1>5. Queued' =>
        /\ gowin'.state = "WRITE_DRAIN" /\ ddr'.age = gowin'.drained
        /\ ddr'.queued = [beat |-> gowin'.beat, data |-> gowin'.write_data, enabled |-> gowin'.enabled]
  BY <1>1, <1>2, <1>3, <1>4, DdrMoves, GowinMoves DEF Ui!WritePresented, Ui!Drained
<1>6. /\ adapter'.state \in {"IDLE", "ISSUE"} => gowin'.state = "IDLE" /\ ~gowin'.response_valid
      /\ adapter'.state = "RESPONSE" => (gowin'.state = "IDLE" <=> gowin'.response_valid)
  BY <1>1, AdapterMoves, GowinMoves DEF LineInv
<1>7. /\ gowin'.state # "IDLE" =>
           gowin'.beat = Ui!BeatOf(adapter'.line) /\ gowin'.half = Ui!HalfOf(adapter'.line)
      /\ gowin'.state \in {"WRITE", "WRITE_DRAIN"} =>
           /\ adapter'.line_write
           /\ gowin'.write_data = Ui!InHalf(gowin'.half, adapter'.line_data)
           /\ gowin'.enabled = Ui!Unmasked(gowin'.half, adapter'.line_enable)
      /\ gowin'.state \in {"READ_COMMAND", "READ_RESPONSE"} => ~adapter'.line_write
  BY <1>1, AdapterMoves, GowinMoves DEF LineInv
<1> QED BY <1>5, <1>6, <1>7 DEF Ui!BeatOf, Ui!HalfOf, Ui!InHalf, Ui!Unmasked

\* What an edge does to the store: nothing, or the queued byte lands.
LEMMA StoreMoves ==
  ASSUME Types, LineInv, UiInv, MemoryEdge
  PROVE  \/ /\ Queued => Queued'
            /\ \A address : ByteIn(ddr'.cells, address) = ByteIn(ddr.cells, address)
         \/ /\ Queued /\ ~Queued'
            /\ \A address \in Addresses :
                 ByteIn(ddr'.cells, address) = IF address = destination.payload.address THEN destination.payload.data
                                      ELSE ByteIn(ddr.cells, address)
<1>1. PICK command_ready \in BOOLEAN, data_ready \in BOOLEAN, valid \in BOOLEAN :
        DdrEdge(command_ready, data_ready, valid)
  BY DEF MemoryEdge
<1>2. CASE ddr'.cells = ddr.cells /\ (Queued => Queued')
  BY <1>2
<1>3. CASE Queued /\ ddr'.cells = Committed /\ ddr'.queued = NoWrite
  <2>1. \A address \in Addresses :
          ByteIn(ddr'.cells, address) = IF address = destination.payload.address THEN destination.payload.data
                               ELSE ByteIn(ddr.cells, address)
    BY <1>3, CommitStores
  <2>2. ~Queued'
    BY <1>3 DEF Queued, NoWrite
  <2> QED BY <1>3, <2>1, <2>2
<1> QED BY <1>1, <1>2, <1>3, DdrMoves DEF Queued

\* Nothing is in the controller's queue unless the far side is at work on a write.
LEMMA QueueBusy ==
  ASSUME Types, Proved!BridgeInv, CrossInv, LineInv, UiInv, Queued
  PROVE  /\ destination.state = "RESPONSE" /\ adapter.state = "RESPONSE" /\ gowin.state = "WRITE_DRAIN"
         /\ ~gowin.response_valid /\ ~adapter.response_valid
         /\ Proved!Phase = "offered" /\ source.outstanding
         /\ service.state \in {"RESPONSE", "FAULT"} /\ ~(service.state = "RESPONSE" /\ source.response_valid)
<1>1. gowin.state = "WRITE_DRAIN"
  BY DEF UiInv
<1>2. destination.state = "RESPONSE" /\ adapter.state = "RESPONSE"
  BY <1>1, WriteCarried
<1>3. ~gowin.response_valid /\ ~adapter.response_valid
  BY <1>1, <1>2 DEF LineInv, UiInv
<1>4. Proved!Phase = "offered" /\ source.outstanding
  BY <1>2 DEF Proved!BridgeInv, Proved!EmptyInv, Proved!AnsweredInv, Proved!Phase
<1> QED BY <1>1, <1>2, <1>3, <1>4 DEF CrossInv, Types, TypeOK, Svc!ServiceRegisters

LEMMA MemoryDataKeeps ==
  ASSUME Types, CpuInv, CrossInv, Proved!BridgeInv, LineInv, UiInv, DataInv, MemoryEdge
  PROVE  DataInv'
<1>1. PICK command_ready \in BOOLEAN, data_ready \in BOOLEAN, valid \in BOOLEAN :
        /\ DdrEdge(command_ready, data_ready, valid)
        /\ Ui!GowinEdge(adapter.line_request, adapter.line_write, adapter.line, adapter.line_data,
                        adapter.line_enable, command_ready, data_ready, valid, ddr.cells[gowin.beat])
        /\ Line!AdapterEdge(destination.request, destination.payload.write, destination.payload.address,
                            destination.payload.data, Ui!LineReady, gowin.response_valid, gowin.read_data)
        /\ Bridge!DestinationEdge(Line!ByteReady, adapter.response_valid, adapter.read_data)
        /\ UNCHANGED <<core, service, source>>
  BY DEF MemoryEdge
<1> DEFINE payload == destination.payload
           lane == payload.address.lane
<1>2. payload.address \in Addresses /\ lane \in Lanes /\ payload.write \in BOOLEAN
  BY DEF Types, TypeOK, Bridge!DestinationRegisters, Svc!Transactions, Addresses
<1>4. gowin.state = "WRITE_DRAIN" /\ ~Queued' => ByteIn(ddr'.cells, payload.address) = payload.data
  BY <1>2, StoreMoves, QueueBusy DEF DataInv
<1>5. gowin'.state = "WRITE_DRAIN" /\ ~Queued' =>
        ByteIn(ddr'.cells, destination'.payload.address) = destination'.payload.data
  <2> SUFFICES ASSUME gowin'.state = "WRITE_DRAIN", ~Queued'
               PROVE  ByteIn(ddr'.cells, destination'.payload.address) = destination'.payload.data
    OBVIOUS
  <2>1. gowin.state \in {"WRITE", "WRITE_DRAIN"}
    BY <1>1, GowinMoves
  <2>2. destination.state = "RESPONSE" /\ adapter.state = "RESPONSE" /\ ~adapter.response_valid
        /\ gowin.enabled = {<<gowin.half, lane>>}
    BY <2>1, WriteCarried DEF LineInv
  <2>3. destination'.payload = payload
    BY <1>1, <2>2, DestinationMoves
  <2>4. gowin.state # "WRITE"
    <3> SUFFICES ASSUME gowin.state = "WRITE" PROVE FALSE
      OBVIOUS
    <3>1. command_ready /\ data_ready
      BY <1>1, GowinMoves
    <3>2. ~Queued
      BY DEF UiInv
    <3>3. Ui!WritePresented(command_ready, data_ready)
      BY <3>1 DEF Ui!WritePresented
    <3>4. ddr'.queued = [beat |-> gowin.beat, data |-> gowin.write_data, enabled |-> gowin.enabled]
      BY <1>1, <3>2, <3>3, DdrMoves
    <3>5. ddr'.queued.enabled = {<<gowin.half, lane>>} /\ NoWrite.enabled = {}
      BY <2>2, <3>4 DEF NoWrite
    <3> QED BY <3>5 DEF Queued
  <2> QED BY <1>4, <2>1, <2>3, <2>4
<1>6. gowin'.response_valid => DoneIn(ddr'.cells, destination'.payload, gowin'.read_data[destination'.payload.address.lane])
  <2> SUFFICES ASSUME gowin'.response_valid
               PROVE  DoneIn(ddr'.cells, destination'.payload, gowin'.read_data[destination'.payload.address.lane])
    OBVIOUS
  <2>1. \/ gowin.state = "WRITE_DRAIN" /\ Ui!Drained
        \/ /\ gowin.state \in {"READ_COMMAND", "READ_RESPONSE"}
           /\ gowin'.read_data = Ui!HalfLine(ddr.cells[gowin.beat], gowin.half)
    BY <1>1, GowinMoves
  <2>2. adapter.state = "RESPONSE" /\ destination.state = "RESPONSE" /\ ~adapter.response_valid /\ Carried
    BY <2>1 DEF LineInv, UiInv, Types, TypeOK, Line!AdapterRegisters, Bridge!DestinationRegisters
  <2>3. destination'.payload = payload
    BY <1>1, <2>2, DestinationMoves
  <2>4. CASE gowin.state = "WRITE_DRAIN" /\ Ui!Drained
    <3>1. payload.write
      BY <2>4, WriteCarried
    <3>2. ~Queued'
      <4>1. CommitCycles \in Nat /\ WriteDrainCycles \in Nat /\ CommitCycles <= WriteDrainCycles
            /\ 1 <= CommitCycles
        BY DEF PathAssumption
      <4>2. Queued => ddr.age \in Nat /\ ddr.age = gowin.drained
        BY DEF Types, UiInv
      <4>3. ddr'.queued = NoWrite => ~Queued'
        BY DEF Queued, NoWrite
      <4> QED BY <1>1, <2>4, <4>1, <4>2, <4>3, DdrMoves DEF Ui!Drained, Ui!WritePresented
    <3> QED BY <1>4, <2>3, <2>4, <3>1, <3>2 DEF Done, DoneIn
  <2>5. CASE /\ gowin.state \in {"READ_COMMAND", "READ_RESPONSE"}
             /\ gowin'.read_data = Ui!HalfLine(ddr.cells[gowin.beat], gowin.half)
    <3>1. ~payload.write /\ gowin.beat = Ui!BeatOf(payload.address.line)
          /\ gowin.half = Ui!HalfOf(payload.address.line)
      BY <2>2, <2>5 DEF Carried, UiInv
    <3>2. gowin'.read_data[lane] = ByteIn(ddr.cells, payload.address)
      BY <1>2, <2>5, <3>1 DEF Ui!HalfLine, ByteIn
    <3>3. ~Queued
      BY <2>5 DEF UiInv
    <3>4. Done(payload, gowin'.read_data[lane])
      BY <3>1, <3>2 DEF Done, DoneIn
    <3>5. ByteIn(ddr'.cells, payload.address) = ByteIn(ddr.cells, payload.address)
      BY <3>3, StoreMoves
    <3> QED BY <2>3, <3>1, <3>2, <3>5 DEF Done, DoneIn
  <2> QED BY <2>1, <2>4, <2>5
<1>7. adapter'.response_valid => DoneIn(ddr'.cells, destination'.payload, adapter'.read_data)
  <2> SUFFICES ASSUME adapter'.response_valid PROVE DoneIn(ddr'.cells, destination'.payload, adapter'.read_data)
    OBVIOUS
  <2>1. /\ adapter.state = "RESPONSE" /\ gowin.response_valid
        /\ adapter'.read_data = IF adapter.line_write THEN adapter.read_data ELSE gowin.read_data[adapter.read_lane]
    BY <1>1, AdapterMoves
  <2>2. destination.state = "RESPONSE" /\ ~adapter.response_valid /\ Carried /\ ~Queued
    BY <2>1, QueueBusy DEF LineInv, Types, TypeOK, Bridge!DestinationRegisters
  <2>3. destination'.payload = payload
    BY <1>1, <2>2, DestinationMoves
  <2>4. Done(payload, gowin.read_data[lane])
    BY <2>1 DEF DataInv
  <2>5. ByteIn(ddr'.cells, payload.address) = ByteIn(ddr.cells, payload.address)
    BY <2>2, StoreMoves
  <2> QED BY <2>1, <2>2, <2>3, <2>4, <2>5 DEF Done, DoneIn, Carried
<1>8. Proved!Phase' = "answered" => DoneIn(ddr'.cells, source.request_hold, destination'.response_hold)
  <2> SUFFICES ASSUME Proved!Phase' = "answered" PROVE DoneIn(ddr'.cells, source.request_hold, destination'.response_hold)
    OBVIOUS
  <2>1. source.outstanding /\ destination'.response_toggle = source.request_toggle
    BY <1>1 DEF Proved!Phase
  <2>2. CASE destination.response_toggle = source.request_toggle
    <3>1. Proved!Phase = "answered" /\ destination.state = "IDLE"
      BY <2>1, <2>2 DEF Proved!Phase, Proved!BridgeInv, Proved!AnsweredInv
    <3>2. destination'.response_hold = destination.response_hold /\ ~Queued
      BY <1>1, <3>1, DestinationMoves, QueueBusy
    <3>3. \A address : ByteIn(ddr'.cells, address) = ByteIn(ddr.cells, address)
      BY <3>2, StoreMoves
    <3> QED BY <3>1, <3>2, <3>3 DEF DataInv, Done, DoneIn
  <2>3. CASE destination.response_toggle # source.request_toggle
    <3>1. destination.state = "RESPONSE" /\ adapter.response_valid /\ destination'.response_hold = adapter.read_data
      BY <1>1, <2>1, <2>3, DestinationMoves
    <3>2. Proved!Phase = "offered" /\ payload = source.request_hold
      BY <2>1, <2>3, <3>1 DEF Proved!Phase, Proved!BridgeInv, Proved!OfferedInv
    <3>3. \A address : ByteIn(ddr'.cells, address) = ByteIn(ddr.cells, address)
      BY <3>1, QueueBusy, StoreMoves
    <3> QED BY <3>1, <3>2, <3>3 DEF DataInv, Done, DoneIn
  <2> QED BY <2>2, <2>3
<1>9. /\ service.state = "RESPONSE" /\ source.response_valid => DoneIn(ddr'.cells, core.transaction, source.read_data)
      /\ service.complete => DoneIn(ddr'.cells, core.transaction, service.read_data)
  <2>1. service.complete => service.state = "IDLE"
    BY DEF CpuInv
  <2>2. (service.state = "RESPONSE" /\ source.response_valid) \/ service.complete =>
          \A address : ByteIn(ddr'.cells, address) = ByteIn(ddr.cells, address)
    BY <2>1, QueueBusy, StoreMoves
  <2> QED BY <1>1, <2>2 DEF DataInv, Done, DoneIn
<1> QED BY <1>1, <1>5, <1>6, <1>7, <1>8, <1>9 DEF DataInv, Done, ByteIn

LEMMA MemoryTypes ==
  ASSUME Types, LineInv, UiInv, MemoryEdge
  PROVE  Types'
<1>1. PICK command_ready \in BOOLEAN, data_ready \in BOOLEAN, valid \in BOOLEAN :
        /\ DdrEdge(command_ready, data_ready, valid)
        /\ Ui!GowinEdge(adapter.line_request, adapter.line_write, adapter.line, adapter.line_data,
                        adapter.line_enable, command_ready, data_ready, valid, ddr.cells[gowin.beat])
        /\ Line!AdapterEdge(destination.request, destination.payload.write, destination.payload.address,
                            destination.payload.data, Ui!LineReady, gowin.response_valid, gowin.read_data)
        /\ Bridge!DestinationEdge(Line!ByteReady, adapter.response_valid, adapter.read_data)
        /\ UNCHANGED <<core, service, source>>
  BY DEF MemoryEdge
<1>2. /\ core \in [phase : {"idle", "asking", "done"}, transaction : Accesses, taken : Bytes]
      /\ service \in Svc!ServiceRegisters /\ source \in Bridge!SourceRegisters
      /\ destination \in Bridge!DestinationRegisters /\ adapter \in Line!AdapterRegisters
      /\ gowin \in Ui!GowinRegisters
      /\ ddr.cells \in [Ui!Beats -> Ui!BeatData] /\ ddr.queued \in {NoWrite} \union CommandsToDdr
      /\ ddr.age \in 0 .. CommitCycles - 1 /\ ddr.reading \in BOOLEAN
  BY DEF Types, TypeOK
<1>3. /\ destination.payload.write \in BOOLEAN /\ destination.payload.data \in Bytes
      /\ destination.payload.address.line \in Lines /\ destination.payload.address.lane \in Lanes
  BY <1>2 DEF Bridge!DestinationRegisters, Svc!Transactions, Addresses
<1>4. destination' \in Bridge!DestinationRegisters
  <2>1. Proved!TypeOK /\ Line!ByteReady \in BOOLEAN /\ adapter.response_valid \in BOOLEAN /\ adapter.read_data \in Bytes
    BY <1>2, SameTypes DEF Line!AdapterRegisters, Line!ByteReady
  <2>2. Proved!DestinationEdge(Line!ByteReady, adapter.response_valid, adapter.read_data)
    BY <1>1, SameDestination
  <2>3. destination' \in Proved!DestinationRegisters
    BY <2>1, <2>2, BridgeAssumed, Proved!DestinationType
  <2> QED BY <2>3 DEF Proved!DestinationRegisters, Bridge!DestinationRegisters, Proved!Bit, Bridge!Bit
<1>5. adapter' \in Line!AdapterRegisters
  <2> DEFINE data == [Line!Blank EXCEPT ![destination.payload.address.lane] = destination.payload.data]
  <2>1. Line!Quiet \in Line!AdapterRegisters
    BY <1>2 DEF Line!Quiet, Line!AdapterRegisters
  <2>2. Line!ByteDone(gowin.read_data) \in Line!AdapterRegisters
    BY <1>2, <2>1 DEF Line!ByteDone, Line!AdapterRegisters, Ui!GowinRegisters
  <2>3. data \in Line!LineData /\ {destination.payload.address.lane} \in SUBSET Lanes
    BY <1>3 DEF Line!Blank, Line!LineData, PathAssumption
  <2> HIDE DEF data
  <2>4. CASE Line!AdapterIdle(destination.request, destination.payload.write, destination.payload.address,
                              destination.payload.data)
    <3>1. \/ adapter' = [Line!Quiet EXCEPT !.line_write = destination.payload.write,
               !.line = destination.payload.address.line, !.read_lane = destination.payload.address.lane,
               !.line_data = data, !.line_enable = {destination.payload.address.lane},
               !.line_request = TRUE, !.state = "ISSUE"]
          \/ adapter' = [Line!Quiet EXCEPT !.line_request = FALSE]
      BY <2>4 DEF Line!AdapterIdle, data
    <3> QED BY ZenonT(60), <1>3, <2>1, <2>3, <3>1 DEF Line!AdapterRegisters
  <2>5. CASE Line!AdapterIssue(Ui!LineReady, gowin.response_valid, gowin.read_data)
    BY <2>1, <2>2, <2>5 DEF Line!AdapterIssue, Line!AdapterRegisters
  <2>6. CASE Line!AdapterResponse(gowin.response_valid, gowin.read_data)
    BY <2>1, <2>2, <2>6 DEF Line!AdapterResponse
  <2> QED BY <1>1, <2>4, <2>5, <2>6 DEF Line!AdapterEdge
<1>6. gowin' \in Ui!GowinRegisters
  <2>1. Ui!GowinQuiet \in Ui!GowinRegisters /\ 0 \in 0 .. WriteDrainCycles
    <3>1. 0 \in 0 .. WriteDrainCycles
      BY DEF PathAssumption
    <3> QED BY <1>2, <3>1 DEF Ui!GowinQuiet, Ui!GowinRegisters
  <2>2. /\ adapter.line \in Lines /\ adapter.line_data \in [Lanes -> Bytes] /\ adapter.line_enable \in SUBSET Lanes
    BY <1>2 DEF Line!AdapterRegisters, Line!LineData
  <2>3. /\ Ui!BeatOf(adapter.line) \in Ui!Beats /\ Ui!HalfOf(adapter.line) \in Ui!Halves
    BY <2>2, Halved
  <2>4. Ui!InHalf(Ui!HalfOf(adapter.line), adapter.line_data) \in Ui!BeatData
    BY <2>2 DEF Ui!InHalf, Ui!BeatData, PathAssumption
  <2>5. Ui!Unmasked(Ui!HalfOf(adapter.line), adapter.line_enable) \in SUBSET (Ui!Halves \X Lanes)
    BY <2>2, <2>3 DEF Ui!Unmasked
  <2>6. CASE Ui!GowinIdle(adapter.line_request, adapter.line_write, adapter.line, adapter.line_data,
                          adapter.line_enable)
    BY ZenonT(60), <2>1, <2>3, <2>4, <2>5, <2>6 DEF Ui!GowinIdle, Ui!GowinRegisters
  <2>7. CASE Ui!GowinWrite(command_ready, data_ready)
    BY <2>1, <2>7 DEF Ui!GowinWrite, Ui!GowinRegisters
  <2>8. CASE Ui!GowinDrain
    <3>1. ~Ui!Drained => gowin.drained + 1 \in 0 .. WriteDrainCycles
      BY <1>2 DEF Ui!Drained, Ui!GowinRegisters, PathAssumption
    <3>2. Ui!GowinQuiet.drained = gowin.drained
      BY <1>2 DEF Ui!GowinQuiet, Ui!GowinRegisters
    <3> QED BY <2>1, <2>8, <3>1, <3>2 DEF Ui!GowinDrain, Ui!GowinRegisters
  <2>9. CASE Ui!GowinRead(command_ready, valid, ddr.cells[gowin.beat])
    <3>1. Ui!HalfLine(ddr.cells[gowin.beat], gowin.half) \in [Lanes -> Bytes]
      BY <1>2 DEF Ui!HalfLine, Ui!GowinRegisters, Ui!BeatData
    <3>2. Ui!LineRead(ddr.cells[gowin.beat]) \in Ui!GowinRegisters
      BY <2>1, <3>1 DEF Ui!LineRead, Ui!GowinRegisters
    <3> QED BY <2>1, <2>9, <3>2 DEF Ui!GowinRead, Ui!GowinRegisters
  <2> QED BY <1>1, <2>6, <2>7, <2>8, <2>9 DEF Ui!GowinEdge
<1>7. ddr' \in [cells : [Ui!Beats -> Ui!BeatData], queued : {NoWrite} \union CommandsToDdr,
               age : 0 .. CommitCycles - 1, reading : BOOLEAN]
  <2> DEFINE controller == [cells : [Ui!Beats -> Ui!BeatData], queued : {NoWrite} \union CommandsToDdr,
                            age : 0 .. CommitCycles - 1, reading : BOOLEAN]
             command == [beat |-> gowin.beat, data |-> gowin.write_data, enabled |-> gowin.enabled]
  <2>1. 0 \in 0 .. CommitCycles - 1
    BY DEF PathAssumption
  <2>2. Committed \in [Ui!Beats -> Ui!BeatData]
    <3> SUFFICES ASSUME NEW beat \in Ui!Beats PROVE Committed[beat] \in Ui!BeatData
      BY DEF Committed
    <3>1. ddr.cells[beat] \in [Ui!Halves \X Lanes -> Bytes]
      BY <1>2 DEF Ui!BeatData
    <3>2. CASE beat # ddr.queued.beat \/ ~Queued
      BY <3>1, <3>2 DEF Committed, Ui!BeatData, Queued, NoWrite
    <3>3. CASE beat = ddr.queued.beat /\ Queued
      <4>1. ddr.queued.data \in [Ui!Halves \X Lanes -> Bytes]
        BY <1>2, <3>3 DEF Queued, CommandsToDdr, Ui!BeatData
      <4> QED BY <3>1, <3>3, <4>1 DEF Committed, Ui!BeatData
    <3> QED BY <3>2, <3>3
  <2>3. command \in CommandsToDdr
    BY <1>2 DEF CommandsToDdr, Ui!GowinRegisters
  <2>4. ddr \in controller
    BY DEF Types
  <2>5. ASSUME NEW landed \in Landed PROVE landed \in controller
    <3>1. \/ landed = ddr
          \/ landed = [ddr EXCEPT !.cells = Committed, !.queued = NoWrite, !.age = 0]
          \/ ddr.age + 1 < CommitCycles /\ landed = [ddr EXCEPT !.age = @ + 1]
      BY <2>5 DEF Landed
    <3>2. ddr.age + 1 < CommitCycles => ddr.age + 1 \in 0 .. CommitCycles - 1
      BY <1>2 DEF PathAssumption
    <3> HIDE DEF Committed, NoWrite
    <3> QED BY <2>1, <2>2, <2>4, <3>1, <3>2
  <2>6. PICK landed \in Landed :
          \/ ddr' = [landed EXCEPT !.age = 0, !.queued = command]
          \/ \E reading \in BOOLEAN : ddr' = [landed EXCEPT !.reading = reading]
    <3>1. (ddr.reading \/ (Ui!ReadPresented /\ command_ready)) \in BOOLEAN
      BY <1>2 DEF Ui!ReadPresented
    <3> QED BY <1>1, <3>1 DEF DdrEdge
  <2> HIDE DEF command
  <2> QED BY <2>1, <2>3, <2>5, <2>6
<1>8. service'.state = "ISSUE" => service'.waited < MaxWaitCycles
  BY <1>1 DEF Types
<1> QED BY <1>1, <1>2, <1>4, <1>5, <1>6, <1>7, <1>8 DEF Types, TypeOK

(***************************************************************************)
(* The two resets together, and the start.                                 *)
(***************************************************************************)
LEMMA ResetTypes ==
  /\ Svc!ServiceReset \in Svc!ServiceRegisters
  /\ Bridge!SourceReset \in Bridge!SourceRegisters
  /\ Bridge!DestinationReset \in Bridge!DestinationRegisters
  /\ Line!AdapterReset \in Line!AdapterRegisters
  /\ Ui!GowinReset \in Ui!GowinRegisters
  /\ Svc!ZeroTransaction \in Accesses
<1>1. Svc!ZeroTransaction \in Svc!Transactions /\ Svc!ZeroTransaction.data = ZeroByte
  BY BridgeAssumed DEF Svc!ZeroTransaction
<1>2. 0 \in 0 .. MaxWaitCycles /\ 0 \in 0 .. WriteDrainCycles
  BY DEF PathAssumption
<1>3. Svc!ServiceReset \in Svc!ServiceRegisters
  BY <1>1, <1>2 DEF Svc!ServiceReset, Svc!ServiceRegisters, PathAssumption
<1>4. Bridge!SourceReset \in Bridge!SourceRegisters /\ Bridge!DestinationReset \in Bridge!DestinationRegisters
  BY <1>1, BridgeAssumed DEF Bridge!SourceReset, Bridge!SourceRegisters, Bridge!DestinationReset,
       Bridge!DestinationRegisters, Bridge!Bit
<1>5. Line!AdapterReset \in Line!AdapterRegisters
  BY DEF Line!AdapterReset, Line!AdapterRegisters, Line!Blank, Line!LineData, PathAssumption
<1>6. Ui!GowinReset \in Ui!GowinRegisters
  <2>1. Ui!BeatOf(0) \in Ui!Beats /\ 0 \in Ui!Halves
    BY DEF PathAssumption, Ui!Beats, Ui!Halves
  <2>2. Ui!BlankLine \in [Lanes -> Bytes]
    BY DEF Ui!BlankLine, PathAssumption
  <2>3. Ui!InHalf(0, Ui!BlankLine) \in Ui!BeatData
    BY <2>2 DEF Ui!InHalf, Ui!BeatData, PathAssumption
  <2> QED BY <1>2, <2>1, <2>2, <2>3 DEF Ui!GowinReset, Ui!GowinRegisters
<1> QED BY <1>1, <1>3, <1>4, <1>5, <1>6 DEF Accesses

LEMMA InitInv == Init => PathInv
<1> SUFFICES ASSUME Init PROVE PathInv
  OBVIOUS
<1> USE DEF Init
<1>1. ddr = DdrIdle(ddr.cells) /\ ddr.cells \in [Ui!Beats -> Ui!BeatData]
  BY DEF DdrIdle, Ui!BeatData, PathAssumption
<1>2. Types
  <2>1. 0 \in 0 .. CommitCycles - 1
    BY DEF PathAssumption
  <2>2. ddr \in [cells : [Ui!Beats -> Ui!BeatData], queued : {NoWrite} \union CommandsToDdr,
                 age : 0 .. CommitCycles - 1, reading : BOOLEAN]
    BY <1>1, <2>1 DEF DdrIdle
  <2>3. TypeOK
    BY ResetTypes DEF TypeOK, CoreReset, PathAssumption
  <2> QED BY <2>2, <2>3 DEF Types, Svc!ServiceReset
<1>3. CpuInv /\ CrossInv
  BY DEF CpuInv, CrossInv, NoOverrun, CoreReset, Svc!ServiceReset, Bridge!SourceReset
<1>4. Proved!BridgeInv
  <2>1. Proved!Init
    BY DEF Proved!Init, Proved!SourceReset, Proved!DestinationReset, Bridge!SourceReset, Bridge!DestinationReset
  <2> QED BY <2>1, BridgeAssumed, Proved!InvInit
<1>5. LineInv /\ UiInv
  BY <1>1 DEF LineInv, UiInv, Queued, DdrIdle, Bridge!DestinationReset, Line!AdapterReset, Ui!GowinReset
<1>6. DataInv
  BY DEF DataInv, Proved!Phase, Bridge!SourceReset, Line!AdapterReset, Ui!GowinReset, Svc!ServiceReset
<1> QED BY <1>2, <1>3, <1>4, <1>5, <1>6 DEF PathInv

LEMMA ResetInv == PathInv /\ CoordinatedReset => PathInv'
<1> SUFFICES ASSUME PathInv, CoordinatedReset PROVE PathInv'
  OBVIOUS
<1> USE DEF CoordinatedReset, MachineReset, MemoryReset
<1>1. core.taken \in Bytes /\ ddr.cells \in [Ui!Beats -> Ui!BeatData]
  BY DEF PathInv, Types, TypeOK
<1>2. Types'
  <2>1. 0 \in 0 .. CommitCycles - 1
    BY DEF PathAssumption
  <2>2. ddr' \in [cells : [Ui!Beats -> Ui!BeatData], queued : {NoWrite} \union CommandsToDdr,
                  age : 0 .. CommitCycles - 1, reading : BOOLEAN]
    BY <1>1, <2>1 DEF DdrIdle
  <2>3. TypeOK'
    BY <1>1, ResetTypes DEF TypeOK, CoreReset
  <2> QED BY <2>2, <2>3 DEF Types, Svc!ServiceReset
<1>3. CpuInv' /\ CrossInv'
  BY DEF CpuInv, CrossInv, NoOverrun, CoreReset, Svc!ServiceReset, Bridge!SourceReset
<1>4. Proved!BridgeInv'
  <2>1. Proved!TypeOK /\ Proved!BridgeInv
    BY SameTypes DEF PathInv, Types, TypeOK
  <2>2. Proved!CoordinatedReset
    BY DEF Proved!CoordinatedReset, Proved!SourceReset, Proved!DestinationReset, Bridge!SourceReset,
           Bridge!DestinationReset
  <2>3. [Proved!Next]_(Proved!vars)
    BY <2>2 DEF Proved!Next
  <2> QED BY <2>1, <2>3, BridgeAssumed, Proved!InvStep
<1>5. LineInv' /\ UiInv'
  BY DEF LineInv, UiInv, Queued, DdrIdle, Bridge!DestinationReset, Line!AdapterReset, Ui!GowinReset
<1>6. DataInv'
  BY DEF DataInv, Proved!Phase, Bridge!SourceReset, Line!AdapterReset, Ui!GowinReset, Svc!ServiceReset
<1> QED BY <1>2, <1>3, <1>4, <1>5, <1>6 DEF PathInv

(***************************************************************************)
(* Every step of the path keeps the invariant.                             *)
(***************************************************************************)
LEMMA MachineInv == PathInv /\ MachineEdge(TRUE) => PathInv'
<1> SUFFICES ASSUME PathInv, MachineEdge(TRUE) PROVE PathInv'
  OBVIOUS
<1>1. Types' /\ CpuInv' /\ CrossInv' /\ DataInv'
  BY MachineTypes, CpuKeeps, CrossKeeps, MachineDataKeeps DEF PathInv
<1>2. Proved!BridgeInv'
  <2>1. Proved!TypeOK /\ Proved!BridgeInv /\ service.request \in BOOLEAN /\ service.transaction \in Svc!Transactions
    BY SameTypes DEF PathInv, Types, TypeOK, Svc!ServiceRegisters
  <2>2. Proved!SourceEdge(service.request, service.transaction) /\ UNCHANGED destination
    BY SameSource DEF MachineEdge
  <2> QED BY <2>1, <2>2, BridgeAssumed, Proved!SourceInv
<1>3. LineInv' /\ UiInv'
  BY DEF PathInv, MachineEdge, LineInv, Carried, UiInv, Queued
<1> QED BY <1>1, <1>2, <1>3 DEF PathInv

LEMMA MemoryInv == PathInv /\ MemoryEdge => PathInv'
<1> SUFFICES ASSUME PathInv, MemoryEdge PROVE PathInv'
  OBVIOUS
<1>1. Types' /\ LineInv' /\ UiInv' /\ DataInv'
  BY MemoryTypes, LineKeeps, UiKeeps, MemoryDataKeeps DEF PathInv
<1>2. Proved!BridgeInv'
  <2>1. /\ Proved!TypeOK /\ Proved!BridgeInv
        /\ Line!ByteReady \in BOOLEAN /\ adapter.response_valid \in BOOLEAN /\ adapter.read_data \in Bytes
    BY SameTypes DEF PathInv, Types, TypeOK, Line!AdapterRegisters, Line!ByteReady
  <2>2. Proved!DestinationEdge(Line!ByteReady, adapter.response_valid, adapter.read_data) /\ UNCHANGED source
    BY SameDestination DEF MemoryEdge
  <2> QED BY <2>1, <2>2, BridgeAssumed, Proved!DestinationInv
<1>3. CpuInv' /\ CrossInv'
  BY DEF PathInv, MemoryEdge, CpuInv, CrossInv, NoOverrun
<1> QED BY <1>1, <1>2, <1>3 DEF PathInv

LEMMA StepInv == PathInv /\ [Next]_vars => PathInv'
<1>1. PathInv /\ UNCHANGED vars => PathInv'
  BY DEF PathInv, vars, Types, TypeOK, CpuInv, CrossInv, NoOverrun, LineInv, Carried, UiInv, Queued, DataInv, Done,
         Proved!BridgeInv, Proved!EmptyInv, Proved!SentInv, Proved!OfferedInv, Proved!AnsweredInv, Proved!Phase,
         Proved!RequestSettled, Proved!ResponseSettled
<1> QED BY <1>1, MachineInv, MemoryInv, ResetInv DEF Next

(***************************************************************************)
(* The inductive invariant holds.                                          *)
(***************************************************************************)
THEOREM PathInvariant == Spec => []PathInv
BY InitInv, StepInv, PTL DEF Spec

(***************************************************************************)
(* Every register of the path keeps its type: the wait counter stays in    *)
(* its width, the lanes and lines stay those of the memory.                *)
(***************************************************************************)
THEOREM TypeCorrect == Spec => []TypeOK
<1>1. PathInv => TypeOK
  BY DEF PathInv, Types
<1> QED BY <1>1, PathInvariant, PTL

(***************************************************************************)
(* The layers agree on the transaction in flight: nothing is answered that *)
(* was not asked, no request is taken for a second one.                    *)
(***************************************************************************)
THEOREM LayersAlwaysAgree == Spec => []LayersAgree
<1>1. PathInv => LayersAgree
  <2> SUFFICES ASSUME PathInv PROVE LayersAgree
    OBVIOUS
  <2>1. service.state # "IDLE" => core.phase = "asking" /\ service.transaction = core.transaction
    BY DEF PathInv, CpuInv
  <2>2. Queued => gowin.state = "WRITE_DRAIN"
    BY DEF PathInv, UiInv
  <2>3. adapter.state # "IDLE" \/ adapter.response_valid => destination.state = "RESPONSE"
    BY DEF PathInv, Types, TypeOK, LineInv, Bridge!DestinationRegisters
  <2>4. gowin.state # "IDLE" \/ gowin.response_valid => adapter.state = "RESPONSE"
    BY DEF PathInv, Types, TypeOK, UiInv, Line!AdapterRegisters
  <2>5. gowin.response_valid => gowin.state = "IDLE"
    BY <2>4 DEF PathInv, UiInv
  <2> QED BY <2>1, <2>2, <2>3, <2>4, <2>5 DEF PathInv, CpuInv, CrossInv, LayersAgree, Svc!Open
<1> QED BY <1>1, PathInvariant, PTL

(***************************************************************************)
(* What the CPU asked is what the far side is working on, and is still     *)
(* open, when a queued byte lands.                                         *)
(***************************************************************************)
LEMMA LandsForTheCpu ==
  ASSUME PathInv, Queued
  PROVE  core.phase = "asking" /\ core.transaction = destination.payload /\ core.transaction.write
<1>1. Proved!Phase = "offered" /\ source.outstanding /\ service.state \in {"RESPONSE", "FAULT"}
  BY QueueBusy DEF PathInv
<1>2. destination.payload = source.request_hold
  BY <1>1 DEF PathInv, Proved!BridgeInv, Proved!OfferedInv
<1>3. destination.payload.write
  BY WriteCarried DEF PathInv, UiInv
<1> QED BY <1>1, <1>2, <1>3 DEF PathInv, CpuInv, CrossInv

\* An access that completes is done.
LEMMA CompletedIsDone ==
  ASSUME PathInv, service.complete
  PROVE  IF core.transaction.write THEN StoredAt(core.transaction.address) = core.transaction.data
         ELSE service.read_data = StoredAt(core.transaction.address)
BY DEF PathInv, DataInv, Done, DoneIn, ByteIn, StoredAt

(***************************************************************************)
(* A read that completes returns the byte the memory holds at the address  *)
(* the CPU asked for.                                                      *)
(***************************************************************************)
THEOREM ReadsAreTrue == Spec => ReadsReturnStore
<1>1. ASSUME PathInv, [Next]_vars, core.phase = "asking", core'.phase # "asking", service.complete,
             ~core.transaction.write, ~MachineReset
      PROVE  core'.taken = StoredAt(core.transaction.address)
  <2>1. MachineEdge(TRUE)
    BY <1>1 DEF Next, vars, MemoryEdge, CoordinatedReset
  <2>2. core'.taken = service.read_data
    BY <1>1, <2>1 DEF MachineEdge, CoreEdge, PathInv, Types, TypeOK
  <2> QED BY <1>1, <2>2, CompletedIsDone
<1>2. PathInv /\ [Next]_vars =>
        (core.phase = "asking" /\ core'.phase # "asking" /\ service.complete
           /\ ~core.transaction.write /\ ~MachineReset
           => core'.taken = StoredAt(core.transaction.address))
  BY <1>1
<1> QED BY <1>2, PathInvariant, PTL DEF Spec, ReadsReturnStore

(***************************************************************************)
(* What the CPU can see of the path: the bytes in the cells and the one    *)
(* operation that it has open.                                             *)
(***************************************************************************)
Store == [address \in Addresses |-> StoredAt(address)]
Operation == IF core.phase = "asking" THEN core.transaction ELSE NoOperation

LEMMA StoreType == PathInv => Store \in [Addresses -> Bytes]
<1> SUFFICES ASSUME PathInv, NEW address \in Addresses PROVE StoredAt(address) \in Bytes
  BY DEF Store
<1>1. address.line \in Lines /\ address.lane \in Lanes
  BY DEF Addresses
<1>2. ddr.cells \in [Ui!Beats -> [Ui!Halves \X Lanes -> Bytes]]
  BY DEF PathInv, Types, Ui!BeatData
<1> QED BY ZenonT(60), <1>1, <1>2, Halved DEF StoredAt

LEMMA MapInit == Init => Memory!Init
<1> SUFFICES ASSUME Init PROVE Memory!Init
  OBVIOUS
<1>1. Store \in [Addresses -> Bytes]
  BY InitInv, StoreType
<1>2. core.phase = "idle" /\ core.taken \in Bytes
  BY DEF Init, CoreReset, PathAssumption
<1> QED BY <1>1, <1>2 DEF Memory!Init, Store

LEMMA MapMachine ==
  ASSUME PathInv, MachineEdge(TRUE)
  PROVE  [Memory!Serve]_(Memory!vars)
<1>1. Store' = Store
  BY DEF MachineEdge, Store, StoredAt
<1>2. /\ core.transaction \in Memory!Operations /\ core.transaction # NoOperation
      /\ \A access \in Accesses : access \in Memory!Operations
      /\ core.transaction.address \in Addresses /\ core.transaction.write \in BOOLEAN
  BY NothingIsOpen DEF PathInv, Types, TypeOK, Accesses, Svc!Transactions, Memory!Operations
<1>3. CASE Operation' = Operation /\ core'.taken = core.taken
  BY <1>1, <1>3 DEF Memory!vars, Store, Operation
<1>4. CASE core.phase = "idle" /\ \E access \in Accesses : core' = [core EXCEPT !.phase = "asking", !.transaction = access]
  <2>1. PICK access \in Accesses : core' = [core EXCEPT !.phase = "asking", !.transaction = access]
    BY <1>4
  <2>2. /\ Operation = NoOperation /\ Operation' = access /\ core'.taken = core.taken
        /\ access \in Memory!Operations
    BY <1>2, <1>4, <2>1 DEF Operation, PathInv, Types, TypeOK
  <2>3. Memory!Begin(access)
    BY <1>1, <2>2 DEF Memory!Begin, Store, Operation
  <2> QED BY <2>2, <2>3 DEF Memory!Serve
<1>5. CASE core.phase = "asking" /\ core'.phase # "asking" /\ service.complete
           /\ core'.taken = IF core.transaction.write THEN core.taken ELSE service.read_data
  <2>1. Operation = core.transaction /\ Operation' = NoOperation
    BY <1>5 DEF Operation
  <2>2. Store[core.transaction.address] = StoredAt(core.transaction.address)
    BY <1>2 DEF Store
  <2>3. CASE core.transaction.write
    <3>1. Memory!EndWrite
      BY <1>1, <1>2, <1>5, <2>1, <2>2, <2>3, CompletedIsDone DEF Memory!EndWrite, Store, Operation
    <3> QED BY <3>1 DEF Memory!Serve
  <2>4. CASE ~core.transaction.write
    <3>1. Memory!EndRead
      BY <1>1, <1>2, <1>5, <2>1, <2>2, <2>4, CompletedIsDone DEF Memory!EndRead, Store, Operation
    <3> QED BY <3>1 DEF Memory!Serve
  <2> QED BY <2>3, <2>4
<1>6. CoreEdge /\ core \in [phase : {"idle", "asking", "done"}, transaction : Accesses, taken : Bytes]
  BY DEF MachineEdge, PathInv, Types, TypeOK
<1> QED BY <1>3, <1>4, <1>5, <1>6 DEF CoreEdge, Operation

LEMMA MapMemory ==
  ASSUME PathInv, MemoryEdge
  PROVE  [Memory!Serve]_(Memory!vars)
<1>1. core' = core
  BY DEF MemoryEdge
<1>2. CASE \A address : ByteIn(ddr'.cells, address) = ByteIn(ddr.cells, address)
  <2>1. Store' = Store
    BY <1>2 DEF Store, StoredAt, ByteIn
  <2> QED BY <1>1, <2>1 DEF Memory!vars, Store
<1>3. CASE /\ Queued
           /\ \A address \in Addresses :
                ByteIn(ddr'.cells, address) = IF address = destination.payload.address THEN destination.payload.data
                                              ELSE ByteIn(ddr.cells, address)
  <2>1. core.phase = "asking" /\ core.transaction = destination.payload /\ core.transaction.write
    BY <1>3, LandsForTheCpu
  <2>2. core.transaction.address \in Addresses /\ core.transaction # NoOperation
    BY NothingIsOpen DEF PathInv, Types, TypeOK, Accesses, Svc!Transactions
  <2>3. Store' = [Store EXCEPT ![core.transaction.address] = core.transaction.data]
    BY ZenonT(60), <1>3, <2>1, <2>2 DEF Store, StoredAt, ByteIn
  <2>4. Memory!Store
    BY <1>1, <2>1, <2>2, <2>3 DEF Memory!Store, Store
  <2> QED BY <2>4 DEF Memory!Serve
<1> QED BY <1>2, <1>3, StoreMoves DEF PathInv

LEMMA MapReset ==
  ASSUME CoordinatedReset
  PROVE  Memory!Abort
BY DEF CoordinatedReset, MachineReset, MemoryReset, CoreReset, DdrIdle, StoredAt, Memory!Abort

(***************************************************************************)
(* The path implements the byte memory: every step of it begins, stores or *)
(* ends the one open operation, or changes nothing the CPU can see; only a *)
(* reset abandons it.  So a write that completes is in the store           *)
(* (nexttang_cpu_memory_path.v, from the CPU port to the controller).      *)
(***************************************************************************)
THEOREM IsMemory == Spec => IsByteMemory
<1>1. UNCHANGED vars => UNCHANGED Memory!vars
  BY DEF vars, Memory!vars, StoredAt
<1>2. PathInv /\ [Next]_vars => [Memory!Next]_(Memory!vars)
  BY <1>1, MapMachine, MapMemory, MapReset DEF Next, Memory!Next
<1>3. PathInv /\ [Next]_vars => [~CoordinatedReset => [Memory!Serve]_(Memory!vars)]_vars
  BY <1>1, MapMachine, MapMemory DEF Next
<1> QED BY <1>2, <1>3, MapInit, PathInvariant, PTL DEF Spec, IsByteMemory, Memory!Spec
=============================================================================
