---------------------------- MODULE CpuMemoryPath ----------------------------
(***************************************************************************)
(* rtl/memory/nexttang_cpu_memory_path.v and its neighbours: the service   *)
(* in the machine clock domain, the bridge, the byte-to-line adapter and   *)
(* the DDR3 user-interface adapter in the memory clock domain, between the *)
(* CPU and the vendor's DDR3 controller.  A rising edge of a clock is one  *)
(* step of every register that clock drives; the two clocks are unrelated, *)
(* so their edges come in any order.                                       *)
(***************************************************************************)
EXTENDS Integers

CONSTANTS
  Lines, Lanes, Bytes, ZeroLane, ZeroByte, NoOperation,
  MaxWaitCycles, WriteDrainCycles,
  CommitCycles      \* a write the controller queued lands within this many edges

Addresses == [line : Lines, lane : Lanes]
ZeroAddress == [line |-> 0, lane |-> ZeroLane]

ASSUME PathAssumption ==
  /\ Lines \subseteq Nat /\ 0 \in Lines
  /\ ZeroLane \in Lanes /\ ZeroByte \in Bytes
  /\ MaxWaitCycles \in Nat \ {0} /\ WriteDrainCycles \in Nat
  \* The drain is long enough for the controller (hardware-proven in the code).
  /\ CommitCycles \in 1 .. WriteDrainCycles

\* The mark for "nothing is open" is not an operation.
ASSUME NothingIsOpen ==
  NoOperation \notin [write : BOOLEAN, address : Addresses, data : Bytes]

VARIABLES
  core,          \* the CPU at the core_ ports
  service, source, destination, adapter, gowin,
  ddr            \* the vendor's controller and the memory behind it

vars == <<core, service, source, destination, adapter, gowin, ddr>>

Svc == INSTANCE CpuMemoryService
Bridge == INSTANCE MemoryCdcBridge WITH
  Requests <- Svc!Transactions, ZeroRequest <- Svc!ZeroTransaction,
  Answers <- Bytes, ZeroAnswer <- ZeroByte
Line == INSTANCE ByteLineAdapter WITH ZeroLine <- 0
Ui == INSTANCE GowinDdr3UiAdapter

(***************************************************************************)
(* The CPU (external).  It holds a request and its address until WAIT is   *)
(* released, which is core_complete, then drops the request within a few   *)
(* edges; MREQ is high for at least one edge between two accesses.         *)
(***************************************************************************)
CoreReset(taken) ==
  [phase |-> "idle", transaction |-> Svc!ZeroTransaction, taken |-> taken]

Asked == core.phase # "idle"

\* What the data bus carries during a read is of no interest: it is ZeroByte.
Accesses == {access \in Svc!Transactions : access.write \/ access.data = ZeroByte}

CoreEdge ==
  \/ core.phase = "idle" /\ core' = core
  \/ /\ core.phase = "idle"
     /\ \E transaction \in Accesses :
          core' = [core EXCEPT !.phase = "asking", !.transaction = transaction]
  \/ core.phase = "asking" /\ ~service.complete /\ core' = core
  \/ /\ core.phase = "asking" /\ service.complete
     /\ \E phase \in {"idle", "done"} :
          core' = [core EXCEPT !.phase = phase,
                     !.taken = IF core.transaction.write THEN @
                               ELSE service.read_data]
  \/ core.phase = "done" /\ core' = core
  \/ core.phase = "done" /\ core' = [core EXCEPT !.phase = "idle"]

MachineEdge(calibrated) ==
  /\ CoreEdge
  /\ Svc!ServiceEdge(calibrated, Asked, core.transaction, Bridge!SourceReady,
                     source.response_valid, source.read_data)
  /\ Bridge!SourceEdge(service.request, service.transaction)
  /\ UNCHANGED <<destination, adapter, gowin, ddr>>

(***************************************************************************)
(* The controller (external): it takes a command at an edge it is ready,   *)
(* commits a queued write at one of the next CommitCycles edges, and       *)
(* answers a read with the committed beat, at once or later.               *)
(***************************************************************************)
NoWrite == [beat |-> 0, data |-> <<>>, enabled |-> {}]
DdrIdle(cells) == [cells |-> cells, queued |-> NoWrite, age |-> 0, reading |-> FALSE]

Queued == ddr.queued # NoWrite

Committed ==
  [beat \in Ui!Beats |->
     IF beat # ddr.queued.beat THEN ddr.cells[beat]
     ELSE [cell \in DOMAIN ddr.cells[beat] |->
             IF cell \in ddr.queued.enabled THEN ddr.queued.data[cell]
             ELSE ddr.cells[beat][cell]]]

\* Pending commits: an older write either lands at this edge or ages.
Landed ==
  IF ~Queued THEN {ddr}
  ELSE {[ddr EXCEPT !.cells = Committed, !.queued = NoWrite, !.age = 0]}
       \union (IF ddr.age + 1 < CommitCycles THEN {[ddr EXCEPT !.age = @ + 1]} ELSE {})

DdrEdge(command_ready, data_ready, valid) ==
  \E landed \in Landed :
    IF Ui!WritePresented(command_ready, data_ready)
    THEN /\ ~valid
         /\ ddr' = [landed EXCEPT !.age = 0,
                      !.queued = [beat |-> gowin.beat, data |-> gowin.write_data,
                                  enabled |-> gowin.enabled]]
    ELSE LET reading == ddr.reading \/ (Ui!ReadPresented /\ command_ready)
         IN  /\ valid => reading
             /\ ddr' = [landed EXCEPT !.reading = reading /\ ~valid]

MemoryEdge ==
  \E command_ready, data_ready, valid \in BOOLEAN :
    /\ DdrEdge(command_ready, data_ready, valid)
    /\ Ui!GowinEdge(adapter.line_request, adapter.line_write, adapter.line,
                    adapter.line_data, adapter.line_enable,
                    command_ready, data_ready, valid, ddr.cells[gowin.beat])
    /\ Line!AdapterEdge(destination.request, destination.payload.write,
                        destination.payload.address, destination.payload.data,
                        Ui!LineReady, gowin.response_valid, gowin.read_data)
    /\ Bridge!DestinationEdge(Line!ByteReady, adapter.response_valid,
                              adapter.read_data)
    /\ UNCHANGED <<core, service, source>>

(***************************************************************************)
(* Both domains reset together; memory contents survive, a write still in  *)
(* the controller's queue is dropped.                                      *)
(***************************************************************************)
MachineReset ==
  /\ core' = CoreReset(core.taken)
  /\ service' = Svc!ServiceReset
  /\ source' = Bridge!SourceReset

MemoryReset ==
  /\ destination' = Bridge!DestinationReset
  /\ adapter' = Line!AdapterReset
  /\ gowin' = Ui!GowinReset
  /\ ddr' = DdrIdle(ddr.cells)

CoordinatedReset == MachineReset /\ MemoryReset

Init ==
  /\ core = CoreReset(ZeroByte)
  /\ service = Svc!ServiceReset
  /\ source = Bridge!SourceReset /\ destination = Bridge!DestinationReset
  /\ adapter = Line!AdapterReset
  /\ gowin = Ui!GowinReset
  /\ ddr = DdrIdle([beat \in Ui!Beats |->
                      [cell \in Ui!Halves \X Lanes |-> ZeroByte]])

Next == MachineEdge(TRUE) \/ MemoryEdge \/ CoordinatedReset

Spec == Init /\ [][Next]_vars

(***************************************************************************)
(* The reset the boards wire up: cpu_reset, which follows the machine PLL  *)
(* and memory_available, reaches the machine clock domain; the memory      *)
(* clock domain is reset by controller_reset_n, which follows the memory   *)
(* PLL alone.  So the machine side can be reset while the memory side      *)
(* keeps its toggles and whatever transaction it is on.                    *)
(***************************************************************************)
MachineResetAlone == MachineReset /\ UNCHANGED <<destination, adapter, gowin, ddr>>

BoardSpec == Init /\ [][Next \/ MachineResetAlone]_vars
-----------------------------------------------------------------------------
TypeOK ==
  /\ core \in [phase : {"idle", "asking", "done"},
               transaction : Accesses, taken : Bytes]
  /\ service \in Svc!ServiceRegisters
  /\ source \in Bridge!SourceRegisters
  /\ destination \in Bridge!DestinationRegisters
  /\ adapter \in Line!AdapterRegisters
  /\ gowin \in Ui!GowinRegisters

(***************************************************************************)
(* The path implements the byte memory the CPU believes in: a write that   *)
(* completes is in the store, a read that completes returns what the store *)
(* holds, and no byte changes that the CPU did not ask to change.          *)
(***************************************************************************)
StoredAt(address) ==
  ddr.cells[Ui!BeatOf(address.line)][<<Ui!HalfOf(address.line), address.lane>>]

Memory == INSTANCE ByteMemory WITH
  store  <- [address \in Addresses |-> StoredAt(address)],
  open   <- IF core.phase = "asking" THEN core.transaction ELSE NoOperation,
  result <- core.taken

\* Only a reset aborts: an operation that a FAULT has stranded stays open until
\* then, so a write that completes was stored, whatever happened to others.
IsByteMemory ==
  /\ Memory!Spec
  /\ [][~CoordinatedReset => [Memory!Serve]_(Memory!vars)]_vars

(***************************************************************************)
(* What a "request/response memory transaction" means to the CPU: a read   *)
(* that completes returns the byte the memory holds at the address asked.  *)
(***************************************************************************)
ReadsReturnStore ==
  [][ core.phase = "asking" /\ core'.phase # "asking" /\ service.complete
        /\ ~core.transaction.write /\ ~MachineReset
        => core'.taken = StoredAt(core.transaction.address) ]_vars

\* A CPU that keeps the protocol never causes an overrun.
NoOverrun == "overrun" \notin service.faults

(***************************************************************************)
(* The layers never disagree about who is busy: what a layer is doing is   *)
(* done for the layer above it, on the same transaction, nothing is        *)
(* answered that was not asked, and no request is taken for a second one.  *)
(* A FAULT abandons the transaction above the bridge only.                 *)
(***************************************************************************)
LayersAgree ==
  /\ Svc!Open => core.phase = "asking" /\ service.transaction = core.transaction
  /\ service.state \in {"ISSUE", "IDLE"} => ~source.outstanding
  /\ adapter.state # "IDLE" => destination.state = "RESPONSE"
  /\ gowin.state # "IDLE" => adapter.state = "RESPONSE"
  /\ adapter.response_valid => destination.state = "RESPONSE"
  /\ gowin.response_valid => adapter.state = "RESPONSE" /\ gowin.state = "IDLE"
  /\ Queued => gowin.state = "WRITE_DRAIN"
  /\ NoOverrun
=============================================================================
