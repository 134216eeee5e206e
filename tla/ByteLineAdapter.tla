-------------------------- MODULE ByteLineAdapter --------------------------
(***************************************************************************)
(* rtl/memory/nexttang_byte_line_adapter.v: one byte transaction becomes   *)
(* one transaction on a line of bytes, with one byte enabled.  The wide    *)
(* data is a function from lanes to bytes and the enables a set of lanes.  *)
(***************************************************************************)
CONSTANTS
  Lines, Lanes, Bytes,        \* an address is a line and a lane in it
  ZeroLine, ZeroLane, ZeroByte

VARIABLE adapter

LineData == [Lanes -> Bytes]
Blank == [lane \in Lanes |-> ZeroByte]

AdapterRegisters ==
  [state : {"IDLE", "ISSUE", "RESPONSE"}, read_lane : Lanes,
   response_valid : BOOLEAN, read_data : Bytes,
   line_request : BOOLEAN, line_write : BOOLEAN, line : Lines,
   line_data : LineData, line_enable : SUBSET Lanes]

AdapterReset ==
  [state |-> "IDLE", read_lane |-> ZeroLane,
   response_valid |-> FALSE, read_data |-> ZeroByte,
   line_request |-> FALSE, line_write |-> FALSE, line |-> ZeroLine,
   line_data |-> Blank, line_enable |-> {}]

\* byte_ready
ByteReady == adapter.state = "IDLE"

Quiet == [adapter EXCEPT !.response_valid = FALSE]

\* Mutant: the response pulse is not dropped at the next edge.
AdapterIdleSticky(request, write, address, data) ==
  /\ ByteReady
  /\ IF request
     THEN adapter' = [adapter EXCEPT
            !.line_write   = write,
            !.line         = address.line,
            !.read_lane    = address.lane,
            !.line_data    = [Blank EXCEPT ![address.lane] = data],
            !.line_enable  = {address.lane},
            !.line_request = TRUE,
            !.state        = "ISSUE"]
     ELSE adapter' = [adapter EXCEPT !.line_request = FALSE]

AdapterIdle(request, write, address, data) ==
  /\ ByteReady
  /\ IF request
     THEN adapter' = [Quiet EXCEPT
            !.line_write   = write,
            !.line         = address.line,
            !.read_lane    = address.lane,
            !.line_data    = [Blank EXCEPT ![address.lane] = data],
            !.line_enable  = {address.lane},
            !.line_request = TRUE,
            !.state        = "ISSUE"]
     ELSE adapter' = [Quiet EXCEPT !.line_request = FALSE]

ByteDone(line_data) ==
  [Quiet EXCEPT !.line_request   = FALSE,
                !.read_data      = IF adapter.line_write THEN @
                                   ELSE line_data[adapter.read_lane],
                !.response_valid = TRUE,
                !.state          = "IDLE"]

AdapterIssue(ready, valid, line_data) ==
  /\ adapter.state = "ISSUE"
  /\ \/ ready /\ valid /\ adapter' = ByteDone(line_data)
     \/ /\ ready /\ ~valid
        /\ adapter' = [Quiet EXCEPT !.line_request = FALSE, !.state = "RESPONSE"]
     \/ ~ready /\ adapter' = Quiet

AdapterResponse(valid, line_data) ==
  /\ adapter.state = "RESPONSE"
  /\ adapter' = IF valid THEN ByteDone(line_data) ELSE Quiet

AdapterEdge(request, write, address, data, ready, valid, line_data) ==
  \/ AdapterIdle(request, write, address, data)
  \/ AdapterIssue(ready, valid, line_data)
  \/ AdapterResponse(valid, line_data)
=============================================================================
