--------------------------- MODULE MemoryCdcBridge ---------------------------
(***************************************************************************)
(* rtl/memory/nexttang_memory_cdc_bridge.v: a one-entry bundled-data       *)
(* mailbox between two unrelated clocks.                                   *)
(*                                                                         *)
(* The registers of a clock domain are the fields of one variable, and a   *)
(* rising edge of a clock is one step that changes that variable only.     *)
(* What an edge reads of the other domain is what the wire carries then:   *)
(* a toggle that changes while it is being sampled is sampled as the old   *)
(* or as the new value, which is the order of the two steps.  A payload    *)
(* (write flag, address and data together) is one value.                   *)
(***************************************************************************)
EXTENDS Integers

CONSTANTS
  Requests,      \* what source_write/address/write_data can carry together
  Answers,       \* what destination_read_data can carry
  ZeroRequest,   \* the payload registers after a reset
  ZeroAnswer

ASSUME BridgeAssumption == ZeroRequest \in Requests /\ ZeroAnswer \in Answers

VARIABLES
  source,        \* registers of the source_clock domain
  destination    \* registers of the destination_clock domain

vars == <<source, destination>>

Bit == {0, 1}
\* Mutant: a counter where the code has one bit.
CountUp(b) == b + 1

Flip(b) == 1 - b

(***************************************************************************)
(* The registers and their reset values.                                   *)
(***************************************************************************)
SourceRegisters ==
  [outstanding : BOOLEAN, request_toggle : Bit, request_hold : Requests,
   response_sync_1 : Bit, response_sync_2 : Bit,
   response_valid : BOOLEAN, read_data : Answers]

DestinationRegisters ==
  [request_sync_1 : Bit, request_sync_2 : Bit, response_toggle : Bit,
   response_hold : Answers, state : {"IDLE", "ISSUE", "RESPONSE"},
   handled_toggle : Bit, active_toggle : Bit,
   request : BOOLEAN, payload : Requests]

SourceReset ==
  [outstanding |-> FALSE, request_toggle |-> 0, request_hold |-> ZeroRequest,
   response_sync_1 |-> 0, response_sync_2 |-> 0,
   response_valid |-> FALSE, read_data |-> ZeroAnswer]

DestinationReset ==
  [request_sync_1 |-> 0, request_sync_2 |-> 0, response_toggle |-> 0,
   response_hold |-> ZeroAnswer, state |-> "IDLE",
   handled_toggle |-> 0, active_toggle |-> 0,
   request |-> FALSE, payload |-> ZeroRequest]

Init == source = SourceReset /\ destination = DestinationReset

(***************************************************************************)
(* The rising edge of source_clock.                                        *)
(***************************************************************************)
\* Mutant: back-pressure is forgotten.
AlwaysReady == TRUE

SourceReady == ~source.outstanding

\* Every edge shifts the response synchroniser and drops the response pulse.
SourceShifted ==
  [source EXCEPT !.response_sync_1 = destination.response_toggle,
                 !.response_sync_2 = source.response_sync_1,
                 !.response_valid  = FALSE]

SourceAccept(payload) ==
  /\ SourceReady
  /\ source' = [SourceShifted EXCEPT !.outstanding    = TRUE,
                                     !.request_toggle = Flip(@),
                                     !.request_hold   = payload]

\* The answer has crossed: the twice-sampled toggle has caught up.
ResponseCrossed ==
  source.outstanding /\ source.response_sync_2 = source.request_toggle

\* Mutant: the response pulse is raised, the held answer is not captured.
SourceCompleteStale ==
  /\ ResponseCrossed
  /\ source' = [SourceShifted EXCEPT !.outstanding = FALSE, !.response_valid = TRUE]

SourceComplete ==
  /\ ResponseCrossed
  /\ source' = [SourceShifted EXCEPT !.outstanding    = FALSE,
                                     !.response_valid = TRUE,
                                     !.read_data      = destination.response_hold]

SourceWait ==
  /\ source.outstanding /\ ~ResponseCrossed
  /\ source' = SourceShifted

SourceEdge(request, payload) ==
  \/ request /\ SourceAccept(payload)
  \/ ~request /\ SourceReady /\ source' = SourceShifted
  \/ SourceComplete
  \/ SourceWait

(***************************************************************************)
(* The rising edge of destination_clock.                                   *)
(***************************************************************************)
DestinationShifted ==
  [destination EXCEPT !.request_sync_1 = source.request_toggle,
                      !.request_sync_2 = destination.request_sync_1]

\* The request has crossed and has not been handled yet.
RequestCrossed == destination.request_sync_2 # destination.handled_toggle

\* Mutant: the toggle the request came with is not remembered.
DestinationLatchUnbound ==
  /\ destination.state = "IDLE" /\ RequestCrossed
  /\ destination' = [DestinationShifted EXCEPT
                       !.payload = source.request_hold,
                       !.request = TRUE,
                       !.state   = "ISSUE"]

DestinationLatch ==
  /\ destination.state = "IDLE" /\ RequestCrossed
  /\ destination' = [DestinationShifted EXCEPT
                       !.payload       = source.request_hold,
                       !.request       = TRUE,
                       !.active_toggle = destination.request_sync_2,
                       !.state         = "ISSUE"]

DestinationIdle ==
  /\ destination.state = "IDLE" /\ ~RequestCrossed
  /\ destination' = [DestinationShifted EXCEPT !.request = FALSE]

\* The answer is bound to the toggle the request came with.
Answered(data) ==
  [DestinationShifted EXCEPT !.request         = FALSE,
                             !.response_hold   = data,
                             !.response_toggle = destination.active_toggle,
                             !.handled_toggle  = destination.active_toggle,
                             !.state           = "IDLE"]

DestinationIssue(ready, valid, data) ==
  /\ destination.state = "ISSUE"
  /\ \/ ready /\ valid /\ destination' = Answered(data)
     \/ /\ ready /\ ~valid
        /\ destination' = [DestinationShifted EXCEPT !.request = FALSE,
                                                     !.state   = "RESPONSE"]
     \/ ~ready /\ destination' = DestinationShifted

DestinationResponse(valid, data) ==
  /\ destination.state = "RESPONSE"
  /\ destination' = IF valid THEN Answered(data) ELSE DestinationShifted

DestinationEdge(ready, valid, data) ==
  \/ DestinationLatch
  \/ DestinationIdle
  \/ DestinationIssue(ready, valid, data)
  \/ DestinationResponse(valid, data)

(***************************************************************************)
(* The bridge between a client that may ask at any edge and a memory that  *)
(* may be ready, and may answer, at any edge.  The two resets belong to    *)
(* one epoch: they assert together.                                        *)
(***************************************************************************)
SourceStep ==
  /\ \E request \in BOOLEAN, payload \in Requests : SourceEdge(request, payload)
  /\ UNCHANGED destination

DestinationStep ==
  /\ \E ready, valid \in BOOLEAN, data \in Answers :
        DestinationEdge(ready, valid, data)
  /\ UNCHANGED source

CoordinatedReset == source' = SourceReset /\ destination' = DestinationReset

Next == SourceStep \/ DestinationStep \/ CoordinatedReset

Spec == Init /\ [][Next]_vars

(***************************************************************************)
(* Both clocks keep running, and the memory is not for ever unready or     *)
(* silent: an edge at which it is ready and answers keeps coming.          *)
(***************************************************************************)
MemoryAnswers ==
  /\ \E data \in Answers : DestinationEdge(TRUE, TRUE, data)
  /\ UNCHANGED source

FairSpec == Spec /\ WF_vars(SourceStep) /\ WF_vars(MemoryAnswers)
-----------------------------------------------------------------------------
TypeOK ==
  /\ source \in SourceRegisters
  /\ destination \in DestinationRegisters

(***************************************************************************)
(* The phases of a transaction, read off the registers.                    *)
(***************************************************************************)
Phase ==
  IF ~source.outstanding THEN "empty"
  ELSE IF destination.response_toggle = source.request_toggle THEN "answered"
  ELSE IF destination.state = "IDLE" THEN "sent"
  ELSE "offered"

\* A toggle on its way through two flops: the second never runs ahead.
Crossing(first, second, toggle) == second = toggle => first = toggle

(***************************************************************************)
(* The inductive invariant: which registers agree in which phase.          *)
(***************************************************************************)
ResponseSettled ==
  /\ source.response_sync_1 = destination.response_toggle
  /\ source.response_sync_2 = destination.response_toggle

RequestSettled ==
  /\ destination.request_sync_1 = source.request_toggle
  /\ destination.request_sync_2 = source.request_toggle

EmptyInv ==
  Phase = "empty" =>
    /\ destination.state = "IDLE"
    /\ destination.response_toggle = source.request_toggle
    /\ RequestSettled /\ ResponseSettled

SentInv ==
  Phase = "sent" =>
    /\ ResponseSettled
    /\ Crossing(destination.request_sync_1, destination.request_sync_2,
                source.request_toggle)

OfferedInv ==
  Phase = "offered" =>
    /\ RequestSettled /\ ResponseSettled
    /\ destination.active_toggle = source.request_toggle
    /\ destination.payload = source.request_hold

AnsweredInv ==
  Phase = "answered" =>
    /\ destination.state = "IDLE"
    /\ RequestSettled
    /\ Crossing(source.response_sync_1, source.response_sync_2,
                source.request_toggle)

BridgeInv ==
  /\ destination.handled_toggle = destination.response_toggle
  /\ destination.request <=> destination.state = "ISSUE"
  /\ EmptyInv /\ SentInv /\ OfferedInv /\ AnsweredInv

(***************************************************************************)
(* What the header of the module claims: a payload is stable until its     *)
(* toggle has crossed into the receiving domain.  The request registers    *)
(* change only once the destination has handled the previous request, and  *)
(* the response registers only once the source has taken the previous      *)
(* response: never while the other domain may be sampling them.            *)
(***************************************************************************)
RequestStable ==
  [][ source'.request_hold # source.request_hold /\ ~CoordinatedReset
        => destination.handled_toggle = source.request_toggle
           /\ destination.request_sync_2 = source.request_toggle ]_vars

ResponseStable ==
  [][ destination'.response_hold # destination.response_hold /\ ~CoordinatedReset
        => /\ source.outstanding
           /\ source.response_sync_1 # source.request_toggle
           /\ source.response_sync_2 # source.request_toggle ]_vars

PayloadsStable == RequestStable /\ ResponseStable

(***************************************************************************)
(* The bridge is a one-entry mailbox: every request is offered once, as    *)
(* sent, and is returned the answer the memory gave to it.                 *)
(***************************************************************************)
Mailbox == INSTANCE RequestMailbox WITH
  phase    <- Phase,
  request  <- source.request_hold,
  offered  <- destination.payload,
  answer   <- destination.response_hold,
  returned <- source.read_data

IsMailbox == Mailbox!Spec

(***************************************************************************)
(* A request accepted by the bridge is answered, or abandoned by a reset:  *)
(* no edge pattern of the two clocks loses a toggle.                       *)
(***************************************************************************)
AlwaysAnswered == source.outstanding ~> ~source.outstanding
=============================================================================
