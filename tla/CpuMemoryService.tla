-------------------------- MODULE CpuMemoryService --------------------------
(***************************************************************************)
(* rtl/memory/nexttang_cpu_memory_service.v: turns a rising core_request   *)
(* into one memory transaction, holds the CPU while it is open, and stops  *)
(* in FAULT, until a reset, if the memory keeps it waiting or stops being  *)
(* calibrated.  One variable holds the registers; one action per state is  *)
(* what a clock edge does there.                                           *)
(***************************************************************************)
EXTENDS Integers

CONSTANTS
  Addresses, Bytes,
  ZeroAddress, ZeroByte,   \* the reset values of the registers
  MaxWaitCycles            \* MAX_WAIT_CYCLES

\* What the constants must be; CpuMemoryPath, whose parts they are, assumes it.
ServiceAssumption ==
  /\ ZeroAddress \in Addresses /\ ZeroByte \in Bytes
  /\ MaxWaitCycles \in Nat \ {0}

VARIABLE service

Transactions == [write : BOOLEAN, address : Addresses, data : Bytes]
ZeroTransaction == [write |-> FALSE, address |-> ZeroAddress, data |-> ZeroByte]
Faults == {"timeout", "overrun", "calibration_lost"}

ServiceRegisters ==
  [state : {"IDLE", "ISSUE", "RESPONSE", "FAULT"},
   waited : 0 .. MaxWaitCycles, previous : BOOLEAN,
   read_data : Bytes, complete : BOOLEAN,
   request : BOOLEAN, transaction : Transactions,
   faults : SUBSET Faults]

ServiceReset ==
  [state |-> "IDLE", waited |-> 0, previous |-> FALSE,
   read_data |-> ZeroByte, complete |-> FALSE,
   request |-> FALSE, transaction |-> ZeroTransaction, faults |-> {}]

(***************************************************************************)
(* Every edge remembers core_request and drops the completion pulse.       *)
(***************************************************************************)
Sampled(asked) == [service EXCEPT !.previous = asked, !.complete = FALSE]

\* Mutant: the level of core_request where the code wants its edge.
LevelRequest(asked) == asked

NewRequest(asked) == asked /\ ~service.previous

\* A request that rises while a transaction is open is only reported.
Noted(asked) ==
  [Sampled(asked) EXCEPT
     !.faults = IF NewRequest(asked) THEN @ \union {"overrun"} ELSE @]

\* Mutant: stops without saying why.
LoseCalibrationSilently(calibrated, asked) ==
  /\ ~calibrated /\ service.state # "IDLE"
  /\ service' = [Sampled(asked) EXCEPT !.state = "FAULT", !.request = FALSE]

LoseCalibration(calibrated, asked) ==
  /\ ~calibrated /\ service.state # "IDLE"
  /\ service' = [Sampled(asked) EXCEPT !.state   = "FAULT",
                                       !.request = FALSE,
                                       !.faults  = @ \union {"calibration_lost"}]

\* Mutant: a rising request is accepted in whatever state the service is.
EagerEdge(calibrated, asked, transaction) ==
  IF calibrated /\ NewRequest(asked)
  THEN service' = [Sampled(asked) EXCEPT !.waited      = 0,
                                         !.transaction = transaction,
                                         !.request     = TRUE,
                                         !.state       = "ISSUE"]
  ELSE /\ service.state = "IDLE"
       /\ service' = [Sampled(asked) EXCEPT !.waited = 0, !.request = FALSE]

IdleEdge(calibrated, asked, transaction) ==
  /\ service.state = "IDLE"
  /\ IF calibrated /\ NewRequest(asked)
     THEN service' = [Sampled(asked) EXCEPT !.waited      = 0,
                                            !.transaction = transaction,
                                            !.request     = TRUE,
                                            !.state       = "ISSUE"]
     ELSE service' = [Sampled(asked) EXCEPT !.waited = 0, !.request = FALSE]

Finished(asked, data) ==
  [Noted(asked) EXCEPT !.request   = FALSE,
                       !.read_data = IF service.transaction.write THEN @ ELSE data,
                       !.complete  = TRUE,
                       !.state     = "IDLE"]

\* Mutant: a limit one edge too late.
ExpiredLate == service.waited >= MaxWaitCycles
Expired == service.waited + 1 >= MaxWaitCycles

\* Mutant: the wait starts again where the code gives up.
TimedOutRestarting(asked) ==
  [Noted(asked) EXCEPT !.faults = @ \union {"timeout"}, !.waited = 0]

TimedOut(asked) ==
  [Noted(asked) EXCEPT !.request = FALSE,
                       !.faults  = @ \union {"timeout"},
                       !.state   = "FAULT"]

IssueEdge(calibrated, asked, ready, valid, data) ==
  /\ calibrated /\ service.state = "ISSUE"
  /\ \/ /\ ready /\ valid
        /\ service' = [Finished(asked, data) EXCEPT !.waited = @ + 1]
     \/ /\ ready /\ ~valid
        /\ service' = [Noted(asked) EXCEPT !.request = FALSE,
                                           !.waited  = @ + 1,
                                           !.state   = "RESPONSE"]
     \/ ~ready /\ Expired /\ service' = TimedOut(asked)
     \/ ~ready /\ ~Expired /\ service' = [Noted(asked) EXCEPT !.waited = @ + 1]

ResponseEdge(calibrated, asked, valid, data) ==
  /\ calibrated /\ service.state = "RESPONSE"
  /\ \/ valid /\ service' = Finished(asked, data)
     \/ ~valid /\ Expired /\ service' = TimedOut(asked)
     \/ ~valid /\ ~Expired /\ service' = [Noted(asked) EXCEPT !.waited = @ + 1]

FaultEdge(calibrated, asked) ==
  /\ calibrated /\ service.state = "FAULT"
  /\ service' = [Sampled(asked) EXCEPT !.request = FALSE]

ServiceEdge(calibrated, asked, transaction, ready, valid, data) ==
  \/ LoseCalibration(calibrated, asked)
  \/ IdleEdge(calibrated, asked, transaction)
  \/ IssueEdge(calibrated, asked, ready, valid, data)
  \/ ResponseEdge(calibrated, asked, valid, data)
  \/ FaultEdge(calibrated, asked)

\* core_wait
CoreWait(calibrated) == ~calibrated \/ service.state # "IDLE"

(***************************************************************************)
(* On its own, between any CPU and any memory.                             *)
(***************************************************************************)
Init == service = ServiceReset

Edge == \E calibrated, asked, ready, valid \in BOOLEAN,
           transaction \in Transactions, data \in Bytes :
          ServiceEdge(calibrated, asked, transaction, ready, valid, data)

Reset == service' = ServiceReset

Next == Edge \/ Reset

Spec == Init /\ [][Next]_service

\* The clock runs.
FairSpec == Spec /\ WF_service(Edge)
-----------------------------------------------------------------------------
Open == service.state \in {"ISSUE", "RESPONSE"}

(***************************************************************************)
(* The wait is bounded at every edge, not only at the end: a transaction   *)
(* the memory has not accepted is inside the limit, and one it accepted at *)
(* the last moment gets at most one more edge.                             *)
(***************************************************************************)
WaitBounded ==
  /\ service.state = "ISSUE" => service.waited < MaxWaitCycles
  /\ service.state = "RESPONSE" => service.waited \in 1 .. MaxWaitCycles

(***************************************************************************)
(* FAULT is explained, and only by what stops the service: a wait that ran *)
(* out or a lost calibration.  An overrun alone never stops it.            *)
(***************************************************************************)
FaultExplained ==
  service.state = "FAULT" <=> service.faults \intersect {"timeout", "calibration_lost"} # {}

(***************************************************************************)
(* The metadata of an open transaction does not move, whatever the CPU     *)
(* shows meanwhile: an overrun is reported, the original survives.         *)
(***************************************************************************)
OriginalSurvives ==
  [][ Open /\ ~Reset => service'.transaction = service.transaction ]_service

(***************************************************************************)
(* A transaction that is open is completed or gives up: the CPU is never   *)
(* held by an open transaction for ever.                                   *)
(***************************************************************************)
NeverOpenForEver == Open ~> ~Open
=============================================================================
