----------------------------- MODULE ByteMemory -----------------------------
(***************************************************************************)
(* What the CPU may believe about its memory: a store of bytes and at most *)
(* one open operation.  Nothing but the open write changes the store, and  *)
(* it changes that write's byte only; a write ends once the store holds    *)
(* its byte, and a read ends with the byte the store holds.  Abort stands  *)
(* apart from what serves the CPU, because the open write may or may not   *)
(* have happened then: who uses this module says when it may occur.        *)
(***************************************************************************)
CONSTANTS Addresses, Bytes, NoOperation

VARIABLES
  store,    \* the byte at every address
  open,     \* the open operation, or NoOperation
  result    \* what the CPU last read

vars == <<store, open, result>>

Operations == [write : BOOLEAN, address : Addresses, data : Bytes]

Init ==
  /\ store \in [Addresses -> Bytes]
  /\ open = NoOperation
  /\ result \in Bytes

Begin(operation) ==
  /\ open = NoOperation
  /\ open' = operation
  /\ UNCHANGED <<store, result>>

Store ==
  /\ open # NoOperation /\ open.write
  /\ store' = [store EXCEPT ![open.address] = open.data]
  /\ UNCHANGED <<open, result>>

EndWrite ==
  /\ open # NoOperation /\ open.write
  /\ store[open.address] = open.data
  /\ open' = NoOperation
  /\ UNCHANGED <<store, result>>

EndRead ==
  /\ open # NoOperation /\ ~open.write
  /\ result' = store[open.address]
  /\ open' = NoOperation
  /\ UNCHANGED store

Abort ==
  /\ open' = NoOperation
  /\ UNCHANGED <<store, result>>

Serve ==
  \/ \E operation \in Operations : Begin(operation)
  \/ Store \/ EndWrite \/ EndRead

Next == Serve \/ Abort

Spec == Init /\ [][Next]_vars
=============================================================================
