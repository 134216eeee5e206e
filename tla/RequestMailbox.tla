--------------------------- MODULE RequestMailbox ---------------------------
(***************************************************************************)
(* What a one-entry request/response mailbox promises, whatever clocks its *)
(* two ends run on: a request is offered to the far end exactly once and   *)
(* as it was sent, it is answered once, and the answer handed back is the  *)
(* answer to that request.  A reset empties the mailbox.                   *)
(***************************************************************************)
CONSTANTS Requests, Answers, ZeroRequest, ZeroAnswer

VARIABLES
  phase,     \* "empty", "sent", "offered" or "answered"
  request,   \* the request being carried
  offered,   \* the request the far end was last shown
  answer,    \* the answer being carried back
  returned   \* the answer last handed to the near end

vars == <<phase, request, offered, answer, returned>>

Init ==
  /\ phase = "empty"
  /\ request = ZeroRequest /\ offered = ZeroRequest
  /\ answer = ZeroAnswer /\ returned = ZeroAnswer

Send(r) ==
  /\ phase = "empty"
  /\ phase' = "sent" /\ request' = r
  /\ UNCHANGED <<offered, answer, returned>>

Offer ==
  /\ phase = "sent"
  /\ phase' = "offered" /\ offered' = request
  /\ UNCHANGED <<request, answer, returned>>

Answer(a) ==
  /\ phase = "offered"
  /\ phase' = "answered" /\ answer' = a
  /\ UNCHANGED <<request, offered, returned>>

Return ==
  /\ phase = "answered"
  /\ phase' = "empty" /\ returned' = answer
  /\ UNCHANGED <<request, offered, answer>>

Reset ==
  /\ phase' = "empty"
  /\ request' = ZeroRequest /\ offered' = ZeroRequest
  /\ answer' = ZeroAnswer /\ returned' = ZeroAnswer

Next ==
  \/ \E r \in Requests : Send(r)
  \/ Offer
  \/ \E a \in Answers : Answer(a)
  \/ Return
  \/ Reset

Spec == Init /\ [][Next]_vars
=============================================================================
