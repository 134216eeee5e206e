------------------------ MODULE MemoryCdcBridgeProofs ------------------------
(***************************************************************************)
(* Theorems about the clock-domain bridge, for every set of requests and   *)
(* answers: its registers keep their types, the agreement between the two  *)
(* domains (BridgeInv) is inductive, payloads are stable while the other   *)
(* domain may sample them, and the bridge implements a one-entry mailbox.  *)
(***************************************************************************)
EXTENDS MemoryCdcBridge, TLAPS

USE BridgeAssumption

(***************************************************************************)
(* A toggle has two values and flipping it takes the other one.            *)
(***************************************************************************)
LEMMA FlipBit == \A b \in Bit : Flip(b) \in Bit /\ Flip(b) # b
  BY DEF Bit, Flip

LEMMA OneOfTwo == \A a, b, c \in Bit : a # b /\ c # b => a = c
  BY DEF Bit

(***************************************************************************)
(* Type correctness, one lemma per clock.                                  *)
(***************************************************************************)
LEMMA TypeInit == Init => TypeOK
  BY DEF Init, TypeOK, SourceReset, DestinationReset, Bit,
         SourceRegisters, DestinationRegisters

LEMMA SourceType ==
  ASSUME TypeOK, NEW request \in BOOLEAN, NEW payload \in Requests,
         SourceEdge(request, payload)
  PROVE  source' \in SourceRegisters
  <1>1. SourceShifted \in SourceRegisters
    BY DEF TypeOK, SourceShifted, SourceRegisters, DestinationRegisters
  <1>2. CASE SourceAccept(payload)
    BY <1>1, <1>2, FlipBit DEF SourceAccept, SourceRegisters
  <1>3. CASE SourceComplete
    BY <1>1, <1>3 DEF SourceComplete, SourceRegisters, TypeOK, DestinationRegisters
  <1>4. CASE source' = SourceShifted
    BY <1>1, <1>4
  <1>5. QED
    BY <1>2, <1>3, <1>4 DEF SourceEdge, SourceWait

LEMMA DestinationType ==
  ASSUME TypeOK, NEW ready \in BOOLEAN, NEW valid \in BOOLEAN,
         NEW data \in Answers, DestinationEdge(ready, valid, data)
  PROVE  destination' \in DestinationRegisters
  <1>1. DestinationShifted \in DestinationRegisters
    BY DEF TypeOK, DestinationShifted, SourceRegisters, DestinationRegisters
  <1>2. Answered(data) \in DestinationRegisters
    BY <1>1 DEF Answered, TypeOK, DestinationRegisters
  <1>3. CASE DestinationLatch
    BY <1>1, <1>3 DEF DestinationLatch, TypeOK, SourceRegisters, DestinationRegisters
  <1>4. CASE DestinationIdle
    BY <1>1, <1>4 DEF DestinationIdle, DestinationRegisters
  <1>5. CASE DestinationIssue(ready, valid, data)
    BY <1>1, <1>2, <1>5 DEF DestinationIssue, DestinationRegisters
  <1>6. CASE DestinationResponse(valid, data)
    BY <1>1, <1>2, <1>6 DEF DestinationResponse
  <1>7. QED
    BY <1>3, <1>4, <1>5, <1>6 DEF DestinationEdge

LEMMA TypeStep == TypeOK /\ [Next]_vars => TypeOK'
  <1> SUFFICES ASSUME TypeOK, [Next]_vars PROVE TypeOK'
    OBVIOUS
  <1>1. CASE SourceStep
    BY <1>1, SourceType DEF SourceStep, TypeOK
  <1>2. CASE DestinationStep
    BY <1>2, DestinationType DEF DestinationStep, TypeOK
  <1>3. CASE CoordinatedReset
    BY <1>3 DEF CoordinatedReset, TypeOK, SourceReset, DestinationReset, Bit,
                SourceRegisters, DestinationRegisters
  <1>4. CASE UNCHANGED vars
    BY <1>4 DEF vars, TypeOK
  <1>5. QED
    BY <1>1, <1>2, <1>3, <1>4 DEF Next

(***************************************************************************)
(* The registers of both domains keep their types.                         *)
(***************************************************************************)
THEOREM TypeCorrect == Spec => []TypeOK
  BY TypeInit, TypeStep, PTL DEF Spec

(***************************************************************************)
(* The agreement between the domains is inductive: one lemma per clock,    *)
(* one case per branch of the edge.                                        *)
(***************************************************************************)
LEMMA InvInit == Init => BridgeInv
  BY DEF Init, Crossing, BridgeInv, EmptyInv, SentInv, OfferedInv, AnsweredInv, Phase,
         RequestSettled, ResponseSettled, SourceReset, DestinationReset

LEMMA SourceInv ==
  ASSUME TypeOK, BridgeInv, NEW request \in BOOLEAN, NEW payload \in Requests,
         SourceEdge(request, payload), UNCHANGED destination
  PROVE  BridgeInv'
  <1> USE DEF TypeOK, SourceRegisters, DestinationRegisters, Phase, BridgeInv,
              EmptyInv, SentInv, OfferedInv, AnsweredInv, Crossing,
              RequestSettled, ResponseSettled, SourceShifted
  <1>1. CASE SourceAccept(payload)
    BY <1>1, FlipBit, OneOfTwo DEF SourceAccept, SourceReady
  <1>2. CASE SourceComplete
    BY <1>2, OneOfTwo DEF SourceComplete, ResponseCrossed
  <1>3. CASE SourceReady /\ source' = SourceShifted
    BY <1>3 DEF SourceReady
  <1>4. CASE SourceWait
    BY <1>4, OneOfTwo DEF SourceWait, ResponseCrossed
  <1>5. QED
    BY <1>1, <1>2, <1>3, <1>4 DEF SourceEdge

LEMMA DestinationInv ==
  ASSUME TypeOK, BridgeInv, NEW ready \in BOOLEAN, NEW valid \in BOOLEAN,
         NEW data \in Answers, DestinationEdge(ready, valid, data),
         UNCHANGED source
  PROVE  BridgeInv'
  <1> USE DEF TypeOK, SourceRegisters, DestinationRegisters, Phase, BridgeInv,
              EmptyInv, SentInv, OfferedInv, AnsweredInv, Crossing,
              RequestSettled, ResponseSettled, DestinationShifted
  <1>1. CASE DestinationLatch
    BY <1>1, OneOfTwo DEF DestinationLatch, RequestCrossed
  <1>2. CASE DestinationIdle
    BY <1>2, OneOfTwo DEF DestinationIdle, RequestCrossed
  <1>3. CASE DestinationIssue(ready, valid, data)
    <2>1. CASE ready /\ valid /\ destination' = Answered(data)
      BY <1>3, <2>1, OneOfTwo DEF DestinationIssue, Answered
    <2>2. CASE destination' = [DestinationShifted EXCEPT !.request = FALSE,
                                                         !.state   = "RESPONSE"]
      <3>1. Phase = "offered" /\ Phase' = "offered"
        BY <1>3, <2>2 DEF DestinationIssue
      <3>2. RequestSettled' /\ ResponseSettled'
        BY <2>2, <3>1
      <3>3. QED
        BY <2>2, <3>1, <3>2
    <2>3. CASE destination' = DestinationShifted
      <3>1. Phase = "offered" /\ Phase' = "offered"
        BY <1>3, <2>3 DEF DestinationIssue
      <3>2. RequestSettled' /\ ResponseSettled'
        BY <2>3, <3>1
      <3>3. QED
        BY <2>3, <3>1, <3>2
    <2>4. QED
      BY <1>3, <2>1, <2>2, <2>3 DEF DestinationIssue
  <1>4. CASE DestinationResponse(valid, data)
    BY <1>4, OneOfTwo DEF DestinationResponse, Answered
  <1>5. QED
    BY <1>1, <1>2, <1>3, <1>4 DEF DestinationEdge

LEMMA InvStep == TypeOK /\ BridgeInv /\ [Next]_vars => BridgeInv'
  <1> SUFFICES ASSUME TypeOK, BridgeInv, [Next]_vars PROVE BridgeInv'
    OBVIOUS
  <1>1. CASE SourceStep
    BY <1>1, SourceInv DEF SourceStep
  <1>2. CASE DestinationStep
    BY <1>2, DestinationInv DEF DestinationStep
  <1>3. CASE CoordinatedReset
    BY <1>3 DEF CoordinatedReset, BridgeInv, EmptyInv, SentInv, OfferedInv,
         AnsweredInv, Phase, RequestSettled, ResponseSettled, SourceReset,
         DestinationReset
  <1>4. CASE UNCHANGED vars
    BY <1>4 DEF vars, BridgeInv, EmptyInv, SentInv, OfferedInv, AnsweredInv,
         Phase, RequestSettled, ResponseSettled, Crossing
  <1>5. QED
    BY <1>1, <1>2, <1>3, <1>4 DEF Next

(***************************************************************************)
(* The two domains always agree on the transaction in flight.              *)
(***************************************************************************)
THEOREM BridgeInvariant == Spec => []BridgeInv
  BY TypeInit, TypeStep, InvInit, InvStep, PTL DEF Spec

(***************************************************************************)
(* Payload stability, the claim in the header of the module: the request   *)
(* registers change only after the destination has handled the previous    *)
(* request.                                                                *)
(***************************************************************************)
THEOREM RequestIsStable == Spec => RequestStable
  <1>1. ASSUME TypeOK, BridgeInv, [Next]_vars,
               source'.request_hold # source.request_hold, ~CoordinatedReset
        PROVE  /\ destination.handled_toggle = source.request_toggle
               /\ destination.request_sync_2 = source.request_toggle
    <2>1. CASE SourceStep
      <3>1. PICK request \in BOOLEAN, payload \in Requests :
              SourceEdge(request, payload)
        BY <2>1 DEF SourceStep
      <3>2. SourceAccept(payload)
        BY <3>1, <1>1 DEF SourceEdge, SourceComplete, SourceWait, SourceShifted,
             TypeOK, SourceRegisters
      <3>3. QED
        BY <3>2, <1>1 DEF SourceAccept, SourceReady, BridgeInv, EmptyInv, Phase,
             RequestSettled
    <2>2. CASE UNCHANGED source
      BY <2>2, <1>1
    <2>3. QED
      BY <1>1, <2>1, <2>2 DEF Next, DestinationStep, vars
  <1>2. QED
    BY <1>1, TypeInit, TypeStep, InvInit, InvStep, PTL DEF Spec, RequestStable

(***************************************************************************)
(* The answer registers change only while the source still waits, before   *)
(* either of its synchroniser flops has seen the new toggle.               *)
(***************************************************************************)
THEOREM ResponseIsStable == Spec => ResponseStable
  <1>1. ASSUME TypeOK, BridgeInv, [Next]_vars,
               destination'.response_hold # destination.response_hold,
               ~CoordinatedReset
        PROVE  /\ source.outstanding
               /\ source.response_sync_1 # source.request_toggle
               /\ source.response_sync_2 # source.request_toggle
    <2>1. CASE DestinationStep
      <3>1. PICK ready \in BOOLEAN, valid \in BOOLEAN, data \in Answers :
              DestinationEdge(ready, valid, data)
        BY <2>1 DEF DestinationStep
      <3>2. destination.state # "IDLE"
        BY <3>1, <1>1 DEF DestinationEdge, DestinationLatch, DestinationIdle,
             DestinationIssue, DestinationResponse, DestinationShifted,
             TypeOK, DestinationRegisters
      <3>3. Phase = "offered"
        BY <3>2, <1>1 DEF BridgeInv, EmptyInv, AnsweredInv, Phase
      <3>4. QED
        BY <3>3, <1>1 DEF BridgeInv, OfferedInv, ResponseSettled, Phase
    <2>2. CASE UNCHANGED destination
      BY <2>2, <1>1
    <2>3. QED
      BY <1>1, <2>1, <2>2 DEF Next, SourceStep, vars
  <1>2. QED
    BY <1>1, TypeInit, TypeStep, InvInit, InvStep, PTL DEF Spec, ResponseStable

(***************************************************************************)
(* Both payloads are stable while the other domain may sample them.        *)
(***************************************************************************)
THEOREM PayloadsAreStable == Spec => PayloadsStable
  BY RequestIsStable, ResponseIsStable, PTL DEF PayloadsStable

(***************************************************************************)
(* Refinement: every edge is a step of the mailbox or leaves it alone.     *)
(***************************************************************************)
LEMMA MailboxInit == Init => Mailbox!Init
  BY DEF Init, Mailbox!Init, Phase, SourceReset, DestinationReset

LEMMA SourceMailboxStep ==
  ASSUME TypeOK, BridgeInv, NEW request \in BOOLEAN, NEW payload \in Requests,
         SourceEdge(request, payload), UNCHANGED destination
  PROVE  Mailbox!Send(payload) \/ Mailbox!Return \/ UNCHANGED Mailbox!vars
  <1> USE DEF TypeOK, SourceRegisters, DestinationRegisters, Phase, BridgeInv,
              EmptyInv, SentInv, AnsweredInv, OfferedInv, Crossing,
              RequestSettled, ResponseSettled, SourceShifted
  <1>1. CASE SourceAccept(payload)
    <2>1. Phase = "empty" /\ Phase' = "sent"
      BY <1>1, FlipBit, OneOfTwo DEF SourceAccept, SourceReady
    <2>2. source'.request_hold = payload /\ source'.read_data = source.read_data
      BY <1>1 DEF SourceAccept
    <2>3. QED
      BY <2>1, <2>2 DEF Mailbox!Send
  <1>2. CASE SourceComplete
    <2>1. Phase = "answered" /\ Phase' = "empty"
      BY <1>2, OneOfTwo DEF SourceComplete, ResponseCrossed
    <2>2. /\ source'.request_hold = source.request_hold
          /\ source'.read_data = destination.response_hold
      BY <1>2 DEF SourceComplete
    <2>3. QED
      BY <2>1, <2>2 DEF Mailbox!Return
  <1>3. CASE source' = SourceShifted
    BY <1>3 DEF Mailbox!vars
  <1>4. QED
    BY <1>1, <1>2, <1>3 DEF SourceEdge, SourceWait

LEMMA DestinationMailboxStep ==
  ASSUME TypeOK, BridgeInv, NEW ready \in BOOLEAN, NEW valid \in BOOLEAN,
         NEW data \in Answers, DestinationEdge(ready, valid, data),
         UNCHANGED source
  PROVE  Mailbox!Offer \/ Mailbox!Answer(data) \/ UNCHANGED Mailbox!vars
  <1> USE DEF TypeOK, SourceRegisters, DestinationRegisters, DestinationShifted
  <1>1. CASE DestinationLatch
    <2>1. Phase = "sent"
      BY <1>1, OneOfTwo DEF DestinationLatch, RequestCrossed, Phase, BridgeInv,
           EmptyInv, AnsweredInv, RequestSettled
    <2>2. /\ destination'.response_toggle = destination.response_toggle
          /\ destination'.response_hold = destination.response_hold
          /\ destination'.state = "ISSUE"
          /\ destination'.payload = source.request_hold
      BY <1>1 DEF DestinationLatch
    <2>3. QED
      BY <2>1, <2>2 DEF Phase, Mailbox!Offer
  <1>2. CASE destination' = Answered(data) /\ destination.state # "IDLE"
    <2>1. Phase = "offered" /\ destination.active_toggle = source.request_toggle
      BY <1>2 DEF Phase, BridgeInv, EmptyInv, AnsweredInv, OfferedInv
    <2>2. /\ destination'.response_toggle = source.request_toggle
          /\ destination'.response_hold = data
          /\ destination'.payload = destination.payload
      BY <1>2, <2>1 DEF Answered
    <2>3. QED
      BY <2>1, <2>2 DEF Phase, Mailbox!Answer
  <1>3. CASE DestinationIdle
    BY <1>3 DEF DestinationIdle, Phase, Mailbox!vars
  <1>4. CASE /\ destination.state # "IDLE"
             /\ \/ destination' = DestinationShifted
                \/ destination' = [DestinationShifted EXCEPT !.request = FALSE,
                                                             !.state = "RESPONSE"]
    <2>1. /\ destination'.response_toggle = destination.response_toggle
          /\ destination'.response_hold = destination.response_hold
          /\ destination'.state # "IDLE"
          /\ destination'.payload = destination.payload
      BY <1>4
    <2>2. QED
      BY <1>4, <2>1 DEF Phase, Mailbox!vars
  <1>5. QED
    BY <1>1, <1>2, <1>3, <1>4 DEF DestinationEdge, DestinationIssue,
                                  DestinationResponse

LEMMA MailboxStep ==
  TypeOK /\ BridgeInv /\ [Next]_vars => [Mailbox!Next]_(Mailbox!vars)
  <1> SUFFICES ASSUME TypeOK, BridgeInv, [Next]_vars
               PROVE  [Mailbox!Next]_(Mailbox!vars)
    OBVIOUS
  <1>1. CASE SourceStep
    BY <1>1, SourceMailboxStep DEF SourceStep, Mailbox!Next
  <1>2. CASE DestinationStep
    BY <1>2, DestinationMailboxStep DEF DestinationStep, Mailbox!Next
  <1>3. CASE CoordinatedReset
    BY <1>3 DEF CoordinatedReset, Mailbox!Next, Mailbox!Reset, Phase,
                SourceReset, DestinationReset
  <1>4. CASE UNCHANGED vars
    BY <1>4 DEF vars, Phase, Mailbox!vars
  <1>5. QED
    BY <1>1, <1>2, <1>3, <1>4 DEF Next

(***************************************************************************)
(* The bridge implements the mailbox: no request is lost, offered twice or *)
(* changed on the way, and every answer is returned to its own request.    *)
(***************************************************************************)
THEOREM ImplementsMailbox == Spec => IsMailbox
  BY TypeInit, TypeStep, InvInit, InvStep, MailboxInit, MailboxStep, PTL
     DEF Spec, IsMailbox, Mailbox!Spec
=============================================================================
