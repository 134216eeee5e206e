---------------------------- MODULE SectorReader ----------------------------
(***************************************************************************)
(* What a card reader promises to those who read sectors with it: it       *)
(* starts up or fails; when it is ready it accepts one sector at a time,   *)
(* shows its bytes once each in ascending order, and then says that it is  *)
(* done; a failure is final.  One step is one clock edge.                  *)
(***************************************************************************)
EXTENDS Naturals

CONSTANTS Sectors, SectorBytes

VARIABLES
  status,     \* "starting", "ready", "reading", "failed"
  sector,     \* the sector that is read, or was last
  given,      \* how many of its bytes have been shown
  event       \* what this clock cycle shows: "none", "byte" or "done"

card == <<status, sector, given, event>>

Init ==
  /\ status = "starting" /\ sector \in Sectors /\ given = 0 /\ event = "none"

Wait ==
  /\ event' = "none"
  /\ UNCHANGED <<status, sector, given>>

BecomeReady ==
  /\ status = "starting" /\ status' = "ready"
  /\ event' = "none"
  /\ UNCHANGED <<sector, given>>

Accept(lba) ==
  /\ status = "ready" /\ status' = "reading"
  /\ sector' = lba /\ given' = 0 /\ event' = "none"

ShowByte ==
  /\ status = "reading" /\ given < SectorBytes
  /\ given' = given + 1 /\ event' = "byte"
  /\ UNCHANGED <<status, sector>>

Finish ==
  /\ status = "reading" /\ given = SectorBytes
  /\ status' = "ready" /\ given' = 0 /\ event' = "done"
  /\ UNCHANGED sector

Fail ==
  /\ status \in {"starting", "reading"} /\ status' = "failed"
  /\ event' = "none"
  /\ UNCHANGED <<sector, given>>

Next ==
  Wait \/ BecomeReady \/ (\E lba \in Sectors : Accept(lba)) \/ ShowByte \/ Finish \/ Fail

Spec == Init /\ [][Next]_card
=============================================================================
