----------------------------- MODULE ByteQueue -----------------------------
(***************************************************************************)
(* What a first-in first-out byte buffer between two parties promises: the *)
(* bytes put in are shown at the other end once each and in order, a byte  *)
(* that is shown stays until it is taken, what is taken is the byte shown, *)
(* and none is put in that does not fit.                                   *)
(***************************************************************************)
EXTENDS Naturals, Sequences

CONSTANTS Bytes, Capacity

VARIABLES
  queue,     \* the bytes put in and not yet shown
  shown,     \* <<byte>> while one is shown to the consumer, else <<>>
  put, got   \* what the producer last put in, and the consumer last took:
             \* the byte, with a bit that tells it from the one before

vars == <<queue, shown, put, got>>

Noted(last, byte) == [bit |-> 1 - last.bit, byte |-> byte]

Init == queue = <<>> /\ shown = <<>>

Put(byte) ==
  /\ Len(queue) < Capacity
  /\ queue' = Append(queue, byte)
  /\ put' = Noted(put, byte)
  /\ UNCHANGED <<shown, got>>

ShowNext == queue # <<>> /\ shown' = <<Head(queue)>> /\ queue' = Tail(queue)

Show == shown = <<>> /\ ShowNext /\ UNCHANGED <<put, got>>

\* The next byte may be shown at once, or later.
Take ==
  /\ shown # <<>>
  /\ got' = Noted(got, Head(shown))
  /\ ShowNext \/ (shown' = <<>> /\ queue' = queue)
  /\ UNCHANGED put

Step == (\E byte \in Bytes : Put(byte)) \/ Show \/ Take

\* What has moved so far has moved: a reset empties the buffer alone.
Reset == queue' = <<>> /\ shown' = <<>> /\ UNCHANGED <<put, got>>

Next == Step \/ Reset

Spec == Init /\ [][Next]_vars
=============================================================================
