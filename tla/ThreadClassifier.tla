---------------------------- MODULE ThreadClassifier ----------------------------
(***************************************************************************)
(* comments.py: whether the channel still owes a comment thread an answer, *)
(* decided from the replies the API returned, which may be only some of    *)
(* those that exist.  A thread is who wrote its comment and its replies,   *)
(* and which of the replies the API returned.                              *)
(***************************************************************************)
EXTENDS Naturals, FiniteSets, Sequences

CONSTANT MaxReplies  \* bound: replies of a thread

Authors == {"us", "them"}
Threads == {t \in [author : Authors, replies : UNION {[1..n -> Authors] : n \in 0..MaxReplies},
                   returned : SUBSET (1..MaxReplies)] : t.returned \subseteq DOMAIN t.replies}

\* Mutant: what was returned is taken for all there is.
classify_trusting(thread) ==
  IF thread.author = "us" THEN "own-comment"
  ELSE IF \E i \in thread.returned : thread.replies[i] = "us" THEN "answered"
  ELSE "unanswered"

classify_thread(thread) ==
  IF thread.author = "us" THEN "own-comment"
  ELSE IF \E i \in thread.returned : thread.replies[i] = "us" THEN "answered"
  ELSE IF Cardinality(thread.returned) >= Len(thread.replies) THEN "unanswered"
  ELSE "uncertain"

select_unanswered(thread, include_uncertain) ==
  \/ classify_thread(thread) = "unanswered"
  \/ include_uncertain /\ classify_thread(thread) = "uncertain"

\* What the operator wants to know, from the whole thread.
OwesAnswer(thread) ==
  thread.author # "us" /\ \A i \in DOMAIN thread.replies : thread.replies[i] # "us"

================================================================================
