----------------------------- MODULE UploadSession -----------------------------
(***************************************************************************)
(* upload_file of host/youtube/nexttang_youtube/api.py and the functions   *)
(* it calls: one process that sends a file in chunks to a resumable upload *)
(* session, against a server behind a network that may lose a request, its *)
(* answer, or deliver a request after the caller has given it up.          *)
(*                                                                         *)
(* The server is external: it keeps a prefix of the file, takes any part   *)
(* of a chunk that continues this prefix, ignores one that starts beyond   *)
(* it, and turns the complete prefix into the video.  A file is counted in *)
(* blocks; the time of a backoff and of a call is abstracted to the fact   *)
(* that the deadline may pass at any moment.                               *)
(***************************************************************************)
EXTENDS Naturals

CONSTANTS
  Total,        \* path.stat().st_size, in blocks
  Chunk,        \* chunk_size
  MaxAttempts,  \* MAX_UPLOAD_ATTEMPTS
  MaxFaults     \* bound: lost calls and transient errors of a behaviour

ASSUME UploadAssumption ==
  /\ {Total, Chunk, MaxAttempts} \subseteq Nat \ {0}
  /\ MaxFaults \in Nat

VARIABLES
  pc, purpose,        \* where the client is; why it asks for the status
  offset, attempts,   \* the local variables of upload_file
  result,            \* how the command ended
  late,               \* clock() - started > deadline_seconds
  length,             \* what the file holds now
  call, reply,        \* the request the client waits for, and its answer
  delayed,            \* a request it no longer waits for, at most one
  held, video, alive, \* the server: prefix kept, video made, session open
  faults,             \* spent of MaxFaults
  told, bare, spoiled \* history: see the properties

client == <<pc, purpose, offset, attempts, result>>
server == <<held, video, alive>>
history == <<told, bare, spoiled>>
uploadVars == <<client, late, length, call, reply, delayed, server, faults, history>>

Outcomes == {"none", "published", "unsure", "refused", "unreadable file", "no token"}
Requests == [kind : {"chunk", "status"}, first : 0..Total, next : 0..Total]
Status == [kind |-> "status", first |-> 0, next |-> 0]

\* "more" is a 308: the server names what it holds in a Range header, or,
\* holding nothing, sends none.  "lost" stands for the ApiError of the transport.
Answers == [status : {"none", "done", "unreadable", "more", "retryable", "permanent", "lost"},
            held : 0..Total]
Answer(status) == [status |-> status, held |-> 0]
NoAnswer == Answer("none")

UploadInit ==
  /\ pc = "open" /\ purpose = "retry" /\ offset = 0 /\ attempts = 0 /\ result = "none"
  /\ late = FALSE /\ length = Total
  /\ call = Status /\ reply = NoAnswer /\ delayed = {}
  /\ held = 0 /\ video = FALSE /\ alive = TRUE
  /\ faults = 0 /\ told = FALSE /\ bare = FALSE /\ spoiled = FALSE

-------------------------------------------------------------------------------
(* The client *)

Finish(o) == pc' = "done" /\ result' = o

\* _abandon_upload, and the status query before a retry: what follows is a probe.
Ask(why) == pc' = "query" /\ purpose' = why /\ UNCHANGED result

Send(request) == call' = request /\ reply' = NoAnswer

Opened ==
  /\ pc = "open" /\ pc' = "top"
  /\ UNCHANGED <<purpose, offset, attempts, result, late, length, call, reply, delayed, server, faults, history>>

OpenRefused ==
  /\ pc = "open" /\ Finish("refused")
  /\ UNCHANGED <<purpose, offset, attempts, late, length, call, reply, delayed, server, faults, history>>

\* Mutant: the loop does not look at the clock.
AlwaysInTime == TRUE

InTime == ~late

\* Mutant: the deadline ends the command at once, nobody asks the server.
OverDeadlineUnprobed ==
  offset < Total /\ ~InTime /\ Finish("unsure") /\ UNCHANGED <<purpose, call, reply>>

\* The head of the loop: the deadline, the end of the file, or one more chunk.
OverDeadline == offset < Total /\ ~InTime /\ Ask("abandon") /\ UNCHANGED <<call, reply>>

\* Mutant: the last byte was sent, so the video must exist.
AllSentIsDone == offset >= Total /\ Finish("published") /\ UNCHANGED <<purpose, call, reply>>

AllSent == offset >= Total /\ Ask("abandon") /\ UNCHANGED <<call, reply>>

\* The file is read from disk at every chunk and may have become shorter.
NothingRead ==
  /\ offset < Total /\ InTime /\ length <= offset
  /\ Finish("unreadable file") /\ UNCHANGED <<purpose, call, reply>>

ChunkEnd == IF offset + Chunk < length THEN offset + Chunk ELSE length

SendChunk ==
  /\ offset < Total /\ InTime /\ offset < length
  /\ Send([kind |-> "chunk", first |-> offset, next |-> ChunkEnd])
  /\ pc' = "sending" /\ UNCHANGED <<purpose, result>>

\* The token is fetched before the call: no refresh, no call.
NoToken == Finish("no token") /\ UNCHANGED <<purpose, call, reply>>

Loop ==
  /\ pc = "top"
  /\ \/ OverDeadline \/ AllSent \/ NothingRead \/ SendChunk
     \/ offset < Total /\ InTime /\ offset < length /\ NoToken
  /\ UNCHANGED <<offset, attempts, late, length, delayed, server, faults, history>>

Query ==
  /\ pc = "query"
  /\ \/ Send(Status) /\ pc' = "asking" /\ UNCHANGED <<purpose, result>>
     \/ NoToken
  /\ UNCHANGED <<offset, attempts, late, length, delayed, server, faults, history>>

\* _resume_offset(response, fallback = ...)
ResumeOffset(fallback) == IF reply.held > 0 THEN reply.held ELSE fallback

Completed == reply.status = "done" /\ Finish("published") /\ UNCHANGED purpose

\* What upload_file makes of the answer to a chunk.
ChunkDone == Completed /\ UNCHANGED <<offset, attempts, bare>>

\* _accept_upload_completion without a readable resource.
ChunkUnreadable ==
  /\ reply.status = "unreadable" /\ Ask("abandon")
  /\ UNCHANGED <<offset, attempts, bare>>

ChunkProgress ==
  /\ reply.status = "more"
  /\ offset' = ResumeOffset(call.next) /\ attempts' = 0 /\ pc' = "top"
  /\ bare' = (bare \/ reply.held = 0)
  /\ UNCHANGED <<purpose, result>>

ChunkRefused ==
  /\ reply.status = "permanent" /\ Finish("refused")
  /\ UNCHANGED <<purpose, offset, attempts, bare>>

\* Mutant: a retry goes on behind the chunk that failed.
ChunkFailedSkips ==
  /\ reply.status \in {"retryable", "lost"}
  /\ attempts' = attempts + 1 /\ offset' = call.next
  /\ IF attempts' >= MaxAttempts THEN Ask("abandon") ELSE Ask("retry")
  /\ UNCHANGED bare

\* Mutant: one attempt less than the bound.
ChunkFailedEarly ==
  /\ reply.status \in {"retryable", "lost"}
  /\ attempts' = attempts + 1
  /\ IF attempts' + 1 >= MaxAttempts THEN Ask("abandon") ELSE Ask("retry")
  /\ UNCHANGED <<offset, bare>>

ChunkFailed ==
  /\ reply.status \in {"retryable", "lost"}
  /\ attempts' = attempts + 1
  /\ IF attempts' >= MaxAttempts THEN Ask("abandon") ELSE Ask("retry")
  /\ UNCHANGED <<offset, bare>>

ChunkAnswered ==
  /\ pc = "sending" /\ reply # NoAnswer
  /\ ChunkDone \/ ChunkUnreadable \/ ChunkProgress \/ ChunkRefused \/ ChunkFailed
  /\ UNCHANGED <<late, length, call, reply, delayed, server, faults, told, spoiled>>

\* _query_upload_status: the offset it returns, kept when there is none.
ProbedOffset ==
  IF reply.status = "unreadable" THEN Total
  ELSE IF reply.status = "more" THEN ResumeOffset(0) ELSE offset

StatusAnswered ==
  /\ pc = "asking" /\ reply # NoAnswer
  /\ \/ Completed /\ UNCHANGED offset
     \/ /\ reply.status # "done" /\ purpose = "abandon"
        /\ Finish("unsure") /\ UNCHANGED <<purpose, offset>>
     \/ /\ reply.status # "done" /\ purpose = "retry"
        /\ offset' = ProbedOffset /\ pc' = "top" /\ UNCHANGED <<purpose, result>>
  /\ UNCHANGED <<attempts, late, length, call, reply, delayed, server, faults, history>>

-------------------------------------------------------------------------------
(* The server and the network: external *)

\* How far the prefix may reach after a request.
Kept(r) == {held} \cup {n \in held..Total : r.kind = "chunk" /\ r.first <= held /\ n <= r.next}

Done == {Answer("done"), Answer("unreadable")}

Stalls(r) == r.kind = "chunk" /\ r.first <= held /\ held' = held /\ held < r.next

\* The server handles request r and answers a; `harm` is what the retries of
\* the client are not meant to survive.
Handle(r, a, harm) ==
  /\ UNCHANGED alive
  /\ \/ /\ ~alive /\ a = Answer("permanent") /\ harm = TRUE
        /\ UNCHANGED <<held, video, faults>>
     \/ /\ alive /\ video /\ a \in Done /\ harm = (a # Answer("done"))
        /\ UNCHANGED <<held, video, faults>>
     \/ /\ alive /\ ~video /\ held' \in Kept(r) /\ video' = (held' = Total)
        /\ \/ /\ held' = Total /\ a \in Done /\ harm = (a # Answer("done")) /\ UNCHANGED faults
           \/ /\ held' < Total /\ a = [status |-> "more", held |-> held']
              /\ harm = Stalls(r) /\ UNCHANGED faults
           \/ /\ a = Answer("retryable") /\ harm = FALSE
              /\ faults < MaxFaults /\ faults' = faults + 1

Waiting == pc \in {"sending", "asking"} /\ reply = NoAnswer

Serve ==
  /\ Waiting
  /\ \E a \in Answers, harm \in BOOLEAN :
       /\ Handle(call, a, harm) /\ reply' = a
       /\ told' = (told \/ a.status = "done") /\ spoiled' = (spoiled \/ harm)
  /\ UNCHANGED <<client, late, length, call, delayed, bare>>

\* A request arrives whose answer nobody waits for.
Arrives(r) == \/ alive /\ ~video /\ held' \in Kept(r) /\ video' = (held' = Total)
              \/ (~alive \/ video) /\ UNCHANGED <<held, video>>

\* The transport raises: the request was lost, or its answer, or it is under way.
Lose ==
  /\ Waiting /\ faults < MaxFaults /\ faults' = faults + 1 /\ reply' = Answer("lost")
  /\ \/ UNCHANGED <<held, video, delayed>>
     \/ Arrives(call) /\ UNCHANGED delayed
     \/ delayed = {} /\ delayed' = {call} /\ UNCHANGED <<held, video>>
  /\ UNCHANGED <<client, late, length, call, alive, history>>

Straggle ==
  /\ \E r \in delayed : Arrives(r) /\ delayed' = delayed \ {r}
  /\ UNCHANGED <<client, late, length, call, reply, alive, faults, history>>

Expire ==
  /\ alive /\ alive' = FALSE /\ spoiled' = TRUE
  /\ UNCHANGED <<client, late, length, call, reply, delayed, held, video, faults, told, bare>>

DeadlinePasses ==
  /\ ~late /\ late' = TRUE
  /\ UNCHANGED <<client, length, call, reply, delayed, server, faults, history>>

Truncate ==
  /\ length' \in 0..(length - 1) /\ spoiled' = TRUE
  /\ UNCHANGED <<client, late, call, reply, delayed, server, faults, told, bare>>

-------------------------------------------------------------------------------
ClientStep == Opened \/ OpenRefused \/ Loop \/ Query \/ ChunkAnswered \/ StatusAnswered

UploadNext == ClientStep \/ Serve \/ Lose \/ Straggle \/ Expire \/ DeadlinePasses \/ Truncate

UploadSpec == UploadInit /\ [][UploadNext]_uploadVars

\* The process runs, every call is answered or times out, and time passes.
UploadFairness == WF_uploadVars(ClientStep) /\ WF_uploadVars(Serve \/ Lose) /\ WF_uploadVars(DeadlinePasses)
FairUpload == UploadSpec /\ UploadFairness

-------------------------------------------------------------------------------
(* Properties *)

UploadTypeOK ==
  /\ pc \in {"open", "top", "sending", "query", "asking", "done"}
  /\ purpose \in {"retry", "abandon"} /\ result \in Outcomes
  /\ offset \in 0..Total /\ length \in 0..Total /\ attempts \in Nat
  /\ call \in Requests /\ reply \in Answers /\ delayed \subseteq Requests
  /\ held \in 0..Total /\ faults \in Nat
  /\ late \in BOOLEAN /\ video \in BOOLEAN /\ alive \in BOOLEAN
  /\ told \in BOOLEAN /\ bare \in BOOLEAN /\ spoiled \in BOOLEAN

\* What the operator is told: every other outcome is a report of failure.
Report == IF result \in {"none", "published"} THEN result ELSE "failed"

Publishes == INSTANCE Publication WITH report <- Report

\* The command reports a video only when the video exists, whatever was lost,
\* repeated or late on the way, and it reports once.
IsPublication == Publishes!Spec

\* A command that ends reports the video exactly when an answer that reached the
\* client told of it, and gives an upload up only after it asked the server
\* behind its last chunk and heard nothing of a video: a finished upload
\* reported as failed invites a second one.
ToldMeansReported ==
  result # "none" =>
    /\ told <=> result = "published"
    /\ result = "unsure" => call = Status /\ reply.status \notin {"none", "done"}

\* The client is never ahead of the server, so that no block is left out,
\* except after a 308 to a chunk that names no range: then upload_file goes on
\* behind the chunk as if it had been kept (fallback = end + 1).
SkipsOnlyFromNothing == offset > held => bare

\* Every upload ends, also when the server answers each chunk with a 308 and
\* keeps nothing, which sets the count of attempts back: the deadline ends it.
UploadEnds == <>(result # "none")

\* With fewer losses and transient errors than attempts, and nothing else in
\* the way, the upload ends with the video, wherever the losses fall.
SucceedsInTheEnd ==
  [](/\ faults < MaxAttempts /\ result \notin {"refused", "no token"}
     /\ late \/ spoiled => result # "none")
  => <>(result = "published")

================================================================================
