------------------------------ MODULE Publication ------------------------------
(***************************************************************************)
(* What `videos upload --apply` promises the operator, without chunks,     *)
(* offsets or network: one file becomes at most one video, and the command *)
(* ends with one report.  It reports a video only if the video exists.     *)
(* After a report of failure the video may exist or still appear, which is *)
(* why that report tells the operator to look before uploading again.      *)
(***************************************************************************)
VARIABLES video, report

Init == video = FALSE /\ report = "none"

Publish == ~video /\ video' = TRUE /\ UNCHANGED report

ReportVideo == report = "none" /\ video /\ report' = "published" /\ UNCHANGED video

ReportFailure == report = "none" /\ report' = "failed" /\ UNCHANGED video

Next == Publish \/ ReportVideo \/ ReportFailure

Spec == Init /\ [][Next]_<<video, report>>
================================================================================
