---------------------------- MODULE PublishingProofs ----------------------------
(***************************************************************************)
(* Proofs about two parts of the publishing tool: the commands that change *)
(* the channel, and the upload of a video, which is one step of theirs.    *)
(*                                                                         *)
(* The commands, for every page size, limit and number of edits by others: *)
(* a write goes out only after the checks, and on what the checks saw;     *)
(* nothing else on the channel is lost; what is reported is true; no       *)
(* comment is forgotten.                                                   *)
(*                                                                         *)
(* The upload, for every file size, chunk size and number of attempts: an  *)
(* upload that reports a video has one, a client that was told of the      *)
(* video reports it, and no block is skipped unless the server named no    *)
(* range.                                                                  *)
(***************************************************************************)
EXTENDS ChannelCommands, UploadSession, FiniteSetTheorems, TLAPS

(***************************************************************************)
(* How far the command is: the steps it has passed, and those of them that *)
(* came after the permission to write, which repeat the reading and the    *)
(* checks of the plan.                                                     *)
(***************************************************************************)
\* x is a step of s before its n-th, and one that comes after the permission.
Before(s, n, x) == \E i \in 1 .. (n - 1) : s[i] = x
After(s, n, x) == \E i \in 1 .. (n - 1) : s[i] = x /\ \E k \in 1 .. (i - 1) : s[k] = "scope"

Passed(x) == Before(command.steps, step, x)
Again(x) == After(command.steps, step, x)

WriteNames == {"put_description", "upload_banner", "put_banner", "set_watermark",
               "set_thumbnail", "update_snippet", "insert_reply", "upload"}

(***************************************************************************)
(* What a step that was passed has established, and nobody has undone      *)
(* since without leaving a trace in `stale`.                               *)
(***************************************************************************)
PermitInv ==
  /\ Passed("dry_run") => command.apply
  /\ Passed("scope") => command.granted

OwnerInv ==
  /\ Again("guard") /\ Fresh("account") => site.account = "pinned"
  /\ Again("video") /\ Fresh("video") => seen.video = site.video
  /\ Again("own_video") => seen.video.owner = "pinned"
  /\ Again("resolve") /\ Fresh("video") /\ Fresh("comment") => CommentOwner = "pinned"

BrandingInv ==
  /\ Again("branding") /\ Fresh("branding") => seen.branding = site.branding
  /\ Again("same_channel_block") => seen.branding.description = planned.branding.description
  /\ Again("same_branding") => seen.branding = planned.branding

ImageInv ==
  Fresh("image") =>
    /\ Passed("plan_banner") => FitsBanner
    /\ Passed("plan_watermark") => FitsWatermark
    /\ Passed("plan_thumbnail") => FitsThumbnail

ListInv ==
  /\ page.got <= command.limit /\ page.got <= command.items
  /\ page.short <= page.used
  /\ ~Passed("list") /\ page.got < command.limit =>
       page.got >= (page.used - page.short) * PageSize
  /\ Passed("list") /\ page.short <= 1 =>
       page.got = Least(command.limit, command.items)

Running ==
  /\ applied = {w \in WriteNames : Passed(w)}
  /\ command.steps \in Writing => step <= Len(command.steps)
  /\ PermitInv /\ OwnerInv /\ BrandingInv /\ ImageInv

Types ==
  /\ TypeOK
  /\ step \in 1 .. (Len(command.steps) + 1)
  /\ page \in [got : Nat, used : Nat, short : Nat]

CommandInv ==
  /\ Types /\ ListInv /\ TruthfulReport
  /\ outcome = "none" => Running
  /\ outcome = "shown" /\ command.items > 0 => Passed("list")

(***************************************************************************)
(* How the commands are put together, which is what the order of their     *)
(* steps is for: what stands before what, and what is repeated after the   *)
(* permission.                                                             *)
(***************************************************************************)
Planning == {"plan_description", "plan_banner", "plan_watermark", "plan_thumbnail", "plan_metadata"}
\* The plans that look at an image.
Inspecting == {"plan_banner", "plan_watermark", "plan_thumbnail"}

Ordered(s) ==
  \A n \in 1 .. Len(s) :
    /\ s[n] = "scope" => ~Before(s, n, "scope")
    /\ s[n] = "list" => ~Before(s, n, "list")
    /\ s[n] \in {"video", "resolve", "details"} => ~After(s, n, "own_video")
    /\ s[n] \in {"video", "details"} => ~After(s, n, "resolve")
    /\ s[n] = "report" => ~After(s, n, "guard")
    /\ s[n] \in Inspecting => \A x \in Inspecting : ~Before(s, n, x)
    /\ s[n] \in {"branding"} \union Planning =>
         ~After(s, n, "same_channel_block") /\ ~After(s, n, "same_branding")
    /\ s[n] \in WriteNames =>
         Before(s, n, "dry_run") /\ Before(s, n, "scope") /\ After(s, n, "guard")
    /\ s[n] \in {"set_thumbnail", "update_snippet"} => After(s, n, "video") /\ After(s, n, "own_video")
    /\ s[n] = "insert_reply" => After(s, n, "resolve")
    /\ s[n] = "put_description" => After(s, n, "branding") /\ After(s, n, "same_channel_block")
    /\ s[n] = "put_banner" => After(s, n, "branding") /\ After(s, n, "same_branding")
    /\ s[n] = "upload_banner" => Before(s, n, "plan_banner")
    /\ s[n] = "set_watermark" => Before(s, n, "plan_watermark")
    /\ s[n] = "set_thumbnail" => Before(s, n, "plan_thumbnail")
    /\ s[n] \in WriteNames \ {"upload_banner"} => n = Len(s)
    /\ s[n] = "put_banner" => Before(s, n, "upload_banner")
    /\ \A w \in WriteNames : Before(s, n, w) => s[n] = "put_banner" /\ w = "upload_banner"

EndsInWrite(s) ==
  Len(s) \in 1 .. 12 /\ DOMAIN s = 1 .. Len(s) /\ s[Len(s)] \in WriteNames \ {"upload_banner"}
NeverWrites(s) ==
  Len(s) \in 1 .. 12 /\ \A n \in 1 .. Len(s) : s[n] \notin WriteNames
Lists(s) ==
  Before(s, Len(s) + 1, "list") /\ \A n \in 1 .. Len(s) : s[n] # "stored_token"

LEMMA CommandsOrdered == \A s \in Reading \union Writing : Ordered(s)
<1> USE DEF Ordered, Before, After, WriteNames, Planning, Inspecting
<1>1. Ordered(command_status)
  BY DEF command_status
<1>2. Ordered(command_channel_show)
  BY DEF command_channel_show
<1>3. Ordered(command_channel_set_description)
  BY DEF command_channel_set_description
<1>4. Ordered(command_channel_set_banner)
  BY DEF command_channel_set_banner
<1>5. Ordered(command_channel_set_watermark)
  BY DEF command_channel_set_watermark
<1>6. Ordered(command_videos_list)
  BY DEF command_videos_list
<1>7. Ordered(command_videos_upload)
  BY DEF command_videos_upload
<1>8. Ordered(command_videos_set_thumbnail)
  BY DEF command_videos_set_thumbnail
<1>9. Ordered(command_videos_update_metadata)
  BY DEF command_videos_update_metadata
<1>10. Ordered(command_playlists_list)
  BY DEF command_playlists_list
<1>11. Ordered(command_comments_list)
  BY DEF command_comments_list
<1>12. Ordered(command_comments_reply)
  BY DEF command_comments_reply
<1>13. Ordered(command_analytics_summary)
  BY DEF command_analytics_summary
<1> HIDE DEF Ordered
<1> QED BY <1>1, <1>2, <1>3, <1>4, <1>5, <1>6, <1>7, <1>8, <1>9, <1>10, <1>11, <1>12, <1>13 DEF Reading, Writing

LEMMA WritersEndInWrite == \A s \in Writing : EndsInWrite(s)
<1> USE DEF EndsInWrite, WriteNames
<1>1. EndsInWrite(command_channel_set_description)
  BY DEF command_channel_set_description
<1>2. EndsInWrite(command_channel_set_banner)
  BY DEF command_channel_set_banner
<1>3. EndsInWrite(command_channel_set_watermark)
  BY DEF command_channel_set_watermark
<1>4. EndsInWrite(command_videos_upload)
  BY DEF command_videos_upload
<1>5. EndsInWrite(command_videos_set_thumbnail)
  BY DEF command_videos_set_thumbnail
<1>6. EndsInWrite(command_videos_update_metadata)
  BY DEF command_videos_update_metadata
<1>7. EndsInWrite(command_comments_reply)
  BY DEF command_comments_reply
<1> HIDE DEF EndsInWrite
<1> QED BY <1>1, <1>2, <1>3, <1>4, <1>5, <1>6, <1>7 DEF Writing

LEMMA ReadersNeverWrite == \A s \in Reading : NeverWrites(s)
<1> USE DEF NeverWrites, WriteNames
<1>1. NeverWrites(command_status)
  BY DEF command_status
<1>2. NeverWrites(command_channel_show)
  BY DEF command_channel_show
<1>3. NeverWrites(command_videos_list)
  BY DEF command_videos_list
<1>4. NeverWrites(command_playlists_list)
  BY DEF command_playlists_list
<1>5. NeverWrites(command_comments_list)
  BY DEF command_comments_list
<1>6. NeverWrites(command_analytics_summary)
  BY DEF command_analytics_summary
<1> HIDE DEF NeverWrites
<1> QED BY <1>1, <1>2, <1>3, <1>4, <1>5, <1>6 DEF Reading

LEMMA ListersList == \A s \in {command_videos_list, command_playlists_list, command_comments_list} : Lists(s)
<1> USE DEF Lists, Before
<1>1. Lists(command_videos_list)
  BY DEF command_videos_list
<1>2. Lists(command_playlists_list)
  BY DEF command_playlists_list
<1>3. Lists(command_comments_list)
  BY DEF command_comments_list
<1> HIDE DEF Lists
<1> QED BY <1>1, <1>2, <1>3

(***************************************************************************)
(* The command at a step of it.                                            *)
(***************************************************************************)
Listing == {command_videos_list, command_playlists_list, command_comments_list}

LEMMA CommandFacts ==
  ASSUME command \in Commands
  PROVE  /\ command.steps \in Reading \union Writing
         /\ command.limit \in Nat /\ command.items \in Nat
         /\ command.items > 0 => command.steps \in Listing
<1>1. 0 .. (MAX_LIMIT + 1) \subseteq Nat /\ 0 .. MaxItems \subseteq Nat
  BY ChannelAssumption
<1>2. /\ command.steps \in Reading \union Writing
      /\ command.limit \in {1} \union 0 .. (MAX_LIMIT + 1)
      /\ command.items \in {0, 1} \union 0 .. MaxItems
      /\ command.items = 0 \/ command.steps \in Listing
  <2> DEFINE limits == 0 .. (MAX_LIMIT + 1)
             counts == 0 .. MaxItems
             others == Reading \ Listing
  <2>1. {command_videos_list, command_playlists_list} \subseteq Reading /\ command_comments_list \in Reading
        /\ Reading \ {command_videos_list, command_playlists_list, command_comments_list} = others
    BY DEF Reading, Listing
  <2> HIDE DEF limits, counts, others
  <2>2. \/ command \in [steps : Writing, apply : BOOLEAN, granted : BOOLEAN, limit : {1}, items : {0},
                        thread : {NoThread}, all : {TRUE}]
        \/ command \in [steps : {command_videos_list, command_playlists_list}, apply : {FALSE}, granted : {TRUE},
                        limit : limits, items : counts, thread : {NoThread}, all : BOOLEAN]
        \/ command \in [steps : {command_comments_list}, apply : {FALSE}, granted : BOOLEAN,
                        limit : {1}, items : {1}, thread : Threads, all : BOOLEAN]
        \/ command \in [steps : others, apply : {FALSE}, granted : BOOLEAN, limit : {1}, items : {0},
                        thread : {NoThread}, all : {TRUE}]
    BY <2>1 DEF Commands, limits, counts
  <2>3. others \subseteq Reading
    BY DEF others
  <2> QED BY <2>1, <2>2, <2>3 DEF Listing, limits, counts
<1> QED BY <1>1, <1>2

LEMMA Long == ASSUME command \in Commands PROVE Len(command.steps) \in 1 .. 12
BY CommandFacts, WritersEndInWrite, ReadersNeverWrite DEF EndsInWrite, NeverWrites

LEMMA Here ==
  ASSUME Types, NEW name, At(name)
  PROVE  /\ step \in 1 .. Len(command.steps) /\ outcome = "none"
         /\ name = "scope" => \A x : ~Again(x)
         /\ name = "list" => ~Passed("list")
         /\ name \in {"video", "resolve", "details"} => ~Again("own_video")
         /\ name \in {"video", "details"} => ~Again("resolve")
         /\ name = "report" => ~Again("guard")
         /\ name \in Inspecting => \A x \in Inspecting : ~Passed(x)
         /\ name \in {"branding"} \union Planning =>
              ~Again("same_channel_block") /\ ~Again("same_branding")
         /\ name \in WriteNames => Passed("dry_run") /\ Passed("scope") /\ Again("guard")
         /\ name \in {"set_thumbnail", "update_snippet"} => Again("video") /\ Again("own_video")
         /\ name = "insert_reply" => Again("resolve")
         /\ name = "put_description" => Again("branding") /\ Again("same_channel_block")
         /\ name = "put_banner" => Again("branding") /\ Again("same_branding")
         /\ name = "upload_banner" => Passed("plan_banner")
         /\ name = "set_watermark" => Passed("plan_watermark")
         /\ name = "set_thumbnail" => Passed("plan_thumbnail")
         /\ name \in WriteNames \ {"upload_banner"} => step = Len(command.steps)
         /\ name = "put_banner" => Passed("upload_banner")
         /\ \A w \in WriteNames : Passed(w) => name = "put_banner" /\ w = "upload_banner"
         /\ command.steps \in Writing /\ step = Len(command.steps) => name \in WriteNames
<1>1. step \in 1 .. Len(command.steps) /\ outcome = "none" /\ command.steps[step] = name
  BY Long DEF Types, TypeOK, At
<1>2. Ordered(command.steps)
  BY CommandFacts, CommandsOrdered DEF Types, TypeOK
<1>3. command.steps \in Writing => command.steps[Len(command.steps)] \in WriteNames
  BY WritersEndInWrite DEF EndsInWrite
<1>4. ~Before(command.steps, step, "scope") => \A x : ~After(command.steps, step, x)
  BY <1>1, Long DEF Types, Before, After
<1> QED BY <1>1, <1>2, <1>3, <1>4 DEF Ordered, Passed, Again

\* A step that is done is passed; one after the permission is passed again.
LEMMA Forward ==
  ASSUME Types, NEW name, At(name), Proceed
  PROVE  /\ command' = command /\ outcome' = "none" /\ step' = step + 1
         /\ \A x : Passed(x)' <=> Passed(x) \/ x = name
         /\ \A x : Again(x)' <=> Again(x) \/ (x = name /\ Passed("scope"))
<1>1. /\ step' = step + 1 /\ command' = command /\ outcome' = "none" /\ step \in Nat /\ step >= 1
      /\ command.steps[step] = name
  BY Long DEF Proceed, At, Types
<1>2. \A i : i \in 1 .. (step' - 1) <=> i \in 1 .. (step - 1) \/ i = step
  BY <1>1
<1>3. \A x : Before(command.steps, step', x) <=> Before(command.steps, step, x) \/ x = name
  BY <1>1, <1>2 DEF Before
<1>4. \A x : After(command.steps, step', x) <=>
              After(command.steps, step, x) \/ (x = name /\ Before(command.steps, step, "scope"))
  BY <1>1, <1>2 DEF Before, After
<1> QED BY <1>1, <1>3, <1>4 DEF Passed, Again

LEMMA Still ==
  ASSUME command' = command, step' = step
  PROVE  \A x : (Passed(x)' <=> Passed(x)) /\ (Again(x)' <=> Again(x))
BY DEF Passed, Again

(***************************************************************************)
(* Every action that goes on is at a step and passes it, or stays.         *)
(***************************************************************************)
LEMMA PermitKeeps ==
  ASSUME Types, PermitInv, Next, outcome' = "none"
  PROVE  PermitInv'
<1> USE Forward, Still DEF PermitInv, End
<1>1. CASE Local
  BY <1>1 DEF Local, read_text_file, stored_token, require_scope, validate_limit, days_in_range, dry_run,
       own_video, same_branding, classify, Emit, Screen, Decide, Compare
<1>2. CASE Reads
  BY <1>2 DEF Reads, guarded_channel, Resolve, channel_branding, video_resource, resolve_reply_target,
       video_details, analytics_report, _paged, Read, Decide
<1>3. CASE Plans
  BY <1>3 DEF Plans, plan_channel_description, plan_channel_banner, plan_channel_watermark,
       plan_video_thumbnail, plan_video_upload, plan_comment_reply, plan_video_metadata, PlanImage, Plan, Screen, Decide
<1>4. CASE Writes
  BY <1>4 DEF Writes, put_description, put_banner, upload_channel_banner, set_channel_watermark,
       set_video_thumbnail, update_video_snippet, insert_comment_reply, upload_file, PutBranding, Write, Errors
<1>5. CASE Interrupt \/ Edit
  BY <1>5 DEF Interrupt, Edit, local
<1> QED BY <1>1, <1>2, <1>3, <1>4, <1>5 DEF Next

LEMMA OwnerKeeps ==
  ASSUME Types, OwnerInv, outcome' = "none", Next
  PROVE  OwnerInv'
<1> USE Here, Forward, Still DEF OwnerInv, End, Fresh, CommentOwner, verify, Types, TypeOK, Sites, merge_video_metadata, WriteNames
<1>1. CASE Local
  <2>1. CASE read_text_file
    BY <2>1 DEF read_text_file, Screen, Decide
  <2>2. CASE stored_token
    BY <2>2 DEF stored_token
  <2>3. CASE require_scope
    BY <2>3 DEF require_scope
  <2>4. CASE validate_limit
    BY <2>4 DEF validate_limit, Decide
  <2>5. CASE days_in_range
    BY <2>5 DEF days_in_range, Screen, Decide
  <2>6. CASE dry_run
    BY <2>6 DEF dry_run
  <2>7. CASE own_video
    BY <2>7 DEF own_video, Decide
  <2>8. CASE same_branding
    BY <2>8 DEF same_branding, Compare, Decide
  <2>9. CASE classify
    BY <2>9 DEF classify, Decide
  <2>10. CASE Emit
    BY <2>10 DEF Emit
  <2> QED BY <1>1, <2>1, <2>2, <2>3, <2>4, <2>5, <2>6, <2>7, <2>8, <2>9, <2>10 DEF Local
<1>2. CASE Reads
  <2>1. CASE guarded_channel
    BY <2>1 DEF guarded_channel, Resolve
  <2>2. CASE channel_branding
    BY <2>2 DEF channel_branding, Read
  <2>3. CASE video_resource
    BY <2>3 DEF video_resource, Read
  <2>4. CASE resolve_reply_target
    <3>1. At("resolve") /\ Proceed /\ CommentOwner = "pinned"
          /\ stale' = stale \ {"comment", "video"} /\ site' = site /\ planned' = planned
          /\ seen' = [seen EXCEPT !.comment = site.comment, !.video = site.video]
      BY <2>4 DEF resolve_reply_target
    <3>2. seen'.branding = seen.branding /\ seen'.video = site.video
      BY <3>1
    <3> QED BY <3>1, <3>2
  <2>5. CASE video_details
    BY <2>5 DEF video_details, Read, Decide
  <2>6. CASE analytics_report
    BY <2>6 DEF analytics_report, Read
  <2>7. CASE _paged
    BY <2>7 DEF _paged
  <2> QED BY <1>2, <2>1, <2>2, <2>3, <2>4, <2>5, <2>6, <2>7 DEF Reads
<1>3. CASE Plans
  BY <1>3 DEF Plans, plan_channel_description, plan_channel_banner, plan_channel_watermark,
       plan_video_thumbnail, plan_video_upload, plan_comment_reply, plan_video_metadata, PlanImage, Plan, Screen, Decide
<1>4. CASE Writes
  <2>1. CASE put_description
    BY <2>1 DEF put_description, PutBranding, Write, Errors
  <2>2. CASE put_banner
    BY <2>2 DEF put_banner, PutBranding, Write
  <2>3. CASE upload_channel_banner
    BY <2>3 DEF upload_channel_banner, Write, Errors
  <2>4. CASE set_channel_watermark
    BY <2>4 DEF set_channel_watermark, Write, Errors
  <2>5. CASE set_video_thumbnail
    BY <2>5 DEF set_video_thumbnail, Write, Errors
  <2>6. CASE update_video_snippet
    BY <2>6 DEF update_video_snippet, Write, Errors
  <2>7. CASE insert_comment_reply
    BY <2>7 DEF insert_comment_reply, Write, Errors
  <2>8. CASE upload_file
    BY <2>8 DEF upload_file, Write, Errors
  <2> QED BY <1>4, <2>1, <2>2, <2>3, <2>4, <2>5, <2>6, <2>7, <2>8 DEF Writes
<1>5. CASE Interrupt \/ Edit
  BY <1>5 DEF Interrupt, Edit, Edited, local
<1> QED BY <1>1, <1>2, <1>3, <1>4, <1>5 DEF Next

LEMMA BrandingKeeps ==
  ASSUME Types, BrandingInv, outcome' = "none", Next
  PROVE  BrandingInv'
<1> USE Here, Forward, Still DEF BrandingInv, End, Fresh, Planning, Types, TypeOK, Sites, WriteNames
<1>1. CASE Local
  <2>1. CASE read_text_file
    BY <2>1 DEF read_text_file, Screen, Decide
  <2>2. CASE stored_token
    BY <2>2 DEF stored_token
  <2>3. CASE require_scope
    BY <2>3 DEF require_scope
  <2>4. CASE validate_limit
    BY <2>4 DEF validate_limit, Decide
  <2>5. CASE days_in_range
    BY <2>5 DEF days_in_range, Screen, Decide
  <2>6. CASE dry_run
    BY <2>6 DEF dry_run
  <2>7. CASE own_video
    BY <2>7 DEF own_video, Decide
  <2>8. CASE same_branding
    BY <2>8 DEF same_branding, Compare, Decide
  <2>9. CASE classify
    BY <2>9 DEF classify, Decide
  <2>10. CASE Emit
    BY <2>10 DEF Emit
  <2> QED BY <1>1, <2>1, <2>2, <2>3, <2>4, <2>5, <2>6, <2>7, <2>8, <2>9, <2>10 DEF Local
<1>2. CASE Reads
  <2>1. CASE guarded_channel
    BY <2>1 DEF guarded_channel, Resolve
  <2>2. CASE channel_branding
    BY <2>2 DEF channel_branding, Read
  <2>3. CASE video_resource
    BY <2>3 DEF video_resource, Read
  <2>4. CASE resolve_reply_target
    <3>1. At("resolve") /\ Proceed /\ CommentOwner = "pinned"
          /\ stale' = stale \ {"comment", "video"} /\ site' = site /\ planned' = planned
          /\ seen' = [seen EXCEPT !.comment = site.comment, !.video = site.video]
      BY <2>4 DEF resolve_reply_target
    <3>2. seen'.branding = seen.branding /\ seen'.video = site.video
      BY <3>1
    <3> QED BY <3>1, <3>2
  <2>5. CASE video_details
    BY <2>5 DEF video_details, Read, Decide
  <2>6. CASE analytics_report
    BY <2>6 DEF analytics_report, Read
  <2>7. CASE _paged
    BY <2>7 DEF _paged
  <2> QED BY <1>2, <2>1, <2>2, <2>3, <2>4, <2>5, <2>6, <2>7 DEF Reads
<1>3. CASE Plans
  BY <1>3 DEF Plans, plan_channel_description, plan_channel_banner, plan_channel_watermark,
       plan_video_thumbnail, plan_video_upload, plan_comment_reply, plan_video_metadata, PlanImage, Plan, Screen, Decide
<1>4. CASE Writes
  <2>1. CASE put_description
    BY <2>1 DEF put_description, PutBranding, Write, Errors
  <2>2. CASE put_banner
    BY <2>2 DEF put_banner, PutBranding, Write
  <2>3. CASE upload_channel_banner
    BY <2>3 DEF upload_channel_banner, Write, Errors
  <2>4. CASE set_channel_watermark
    BY <2>4 DEF set_channel_watermark, Write, Errors
  <2>5. CASE set_video_thumbnail
    BY <2>5 DEF set_video_thumbnail, Write, Errors
  <2>6. CASE update_video_snippet
    BY <2>6 DEF update_video_snippet, Write, Errors
  <2>7. CASE insert_comment_reply
    BY <2>7 DEF insert_comment_reply, Write, Errors
  <2>8. CASE upload_file
    BY <2>8 DEF upload_file, Write, Errors
  <2> QED BY <1>4, <2>1, <2>2, <2>3, <2>4, <2>5, <2>6, <2>7, <2>8 DEF Writes
<1>5. CASE Interrupt \/ Edit
  BY <1>5 DEF Interrupt, Edit, Edited, local
<1> QED BY <1>1, <1>2, <1>3, <1>4, <1>5 DEF Next

LEMMA ImageKeeps ==
  ASSUME Types, ImageInv, outcome' = "none", Next
  PROVE  ImageInv'
<1> USE Here, Forward, Still DEF ImageInv, End, Fresh, FitsBanner, FitsWatermark, FitsThumbnail, Wide, Inspecting
<1>1. CASE Local
  BY <1>1 DEF Local, read_text_file, stored_token, require_scope, validate_limit, days_in_range, dry_run,
       own_video, same_branding, classify, Emit, Screen, Decide, Compare
<1>2. CASE Reads
  BY <1>2 DEF Reads, guarded_channel, Resolve, channel_branding, video_resource, resolve_reply_target,
       video_details, analytics_report, _paged, Read, Decide
<1>3. CASE Plans
  <2>1. CASE plan_channel_description
    BY <2>1 DEF plan_channel_description, Plan
  <2>2. CASE plan_channel_banner
    BY <2>2 DEF plan_channel_banner, PlanImage, Plan
  <2>3. CASE plan_channel_watermark
    BY <2>3 DEF plan_channel_watermark, PlanImage, Plan
  <2>4. CASE plan_video_thumbnail
    BY <2>4 DEF plan_video_thumbnail, PlanImage, Plan
  <2>5. CASE plan_video_upload
    BY <2>5 DEF plan_video_upload, Screen, Decide
  <2>6. CASE plan_comment_reply
    BY <2>6 DEF plan_comment_reply, Screen, Decide
  <2>7. CASE plan_video_metadata
    BY <2>7 DEF plan_video_metadata, Plan
  <2> QED BY <1>3, <2>1, <2>2, <2>3, <2>4, <2>5, <2>6, <2>7 DEF Plans
<1>4. CASE Writes
  BY <1>4 DEF Writes, put_description, put_banner, upload_channel_banner, set_channel_watermark,
       set_video_thumbnail, update_video_snippet, insert_comment_reply, upload_file, PutBranding, Write, Errors
<1>5. CASE Interrupt \/ Edit
  BY <1>5 DEF Interrupt, Edit, Edited, local
<1> QED BY <1>1, <1>2, <1>3, <1>4, <1>5 DEF Next

LEMMA AppliedKeeps ==
  ASSUME Types, outcome' = "none",
         applied = {w \in WriteNames : Passed(w)}, command.steps \in Writing => step <= Len(command.steps), Next
  PROVE  /\ applied' = {w \in WriteNames : Passed(w)'}
         /\ command'.steps \in Writing => step' <= Len(command'.steps)
<1> USE Here, Forward, Still DEF End, WriteNames
<1>1. CASE Local
  BY <1>1 DEF Local, read_text_file, stored_token, require_scope, validate_limit, days_in_range, dry_run,
       own_video, same_branding, classify, Emit, Screen, Decide, Compare
<1>2. CASE Reads
  BY <1>2 DEF Reads, guarded_channel, Resolve, channel_branding, video_resource, resolve_reply_target,
       video_details, analytics_report, _paged, Read, Decide
<1>3. CASE Plans
  BY <1>3 DEF Plans, plan_channel_description, plan_channel_banner, plan_channel_watermark,
       plan_video_thumbnail, plan_video_upload, plan_comment_reply, plan_video_metadata, PlanImage, Plan, Screen, Decide
<1>4. CASE Writes
  BY <1>4 DEF Writes, put_description, put_banner, upload_channel_banner, set_channel_watermark,
       set_video_thumbnail, update_video_snippet, insert_comment_reply, upload_file, PutBranding, Write, Errors
<1>5. CASE Interrupt \/ Edit
  BY <1>5 DEF Interrupt, Edit, Edited, local
<1> QED BY <1>1, <1>2, <1>3, <1>4, <1>5 DEF Next

(***************************************************************************)
(* The report.                                                             *)
(***************************************************************************)

LEMMA WasRunning ==
  ASSUME Types, Next
  PROVE  outcome = "none" /\ command' = command
<1> USE Here, Forward, Still DEF End, At, Proceed
<1>1. CASE Local
  BY <1>1 DEF Local, read_text_file, stored_token, require_scope, validate_limit, days_in_range, dry_run,
       own_video, same_branding, classify, Emit, Screen, Decide, Compare
<1>2. CASE Reads
  BY <1>2 DEF Reads, guarded_channel, Resolve, channel_branding, video_resource, resolve_reply_target,
       video_details, analytics_report, _paged, Read, Decide
<1>3. CASE Plans
  BY <1>3 DEF Plans, plan_channel_description, plan_channel_banner, plan_channel_watermark,
       plan_video_thumbnail, plan_video_upload, plan_comment_reply, plan_video_metadata, PlanImage, Plan, Screen, Decide
<1>4. CASE Writes
  BY <1>4 DEF Writes, put_description, put_banner, upload_channel_banner, set_channel_watermark,
       set_video_thumbnail, update_video_snippet, insert_comment_reply, upload_file, PutBranding, Write, Errors
<1>5. CASE Interrupt \/ Edit
  BY <1>5 DEF Interrupt, Edit, Edited, local
<1> QED BY <1>1, <1>2, <1>3, <1>4, <1>5 DEF Next

\* A write that ends the command completes what the command writes.
LEMMA AllWritten ==
  ASSUME Types, NEW name \in WriteNames, At(name), step = Len(command.steps)
  PROVE  {w \in WriteNames : Passed(w)} \union {name} =
           {command.steps[i] : i \in DOMAIN command.steps} \cap WriteNames
<1>1. command.steps \in Writing
  BY CommandFacts, ReadersNeverWrite DEF NeverWrites, Types, TypeOK, At
<1>2. DOMAIN command.steps = 1 .. step /\ command.steps[step] = name /\ step \in Nat
  BY <1>1, Long, WritersEndInWrite DEF EndsInWrite, Types, TypeOK, At
<1>3. \A i : i \in 1 .. step <=> i \in 1 .. (step - 1) \/ i = step
  BY <1>2, Long DEF Types
<1> QED BY <1>2, <1>3 DEF Passed, Before

LEMMA WriteReport ==
  ASSUME Types, applied = {w \in WriteNames : Passed(w)},
         NEW name \in WriteNames, NEW after, NEW errors \in SUBSET Errors, Write(name, after, errors),
         name = "put_banner" => errors \cap {"failed", "refused"} = {}
  PROVE  TruthfulReport'
<1> USE DEF Write
<1>1. At(name) /\ command' = command /\ command.steps[step] = name
  BY Here, Forward DEF End, At
<1>2. name # "put_banner" => applied = {}
  BY <1>1, Here
<1>3. CASE /\ applied' = applied \union {name}
           /\ IF step = Len(command.steps) THEN End("applied") ELSE Proceed
  <2>1. CASE step = Len(command.steps)
    <3>1. applied' = {command.steps[i] : i \in DOMAIN command.steps} \cap WriteNames
      BY <1>1, <1>3, <2>1, AllWritten
    <3>2. outcome' = "applied" /\ command' = command
      BY <1>1, <1>3, <2>1 DEF End
    <3> QED BY <3>1, <3>2 DEF TruthfulReport, WriteNames
  <2>2. CASE step # Len(command.steps)
    BY <1>1, <1>3, <2>2, Forward DEF TruthfulReport
  <2> QED BY <2>1, <2>2
<1>4. CASE /\ applied' = applied \union {name}
           /\ \E report \in errors \ {"refused"} : End(report)
  BY <1>1, <1>2, <1>4 DEF End, TruthfulReport, Errors
<1>5. CASE applied' = applied /\ \E report \in errors : End(report)
  BY <1>1, <1>2, <1>5 DEF End, TruthfulReport, Errors
<1> QED BY <1>3, <1>4, <1>5

\* A command that got to its end only read.
LEMMA EmitReport ==
  ASSUME Types, applied = {w \in WriteNames : Passed(w)}, Emit,
         command.steps \in Writing => step <= Len(command.steps)
  PROVE  /\ applied' = {} /\ outcome' = "shown" /\ command' = command /\ step' = step
         /\ command.items > 0 => Passed("list")'
<1>1. step = Len(command.steps) + 1 /\ command.steps \in Reading
  BY Long, CommandFacts DEF Emit, Types, TypeOK
<1>2. \A w \in WriteNames : ~Passed(w)
  BY <1>1, Long, ReadersNeverWrite DEF NeverWrites, Passed, Before, Types, TypeOK
<1>3. command.items > 0 => Passed("list")
  BY <1>1, CommandFacts, ListersList DEF Lists, Passed, Listing, Types, TypeOK
<1> QED BY <1>2, <1>3, Still DEF Emit, End

LEMMA ReportKeeps ==
  ASSUME Types, applied = {w \in WriteNames : Passed(w)},
         command.steps \in Writing => step <= Len(command.steps), Next
  PROVE  TruthfulReport'
<1> USE Here, Forward, Still DEF TruthfulReport, End
<1>1. CASE Local
  <2>1. CASE Emit
    BY <2>1, EmitReport
  <2>2. CASE Local /\ ~Emit
    BY <2>2 DEF Local, read_text_file, stored_token, require_scope, validate_limit, days_in_range, dry_run,
         own_video, same_branding, classify, Screen, Decide, Compare
  <2> QED BY <1>1, <2>1, <2>2
<1>2. CASE Reads
  BY <1>2 DEF Reads, guarded_channel, Resolve, channel_branding, video_resource, resolve_reply_target,
       video_details, analytics_report, _paged, Read, Decide
<1>3. CASE Plans
  BY <1>3 DEF Plans, plan_channel_description, plan_channel_banner, plan_channel_watermark,
       plan_video_thumbnail, plan_video_upload, plan_comment_reply, plan_video_metadata, PlanImage, Plan, Screen, Decide
<1>4. CASE Writes
  <2>1. CASE put_banner
    BY <2>1, WriteReport DEF put_banner, PutBranding, WriteNames, Errors
  <2>2. CASE Writes /\ ~put_banner
    <3>1. \E name \in WriteNames \ {"put_banner"} : \E after : Write(name, after, Errors)
      BY <2>2 DEF Writes, put_description, upload_channel_banner, set_channel_watermark, set_video_thumbnail,
           update_video_snippet, insert_comment_reply, upload_file, PutBranding, WriteNames
    <3> QED BY <3>1, WriteReport
  <2> QED BY <1>4, <2>1, <2>2
<1>5. CASE Interrupt \/ Edit
  BY <1>5 DEF Interrupt, Edit, Edited, local
<1> QED BY <1>1, <1>2, <1>3, <1>4, <1>5 DEF Next

LEMMA ShownListed ==
  ASSUME Types, applied = {w \in WriteNames : Passed(w)},
         command.steps \in Writing => step <= Len(command.steps),
         command.items > 0, outcome' = "shown", Next
  PROVE  Passed("list")'
<1>1. ~stored_token
  BY CommandFacts, ListersList, Here DEF stored_token, Lists, Listing, At, Types, TypeOK
<1> USE Here, Forward DEF End
<1>2. CASE Local
  BY <1>1, <1>2, EmitReport DEF Local, read_text_file, require_scope, validate_limit, days_in_range, dry_run,
       own_video, same_branding, classify, Screen, Decide, Compare
<1>3. CASE Reads
  BY <1>3 DEF Reads, guarded_channel, Resolve, channel_branding, video_resource, resolve_reply_target,
       video_details, analytics_report, _paged, Read, Decide
<1>4. CASE Plans
  BY <1>4 DEF Plans, plan_channel_description, plan_channel_banner, plan_channel_watermark,
       plan_video_thumbnail, plan_video_upload, plan_comment_reply, plan_video_metadata, PlanImage, Plan, Screen, Decide
<1>5. CASE Writes
  BY <1>5 DEF Writes, put_description, put_banner, upload_channel_banner, set_channel_watermark,
       set_video_thumbnail, update_video_snippet, insert_comment_reply, upload_file, PutBranding, Write, Errors
<1>6. CASE Interrupt \/ Edit
  BY <1>6 DEF Interrupt, Edit, local
<1> QED BY <1>2, <1>3, <1>4, <1>5, <1>6 DEF Next

(***************************************************************************)
(* Listings.                                                               *)
(***************************************************************************)
LEMMA Divided ==
  ASSUME NEW n \in Nat, NEW d \in Nat, d > 0
  PROVE  n \div d \in Nat /\ n % d \in 0 .. d - 1 /\ n = d * (n \div d) + (n % d)
OBVIOUS

\* The pages before the last of the budget hold the limit, when they are full.
LEMMA BudgetHolds ==
  ASSUME NEW limit \in Nat, NEW full \in Nat, full >= (limit + PageSize - 1) \div PageSize
  PROVE  full * PageSize >= limit
<1>1. PageSize \in Nat /\ PageSize > 0
  BY ChannelAssumption
<1> DEFINE n == limit + PageSize - 1
           k == n \div PageSize
           r == n % PageSize
<1>2. n \in Nat
  BY <1>1
<1>3. k \in Nat /\ r \in 0 .. PageSize - 1 /\ n = PageSize * k + r /\ full >= k
  <2> HIDE DEF n
  <2> QED BY <1>1, <1>2, Divided DEF n
<1> HIDE DEF k, r
<1>4. full * PageSize >= k * PageSize /\ k * PageSize = PageSize * k
  BY <1>1, <1>3
<1>5. PageSize * k >= limit
  <2> DEFINE covered == PageSize * k
  <2>1. covered \in Nat /\ limit + PageSize - 1 = covered + r
    BY <1>1, <1>3
  <2> HIDE DEF covered
  <2>2. covered >= limit
    BY <1>1, <1>3, <2>1
  <2> QED BY <2>2 DEF covered
<1> QED BY <1>1, <1>3, <1>4, <1>5

LEMMA PageKeeps ==
  ASSUME Types, ListInv, _paged
  PROVE  ListInv' /\ page' \in [got : Nat, used : Nat, short : Nat]
<1> DEFINE limit == command.limit
           items == command.items
           got == page.got
           used == page.used
           short == page.short
           full == (used - short) * PageSize
           wanted == Least(limit - got, PageSize)
<1>1. /\ limit \in Nat /\ items \in Nat /\ PageSize \in Nat \ {0}
      /\ got \in Nat /\ used \in Nat /\ short \in Nat /\ short <= used /\ got <= limit /\ got <= items
  BY CommandFacts, ChannelAssumption DEF Types, TypeOK, ListInv
<1>2. At("list") /\ ~Passed("list") /\ (got < limit => got >= full)
  BY Here DEF _paged, ListInv
<1>3. \/ Proceed /\ Passed("list")' /\ command' = command
      \/ command' = command /\ ~Passed("list")'
  BY <1>2, Forward, Still DEF _paged, End
<1>4. full \in Int /\ (used + 1 - short) * PageSize = full + PageSize /\ (used + 1 - (short + 1)) * PageSize = full
  BY <1>1
<1>5. CASE /\ got < limit
           /\ \E n \in 0 .. Least(wanted, items - got) :
                LET more == got + n < items IN
                /\ page' = [got |-> got + n, used |-> used + 1,
                            short |-> IF more /\ n < wanted THEN short + 1 ELSE short]
                /\ IF more THEN UNCHANGED <<command, step, outcome>> ELSE Proceed
  <2>1. PICK n \in 0 .. Least(wanted, items - got) :
          LET more == got + n < items IN
            /\ page' = [got |-> got + n, used |-> used + 1,
                        short |-> IF more /\ n < wanted THEN short + 1 ELSE short]
            /\ IF more THEN UNCHANGED <<command, step, outcome>> ELSE Proceed
    BY <1>5
  <2>2. n \in Nat /\ wanted \in Int /\ n <= wanted /\ got + n <= items /\ wanted <= limit - got
    BY <1>1, <1>5 DEF Least
  <2>3. n = wanted => n = PageSize \/ got + n = limit
    BY <1>1 DEF Least
  <2>4. page'.got = got + n /\ page'.used = used + 1
        /\ page'.short = IF got + n < items /\ n < wanted THEN short + 1 ELSE short
    BY <2>1
  <2>5. page' \in [got : Nat, used : Nat, short : Nat]
    BY <1>1, <2>1, <2>2
  <2>6. CASE got + n < items
    <3>1. command' = command /\ ~Passed("list")'
      BY <1>2, <2>1, <2>6, Still
    <3>2. got + n < limit => got + n >= (page'.used - page'.short) * PageSize
      <4> HIDE DEF full, wanted
      <4>1. CASE n < wanted
        BY <1>1, <1>2, <1>4, <1>5, <2>2, <2>4, <2>6, <4>1
      <4>2. CASE n = wanted
        BY <1>1, <1>2, <1>4, <1>5, <2>2, <2>3, <2>4, <2>6, <4>2
      <4> QED BY <2>2, <4>1, <4>2
    <3>3. page'.short <= page'.used /\ page'.got <= limit /\ page'.got <= items
      <4> HIDE DEF wanted
      <4> QED BY <1>1, <2>2, <2>4
    <3> QED BY <2>4, <2>5, <3>1, <3>2, <3>3 DEF ListInv
  <2>7. CASE ~(got + n < items)
    <3>1. command' = command /\ Passed("list")'
      BY <1>2, <2>1, <2>7, Forward
    <3>2. got + n = items /\ items <= limit
      <4> HIDE DEF wanted
      <4> QED BY <1>1, <2>2, <2>7
    <3>3. page'.short <= page'.used /\ page'.got = items
      BY <1>1, <2>4, <2>7, <3>2
    <3> QED BY <1>1, <2>5, <3>1, <3>2, <3>3 DEF ListInv, Least
  <2> QED BY <2>6, <2>7
<1>6. CASE page' = page /\ (used >= page_budget \/ got >= limit)
  <2>1. short <= 1 => got = Least(limit, items)
    <3>1. CASE got >= limit
      BY <1>1, <3>1 DEF Least
    <3>2. CASE got < limit
      <4>1. used >= page_budget
        BY <1>1, <1>6, <3>2
      <4>2. (limit + PageSize - 1) \div PageSize \in Int
        BY <1>1, Divided
      <4>3. short <= 1 => used - short >= (limit + PageSize - 1) \div PageSize /\ used - short \in Nat
        BY <1>1, <4>1, <4>2 DEF page_budget
      <4>4. short <= 1 => full >= limit
        BY <1>1, <4>3, BudgetHolds
      <4> HIDE DEF full
      <4> QED BY <1>1, <1>2, <1>4, <3>2, <4>4
    <3> QED BY <1>1, <3>1, <3>2
  <2> QED BY <1>1, <1>2, <1>3, <1>6, <2>1 DEF ListInv, Types
<1>7. CASE page' = page /\ End("failed")
  <2>1. command' = command /\ ~Passed("list")'
    BY <1>2, <1>7, Still DEF End
  <2> QED BY <1>2, <1>7, <2>1 DEF ListInv, Types
<1> QED BY <1>5, <1>6, <1>7 DEF _paged

LEMMA ListKeeps ==
  ASSUME Types, ListInv, Next
  PROVE  ListInv' /\ page' \in [got : Nat, used : Nat, short : Nat]
<1>1. CASE _paged
  BY <1>1, PageKeeps
<1>2. CASE ~_paged
  <2> USE Here, Forward, Still DEF End
  <2>1. /\ page' = page /\ command' = command
        /\ Passed("list")' <=> Passed("list")
    <3>1. CASE Local
      BY <3>1 DEF Local, read_text_file, stored_token, require_scope, validate_limit, days_in_range, dry_run,
         own_video, same_branding, classify, Emit, Screen, Decide, Compare
    <3>2. CASE Reads
      BY <1>2, <3>2 DEF Reads, guarded_channel, Resolve, channel_branding, video_resource, resolve_reply_target,
         video_details, analytics_report, Read, Decide
    <3>3. CASE Plans
      BY <3>3 DEF Plans, plan_channel_description, plan_channel_banner, plan_channel_watermark,
         plan_video_thumbnail, plan_video_upload, plan_comment_reply, plan_video_metadata, PlanImage, Plan,
         Screen, Decide
    <3>4. CASE Writes
      BY <3>4 DEF Writes, put_description, put_banner, upload_channel_banner, set_channel_watermark,
         set_video_thumbnail, update_video_snippet, insert_comment_reply, upload_file, PutBranding, Write, Errors
    <3>5. CASE Interrupt \/ Edit
      BY <3>5 DEF Interrupt, Edit, Edited, local
    <3> QED BY <3>1, <3>2, <3>3, <3>4, <3>5 DEF Next
  <2> QED BY <2>1 DEF ListInv, Types
<1> QED BY <1>1, <1>2

(***************************************************************************)
(* Types.                                                                  *)
(***************************************************************************)
LEMMA SeenSite ==
  ASSUME Types, NEW part \in {"account", "branding", "video", "comment"}
  PROVE  [seen EXCEPT ![part] = site[part]] \in Sites
BY DEF Types, TypeOK, Sites

LEMMA WrittenSite ==
  ASSUME Types
  PROVE  /\ [site EXCEPT !.branding = merge_channel_description(seen.branding)] \in Sites
         /\ [site EXCEPT !.branding = merge_channel_banner(seen.branding)] \in Sites
         /\ [site EXCEPT !.video = [merge_video_metadata(seen.video) EXCEPT !.owner = site.video.owner]] \in Sites
<1> USE DEF Types, TypeOK, Sites, Texts, Owners
<1>1. merge_channel_description(seen.branding) \in [description : Texts, keywords : Texts, banner : Texts]
  BY DEF merge_channel_description
<1>2. merge_channel_banner(seen.branding) \in [description : Texts, keywords : Texts, banner : Texts]
  BY DEF merge_channel_banner
<1>3. [merge_video_metadata(seen.video) EXCEPT !.owner = site.video.owner]
        \in [owner : Owners, title : Texts, tags : Texts, category : BOOLEAN]
  BY ZenonT(60) DEF merge_video_metadata
<1> QED BY <1>1, <1>2, <1>3

LEMMA EditedSite ==
  ASSUME Types
  PROVE  /\ [site EXCEPT !.account = "other"] \in Sites
         /\ \A f \in {"description", "keywords", "banner"} : [site EXCEPT !.branding[f] = "studio"] \in Sites
         /\ \A f \in {"title", "tags"} : [site EXCEPT !.video[f] = "studio"] \in Sites
         /\ \A o \in {"other", "none"} : [site EXCEPT !.video.owner = o] \in Sites
         /\ [site EXCEPT !.comment.on = "deleted"] \in Sites
         /\ [site EXCEPT !.comment.owner = "other"] \in Sites
BY SMTT(30) DEF Types, TypeOK, Sites, Texts, Owners

LEMMA StepTypes ==
  ASSUME Types, Next
  PROVE  command' \in Commands /\ step' \in 1 .. (Len(command'.steps) + 1) /\ step' \in 1 .. 13
<1>1. command \in Commands /\ step \in 1 .. (Len(command.steps) + 1) /\ Len(command.steps) \in 1 .. 12
  BY Long DEF Types, TypeOK
<1>2. command' = command /\ (step' = step \/ (step' = step + 1 /\ step <= Len(command.steps)))
  <2> USE DEF End, At, Proceed
  <2>1. CASE Local
    BY <2>1 DEF Local, read_text_file, stored_token, require_scope, validate_limit, days_in_range, dry_run,
         own_video, same_branding, classify, Emit, Screen, Decide, Compare
  <2>2. CASE Reads
    BY <2>2 DEF Reads, guarded_channel, Resolve, channel_branding, video_resource, resolve_reply_target,
         video_details, analytics_report, _paged, Read, Decide
  <2>3. CASE Plans
    BY <2>3 DEF Plans, plan_channel_description, plan_channel_banner, plan_channel_watermark,
         plan_video_thumbnail, plan_video_upload, plan_comment_reply, plan_video_metadata, PlanImage, Plan,
         Screen, Decide
  <2>4. CASE Writes
    BY <2>4 DEF Writes, put_description, put_banner, upload_channel_banner, set_channel_watermark,
         set_video_thumbnail, update_video_snippet, insert_comment_reply, upload_file, PutBranding, Write, Errors
  <2>5. CASE Interrupt \/ Edit
    BY <2>5 DEF Interrupt, Edit, Edited, local
  <2> QED BY <2>1, <2>2, <2>3, <2>4, <2>5 DEF Next
<1> DEFINE long == Len(command.steps)
<1>3. long \in 1 .. 12 /\ step \in 1 .. (long + 1)
  BY <1>1
<1> HIDE DEF long
<1>4. step' \in 1 .. (long + 1) /\ step' \in 1 .. 13
  <2>1. CASE step' = step
    BY <1>3, <2>1
  <2>2. CASE step' = step + 1 /\ step <= long
    BY <1>3, <2>2
  <2> QED BY <1>2, <2>1, <2>2 DEF long
<1> QED BY <1>1, <1>2, <1>4 DEF long

LEMMA SiteTypes ==
  ASSUME Types, Next
  PROVE  /\ {planned, seen, site}' \subseteq Sites /\ image' \in Images /\ edits' \in 0 .. MaxEdits
         /\ stale' \subseteq {"account", "branding", "video", "comment", "image"}
<1>1. /\ {planned, seen, site} \subseteq Sites /\ image \in Images /\ edits \in 0 .. MaxEdits
      /\ stale \subseteq {"account", "branding", "video", "comment", "image"}
  BY DEF Types, TypeOK
<1>2. CASE Local
  BY <1>1, <1>2 DEF Local, read_text_file, stored_token, require_scope, validate_limit, days_in_range, dry_run,
       own_video, same_branding, classify, Emit, Screen, Decide, Compare
<1>3. CASE Reads
  <2>1. CASE guarded_channel
    <3>1. [seen EXCEPT !.account = site.account] \in Sites
      BY <1>1 DEF Sites
    <3> QED BY <1>1, <2>1, <3>1 DEF guarded_channel, Resolve
  <2>2. CASE resolve_reply_target
    <3>1. [seen EXCEPT !.comment = site.comment, !.video = site.video] \in Sites
      BY <1>1 DEF Sites
    <3> QED BY <1>1, <2>2, <3>1 DEF resolve_reply_target
  <2>3. CASE _paged
    BY <1>1, <2>3 DEF _paged
  <2>4. CASE channel_branding \/ video_resource \/ video_details \/ analytics_report
    BY <1>1, <2>4, SeenSite DEF channel_branding, video_resource, video_details, analytics_report, Read, Decide
  <2> QED BY <1>3, <2>1, <2>2, <2>3, <2>4 DEF Reads
<1>4. CASE Plans
  BY <1>1, <1>4 DEF Plans, plan_channel_description, plan_channel_banner, plan_channel_watermark,
       plan_video_thumbnail, plan_video_upload, plan_comment_reply, plan_video_metadata, PlanImage, Plan,
       Screen, Decide
<1>5. CASE Writes
  BY <1>1, <1>5, WrittenSite DEF Writes, put_description, put_banner, upload_channel_banner, set_channel_watermark,
       set_video_thumbnail, update_video_snippet, insert_comment_reply, upload_file, PutBranding, Write
<1>6. CASE Edit
  <2>1. edits' \in 0 .. MaxEdits
    BY <1>1, <1>6, ChannelAssumption DEF Edit
  <2> QED BY <1>1, <1>6, <2>1, EditedSite DEF Edit, Edited, local
<1>7. CASE Interrupt
  BY <1>1, <1>7 DEF Interrupt
<1> QED BY <1>2, <1>3, <1>4, <1>5, <1>6, <1>7 DEF Next

LEMMA InitInv == Init => CommandInv
<1> SUFFICES ASSUME Init PROVE CommandInv
  OBVIOUS
<1> USE DEF Init
<1>1. command \in Commands /\ Len(command.steps) \in 1 .. 12 /\ command.limit \in Nat /\ command.items \in Nat
  BY Long, CommandFacts
<1>2. site \in Sites
  <2>1. PICK account \in {"pinned", "other", "several"},
             description \in Start("branding", {"old", "ours"}, "old"),
             owner \in Start("video", {"pinned", "other"}, "pinned"),
             title \in Start("video", {"old", "ours"}, "old"), category \in Start("video", BOOLEAN, TRUE),
             on \in Start("comment", {"video", "channel", "nothing"}, "nothing") :
       site = [account |-> account,
               branding |-> [description |-> description, keywords |-> "old", banner |-> "old"],
               video |-> [owner |-> owner, title |-> title, tags |-> "old", category |-> category],
               comment |-> [on |-> on, owner |-> "pinned"]]
    OBVIOUS
  <2>2. /\ description \in {"old", "ours"} /\ owner \in {"pinned", "other"} /\ title \in {"old", "ours"}
        /\ category \in BOOLEAN /\ on \in {"video", "channel", "nothing"}
    BY DEF Start
  <2> QED BY <2>1, <2>2 DEF Sites, Texts, Owners
<1>3. image \in Images
  BY DEF Start, Images
<1>4. Types
  BY <1>1, <1>2, <1>3, ChannelAssumption DEF Types, TypeOK, NoPage
<1>5. \A x : ~Passed(x) /\ ~Again(x)
  BY DEF Passed, Again, Before, After
<1>6. ListInv
  BY <1>1, <1>5, ChannelAssumption DEF ListInv, NoPage
<1>7. TruthfulReport
  BY DEF TruthfulReport
<1>8. Running
  <2>1. {w \in WriteNames : Passed(w)} = {} /\ applied = {}
    BY <1>5
  <2>2. step <= Len(command.steps)
    <3>1. \A long \in 1 .. 12 : 1 <= long
      OBVIOUS
    <3>2. step = 1
      OBVIOUS
    <3> HIDE DEF Init
    <3> QED BY <1>1, <3>1, <3>2
  <2>3. PermitInv /\ OwnerInv /\ BrandingInv /\ ImageInv
    BY <1>5 DEF PermitInv, OwnerInv, BrandingInv, ImageInv
  <2> QED BY <2>1, <2>2, <2>3 DEF Running
<1> QED BY <1>4, <1>6, <1>7, <1>8 DEF CommandInv

LEMMA StepInv == CommandInv /\ [Next]_vars => CommandInv'
<1> SUFFICES ASSUME CommandInv, [Next]_vars PROVE CommandInv'
  OBVIOUS
<1>1. CASE Next
  <2>1. Types /\ ListInv /\ outcome = "none" /\ Running /\ command' = command
    BY <1>1, WasRunning DEF CommandInv
  <2>2. /\ applied = {w \in WriteNames : Passed(w)}
        /\ command.steps \in Writing => step <= Len(command.steps)
        /\ PermitInv /\ OwnerInv /\ BrandingInv /\ ImageInv
    BY <2>1 DEF Running
  <2>3. ListInv' /\ Types'
    BY <1>1, <2>1, ListKeeps, StepTypes, SiteTypes DEF Types, TypeOK
  <2>4. TruthfulReport'
    BY <1>1, <2>1, <2>2, ReportKeeps
  <2>5. outcome' = "none" => Running'
    BY <1>1, <2>1, <2>2, PermitKeeps, OwnerKeeps, BrandingKeeps, ImageKeeps, AppliedKeeps DEF Running
  <2>6. outcome' = "shown" /\ command'.items > 0 => Passed("list")'
    BY <1>1, <2>1, <2>2, ShownListed
  <2> QED BY <2>3, <2>4, <2>5, <2>6 DEF CommandInv
<1>2. CASE UNCHANGED vars
  <2>1. \A x : (Passed(x)' <=> Passed(x)) /\ (Again(x)' <=> Again(x))
    BY <1>2, Still DEF vars, local
  <2> QED BY <1>2, <2>1 DEF vars, local, CommandInv, Types, TypeOK, ListInv, TruthfulReport, Running, PermitInv,
       OwnerInv, BrandingInv, ImageInv, Fresh, CommentOwner, FitsBanner, FitsWatermark, FitsThumbnail, Wide
<1> QED BY <1>1, <1>2

(***************************************************************************)
(* The inductive invariant holds.                                          *)
(***************************************************************************)
THEOREM CommandInvariant == Spec => []CommandInv
BY InitInv, StepInv, PTL DEF Spec

(***************************************************************************)
(* The action that changes the channel is a write of the command, at its   *)
(* step.                                                                   *)
(***************************************************************************)
LEMMA OnlyWrites ==
  ASSUME Types, Next, Changes
  PROVE  /\ Writes
         /\ \E name \in WriteNames : At(name)
<1> USE DEF Changes
<1>1. ~Local
  BY DEF Local, read_text_file, stored_token, require_scope, validate_limit, days_in_range, dry_run,
       own_video, same_branding, classify, Emit, Screen, Decide, Compare
<1>2. ~Reads
  BY DEF Reads, guarded_channel, Resolve, channel_branding, video_resource, resolve_reply_target,
       video_details, analytics_report, _paged, Read, Decide
<1>3. ~Plans
  BY DEF Plans, plan_channel_description, plan_channel_banner, plan_channel_watermark,
       plan_video_thumbnail, plan_video_upload, plan_comment_reply, plan_video_metadata, PlanImage, Plan,
       Screen, Decide
<1>4. ~Interrupt /\ ~Edit
  BY DEF Interrupt, Edit
<1>5. Writes
  BY <1>1, <1>2, <1>3, <1>4 DEF Next
<1> QED BY <1>5 DEF Writes, put_description, put_banner, upload_channel_banner, set_channel_watermark,
       set_video_thumbnail, update_video_snippet, insert_comment_reply, upload_file, PutBranding, Write, WriteNames

(***************************************************************************)
(* A write goes out only with --apply, the capability and the pinned       *)
(* account, on a target that the channel owns and with an image that was   *)
(* checked, unless others changed it after the last look.  The checks of   *)
(* cli.py stand at fixed places of each command; the proof takes from      *)
(* their order what each of them has established at the write.             *)
(***************************************************************************)
THEOREM WritesAreGuarded == Spec => GuardedWrites
<1>1. CommandInv /\ [Next]_vars =>
        [Changes =>
           /\ command.apply /\ command.granted
           /\ Fresh("account") => site.account = "pinned"
           /\ Fresh("video") /\ At("set_thumbnail") => site.video.owner = "pinned"
           /\ Fresh("video") /\ At("update_snippet") => site.video.owner = "pinned"
           /\ Fresh("video") /\ Fresh("comment") /\ At("insert_reply") => CommentOwner = "pinned"
           /\ Fresh("image") /\ At("upload_banner") => FitsBanner
           /\ Fresh("image") /\ At("set_watermark") => FitsWatermark
           /\ Fresh("image") /\ At("set_thumbnail") => FitsThumbnail]_vars
  <2> SUFFICES ASSUME CommandInv, Next, Changes
      PROVE  /\ command.apply /\ command.granted
             /\ Fresh("account") => site.account = "pinned"
             /\ Fresh("video") /\ At("set_thumbnail") => site.video.owner = "pinned"
             /\ Fresh("video") /\ At("update_snippet") => site.video.owner = "pinned"
             /\ Fresh("video") /\ Fresh("comment") /\ At("insert_reply") => CommentOwner = "pinned"
             /\ Fresh("image") /\ At("upload_banner") => FitsBanner
             /\ Fresh("image") /\ At("set_watermark") => FitsWatermark
             /\ Fresh("image") /\ At("set_thumbnail") => FitsThumbnail
    BY DEF vars, Changes
  <2>1. Types
    BY DEF CommandInv
  <2>2. PICK name \in WriteNames : At(name)
    BY <2>1, OnlyWrites
  <2>3. PermitInv /\ OwnerInv /\ ImageInv
    BY <2>2 DEF CommandInv, Running, At
  <2>4. command.apply /\ command.granted /\ (Fresh("account") => site.account = "pinned")
    BY <2>1, <2>2, <2>3, Here DEF PermitInv, OwnerInv
  <2>5. /\ Fresh("video") /\ At("set_thumbnail") => site.video.owner = "pinned"
        /\ Fresh("video") /\ At("update_snippet") => site.video.owner = "pinned"
        /\ Fresh("video") /\ Fresh("comment") /\ At("insert_reply") => CommentOwner = "pinned"
    BY <2>1, <2>3, Here DEF OwnerInv
  <2>6. /\ Fresh("image") /\ At("upload_banner") => FitsBanner
        /\ Fresh("image") /\ At("set_watermark") => FitsWatermark
        /\ Fresh("image") /\ At("set_thumbnail") => FitsThumbnail
    BY <2>1, <2>3, Here DEF ImageInv
  <2> QED BY <2>4, <2>5, <2>6
<1> QED BY <1>1, CommandInvariant, PTL DEF Spec, GuardedWrites

(***************************************************************************)
(* What a write replaces: at the two calls that put the branding, the      *)
(* branding as it was read, and at the one that updates the video, the     *)
(* video as it was read.                                                   *)
(***************************************************************************)
LEMMA WriteReplaces ==
  ASSUME CommandInv, Next, Changes
  PROVE  /\ At("put_description") => site' = [site EXCEPT !.branding = merge_channel_description(seen.branding)]
         /\ At("put_banner") => site' = [site EXCEPT !.branding = merge_channel_banner(seen.branding)]
         /\ ~At("put_description") /\ ~At("put_banner") => site'.branding = site.branding
         /\ At("update_snippet") =>
              site' = [site EXCEPT !.video = [merge_video_metadata(seen.video) EXCEPT !.owner = site.video.owner]]
         /\ ~At("update_snippet") => site'.video = site.video
<1>1. Types /\ Writes /\ site \in Sites
  BY OnlyWrites DEF CommandInv, Types, TypeOK
<1> USE DEF Write, Changes, At, Sites
<1>2. CASE put_description
  BY <1>1, <1>2 DEF put_description, PutBranding
<1>3. CASE put_banner
  BY <1>1, <1>3 DEF put_banner, PutBranding
<1>4. CASE update_video_snippet
  BY <1>1, <1>4 DEF update_video_snippet
<1>5. CASE upload_channel_banner \/ set_channel_watermark \/ set_video_thumbnail \/ insert_comment_reply \/ upload_file
  BY <1>1, <1>5 DEF upload_channel_banner, set_channel_watermark, set_video_thumbnail, insert_comment_reply, upload_file
<1> QED BY <1>1, <1>2, <1>3, <1>4, <1>5 DEF Writes

(***************************************************************************)
(* channels.update and videos.update replace everything they are given,    *)
(* and still nothing is lost that others edited before the second reading: *)
(* that reading comes before the request is merged, never only before the  *)
(* plan.                                                                   *)
(***************************************************************************)
THEOREM NothingElseReplaced == Spec => NothingLost
<1>1. CommandInv /\ [Next]_vars =>
        [Changes =>
           /\ Fresh("branding") => Touched(site.branding, site.branding')
                                    \subseteq {IF At("put_description") THEN "description" ELSE "banner"}
           /\ Fresh("video") => Touched(site.video, site.video') \subseteq {"title"}]_vars
  <2> SUFFICES ASSUME CommandInv, Next, Changes
      PROVE  /\ Fresh("branding") => Touched(site.branding, site.branding')
                                      \subseteq {IF At("put_description") THEN "description" ELSE "banner"}
             /\ Fresh("video") => Touched(site.video, site.video') \subseteq {"title"}
    BY DEF vars, Changes
  <2>1. Types /\ outcome = "none" /\ site \in Sites /\ seen \in Sites
    BY WasRunning DEF CommandInv, Types, TypeOK
  <2>2. OwnerInv /\ BrandingInv
    BY <2>1 DEF CommandInv, Running
  <2>3. ASSUME Fresh("branding")
        PROVE  Touched(site.branding, site.branding')
                 \subseteq {IF At("put_description") THEN "description" ELSE "banner"}
    <3>1. CASE At("put_description")
      <4>1. seen.branding = site.branding
        BY <2>1, <2>2, <2>3, <3>1, Here DEF BrandingInv
      <4>2. site.branding' = [site.branding EXCEPT !.description = "ours"]
        BY <2>1, <3>1, <4>1, WriteReplaces DEF Sites, merge_channel_description
      <4> QED BY <2>1, <3>1, <4>2 DEF Touched, Sites
    <3>2. CASE At("put_banner")
      <4>1. seen.branding = site.branding /\ ~At("put_description")
        BY <2>1, <2>2, <2>3, <3>2, Here DEF BrandingInv, At
      <4>2. site.branding' = [site.branding EXCEPT !.banner = "ours"]
        BY <2>1, <3>2, <4>1, WriteReplaces DEF Sites, merge_channel_banner
      <4> QED BY <2>1, <4>1, <4>2 DEF Touched, Sites
    <3>3. CASE ~At("put_description") /\ ~At("put_banner")
      BY <3>3, WriteReplaces DEF Touched
    <3> QED BY <3>1, <3>2, <3>3
  <2>4. ASSUME Fresh("video")
        PROVE  Touched(site.video, site.video') \subseteq {"title"}
    <3>1. CASE At("update_snippet")
      <4>1. seen.video = site.video
        BY <2>1, <2>2, <2>4, <3>1, Here DEF OwnerInv
      <4>2. site.video' = [[site.video EXCEPT !.title = "ours"] EXCEPT !.owner = site.video.owner]
        BY <2>1, <3>1, <4>1, WriteReplaces DEF Sites, merge_video_metadata
      <4> QED BY <2>1, <4>2 DEF Touched, Sites
    <3>2. CASE ~At("update_snippet")
      BY <3>2, WriteReplaces DEF Touched
    <3> QED BY <3>1, <3>2
  <2> QED BY <2>3, <2>4
<1> QED BY <1>1, CommandInvariant, PTL DEF Spec, NothingLost

(***************************************************************************)
(* The description or banner that is replaced is the one the plan showed:  *)
(* the second reading is compared with the plan before the write.          *)
(***************************************************************************)
THEOREM PlanIsReplaced == Spec => ShownIsReplaced
<1>1. CommandInv /\ [Next]_vars =>
        [Changes /\ Fresh("branding") =>
           /\ At("put_description") => site.branding.description = planned.branding.description
           /\ At("put_banner") => site.branding.banner = planned.branding.banner]_vars
  <2> SUFFICES ASSUME CommandInv, Next, Changes, Fresh("branding")
      PROVE  /\ At("put_description") => site.branding.description = planned.branding.description
             /\ At("put_banner") => site.branding.banner = planned.branding.banner
    BY DEF vars, Changes
  <2>1. Types /\ BrandingInv
    BY WasRunning DEF CommandInv, Running
  <2> QED BY <2>1, Here DEF BrandingInv
<1> QED BY <1>1, CommandInvariant, PTL DEF Spec, ShownIsReplaced

(***************************************************************************)
(* What a command reports of its changes is true, also when the second of  *)
(* two writes fails: the report of a plan, a refusal or a plain failure    *)
(* comes with nothing changed, that of success with every write done.      *)
(***************************************************************************)
THEOREM ReportsAreTrue == Spec => []TruthfulReport
<1>1. CommandInv => TruthfulReport
  BY DEF CommandInv
<1> QED BY <1>1, CommandInvariant, PTL

(***************************************************************************)
(* For every page size and limit, a listing stays within the limit, and    *)
(* with at most one short page it is complete: the one spare page of       *)
(* page_budget makes up for it.                                            *)
(***************************************************************************)
THEOREM ListsEnough == Spec => []ListedEnough
<1>1. CommandInv => ListedEnough
  BY DEF CommandInv, ListInv, ListedEnough
<1> QED BY <1>1, CommandInvariant, PTL

(***************************************************************************)
(* classify_thread, for any number of replies: as many replies returned as *)
(* there are means all of them.                                            *)
(***************************************************************************)
LEMMA NoThreadIsOne == NoThread \in Threads
<1> DEFINE t == [author |-> "them", replies |-> <<>>, returned |-> {}]
<1>1. <<>> \in [1 .. 0 -> Authors]
  OBVIOUS
<1>2. 0 \in 0 .. MaxReplies
  BY ChannelAssumption
<1>3. t \in Threads
  BY <1>1, <1>2 DEF Threads, Authors
<1> QED BY <1>3 DEF NoThread

LEMMA AllReturned ==
  ASSUME NEW thread \in Threads
  PROVE  /\ thread.returned \subseteq DOMAIN thread.replies
         /\ Cardinality(thread.returned) >= Len(thread.replies) => thread.returned = DOMAIN thread.replies
<1>1. PICK n \in Nat : thread.replies \in [1 .. n -> Authors]
  BY ChannelAssumption DEF Threads
<1>2. DOMAIN thread.replies = 1 .. n /\ Len(thread.replies) = n
  BY <1>1
<1>3. thread.returned \subseteq 1 .. n
  BY <1>2 DEF Threads
<1>4. IsFiniteSet(1 .. n) /\ Cardinality(1 .. n) = n
  BY FS_Interval
<1>5. /\ IsFiniteSet(thread.returned) /\ Cardinality(thread.returned) <= n
      /\ Cardinality(thread.returned) = n => thread.returned = 1 .. n
  <2>1. thread.returned \in SUBSET (1 .. n)
    BY <1>3
  <2> QED BY <2>1, <1>4, FS_Subset
<1>6. Cardinality(thread.returned) \in Nat
  BY <1>5, FS_CardinalityType
<1> QED BY <1>2, <1>3, <1>5, <1>6

LEMMA ClassifiedRight ==
  ASSUME NEW thread \in Threads
  PROVE  /\ OwesAnswer(thread) => select_unanswered(thread, TRUE)
         /\ select_unanswered(thread, FALSE) => OwesAnswer(thread)
BY AllReturned DEF OwesAnswer, select_unanswered, classify_thread

(***************************************************************************)
(* comments list never hides a thread that waits for an answer, and        *)
(* without the uncertain ones lists none that was answered, for threads    *)
(* with any number of replies, however few of them were returned.          *)
(***************************************************************************)
THEOREM CommentsFound == Spec => []NoCommentForgotten
<1>1. ASSUME command \in Commands PROVE command.thread \in Threads
  BY <1>1, NoThreadIsOne DEF Commands
<1>2. CommandInv => NoCommentForgotten
  BY <1>1, ClassifiedRight DEF CommandInv, Types, TypeOK, NoCommentForgotten
<1> QED BY <1>2, CommandInvariant, PTL

-----------------------------------------------------------------------------
(***************************************************************************)
(* The upload.                                                             *)
(***************************************************************************)
\* What the server and its answers guarantee: the video is the whole file, an
\* answer that announces it is true, and a range names only what is held.
ServerTruthful ==
  /\ video => held = Total
  /\ reply.status \in {"done", "unreadable"} => video
  /\ reply.status = "more" => reply.held <= held

\* The command is over exactly when it has reported.
ReportedWhenDone == pc = "done" <=> result # "none"

\* What the client was told is in the answer it has yet to read, or reported; and
\* what it gave up on, it asked about last.
ToldOrReading ==
  /\ reply.status = "none" => reply = NoAnswer
  /\ told => result = "published" \/ (pc \in {"sending", "asking"} /\ reply.status = "done")
  /\ pc \in {"sending", "asking"} /\ reply.status = "done" => told
  /\ result = "published" => told
  /\ pc = "asking" => call = Status
  /\ result = "unsure" => call = Status /\ reply.status \notin {"none", "done"}

UploadInv ==
  /\ UploadTypeOK /\ ServerTruthful /\ ReportedWhenDone
  /\ ToldOrReading /\ SkipsOnlyFromNothing
  /\ result = "published" => video

USE UploadAssumption

LEMMA UploadInvInit == UploadInit => UploadInv
<1> SUFFICES ASSUME UploadInit PROVE UploadInv
  OBVIOUS
<1>1. Status \in Requests
  BY DEF Status, Requests
<1>2. NoAnswer \in Answers /\ NoAnswer.status = "none"
  BY DEF NoAnswer, Answer, Answers
<1>3. UploadTypeOK
  <2>1. call \in Requests /\ reply \in Answers /\ delayed \subseteq Requests
    BY <1>1, <1>2 DEF UploadInit
  <2>2. /\ pc = "open" /\ purpose = "retry" /\ result = "none" /\ faults = 0
        /\ offset = 0 /\ attempts = 0 /\ length = Total /\ held = 0
        /\ {late, video, alive, told, bare, spoiled} \subseteq BOOLEAN
    BY DEF UploadInit
  <2> QED BY <2>1, <2>2 DEF UploadTypeOK, Outcomes
<1>4. ServerTruthful
  BY <1>2 DEF UploadInit, ServerTruthful
<1>5. ReportedWhenDone /\ ToldOrReading /\ result # "published"
  BY DEF UploadInit, ReportedWhenDone, ToldOrReading
<1>6. SkipsOnlyFromNothing
  BY DEF UploadInit, SkipsOnlyFromNothing
<1> QED BY <1>3, <1>4, <1>5, <1>6 DEF UploadInv

\* The prefix only grows, and never beyond the file.
LEMMA KeptGrows ==
  ASSUME UploadTypeOK, NEW r, r.kind = "chunk" => r.next \in 0..Total, NEW n \in Kept(r)
  PROVE  n \in 0..Total /\ held <= n
BY DEF UploadTypeOK, Kept

\* A request that arrives moves the server only forward.
LEMMA ArrivalKeepsServer ==
  ASSUME UploadInv, NEW r \in Requests, Arrives(r)
  PROVE  /\ held' \in 0..Total /\ held <= held'
         /\ video' \in BOOLEAN /\ (video => video') /\ (video' => held' = Total)
<1>1. CASE held' \in Kept(r) /\ video' = (held' = Total) /\ ~video
  BY <1>1, KeptGrows DEF UploadInv, Requests
<1>2. CASE UNCHANGED <<held, video>>
  BY <1>2 DEF UploadInv, UploadTypeOK, ServerTruthful
<1> QED BY <1>1, <1>2 DEF Arrives

\* So does a request that is answered, and the answer is true.
LEMMA HandlingKeepsServer ==
  ASSUME UploadInv, NEW r \in Requests, NEW a \in Answers, NEW harm, Handle(r, a, harm)
  PROVE  /\ held' \in 0..Total /\ held <= held'
         /\ video' \in BOOLEAN /\ (video => video') /\ (video' => held' = Total)
         /\ a.status \in {"done", "unreadable"} => video'
         /\ a.status = "more" => a.held <= held'
         /\ a.status # "none" /\ faults' \in Nat /\ alive' = alive
<1> DEFINE Unmoved == UNCHANGED <<held, video, faults>>
<1>1. CASE a = Answer("permanent") /\ Unmoved
  BY <1>1 DEF UploadInv, UploadTypeOK, ServerTruthful, Answer, Handle
<1>2. CASE video /\ a \in Done /\ Unmoved
  BY <1>2 DEF UploadInv, UploadTypeOK, ServerTruthful, Answer, Done, Handle
<1>3. CASE held' \in Kept(r) /\ video' = (held' = Total) /\ ~video
  <2>1. held' \in 0..Total /\ held <= held'
    BY <1>3, KeptGrows DEF UploadInv, Requests
  <2>2. CASE held' = Total /\ a \in Done /\ UNCHANGED faults
    BY <1>3, <2>1, <2>2 DEF UploadInv, UploadTypeOK, Answer, Done, Handle
  <2>3. CASE held' < Total /\ a = [status |-> "more", held |-> held'] /\ UNCHANGED faults
    BY <1>3, <2>1, <2>3 DEF UploadInv, UploadTypeOK, Handle
  <2>4. CASE a = Answer("retryable") /\ faults' = faults + 1
    BY <1>3, <2>1, <2>4 DEF UploadInv, UploadTypeOK, Answer, Handle
  <2> QED BY <1>1, <1>2, <1>3, <2>2, <2>3, <2>4 DEF Handle
<1> QED BY <1>1, <1>2, <1>3 DEF Handle

LEMMA UploadInvStep == UploadInv /\ [UploadNext]_uploadVars => UploadInv'
<1> SUFFICES ASSUME UploadInv, [UploadNext]_uploadVars PROVE UploadInv'
  OBVIOUS
<1> USE DEF UploadInv, UploadTypeOK, ServerTruthful, ReportedWhenDone, ToldOrReading,
            SkipsOnlyFromNothing, client, server, history
<1>1. CASE Opened
  BY <1>1 DEF Opened
<1>2. CASE OpenRefused
  BY <1>2 DEF OpenRefused, Finish, Outcomes
<1>3. CASE Loop
  <2>1. UNCHANGED <<offset, attempts, late, length, delayed, server, faults, history>> /\ pc = "top"
    BY <1>3 DEF Loop
  <2>2. CASE OverDeadline \/ AllSent
    BY <2>1, <2>2 DEF OverDeadline, AllSent, Ask
  <2>3. CASE NothingRead
    BY <2>1, <2>3 DEF NothingRead, Finish, Outcomes
  <2>4. CASE SendChunk
    <3>1. ChunkEnd \in 0..Total
      BY <2>4 DEF SendChunk, ChunkEnd
    <3>2. call' \in Requests /\ reply' = NoAnswer /\ pc' = "sending" /\ UNCHANGED <<purpose, result>>
      BY <2>4, <3>1 DEF SendChunk, Send, Requests
    <3>3. NoAnswer \in Answers /\ NoAnswer.status = "none"
      BY DEF NoAnswer, Answer, Answers
    <3> QED BY <2>1, <3>2, <3>3
  <2>5. CASE NoToken
    BY <2>1, <2>5 DEF NoToken, Finish, Outcomes
  <2> QED BY <1>3, <2>2, <2>3, <2>4, <2>5 DEF Loop
<1>4. CASE Query
  <2>1. CASE Send(Status) /\ pc' = "asking" /\ UNCHANGED <<purpose, result>>
    BY <1>4, <2>1 DEF Query, Send, Status, Requests, NoAnswer, Answer, Answers
  <2>2. CASE NoToken
    BY <1>4, <2>2 DEF Query, NoToken, Finish, Outcomes
  <2> QED BY <1>4, <2>1, <2>2 DEF Query
<1>5. CASE ChunkAnswered
  <2>1. UNCHANGED <<late, length, call, reply, delayed, server, faults, told, spoiled>> /\ pc = "sending"
    BY <1>5 DEF ChunkAnswered
  <2>2. CASE ChunkDone
    BY <2>1, <2>2 DEF ChunkDone, Completed, Finish, Outcomes
  <2>3. CASE ChunkUnreadable
    BY <2>1, <2>3 DEF ChunkUnreadable, Ask
  <2>4. CASE ChunkProgress
    <3>1. /\ attempts' = 0 /\ pc' = "top" /\ bare' = (bare \/ reply.held = 0)
          /\ reply.status = "more" /\ UNCHANGED <<purpose, result>>
      BY <2>4 DEF ChunkProgress
    <3>2. offset' \in 0..Total
      BY <2>4 DEF ChunkProgress, ResumeOffset, Requests, Answers
    <3>3. CASE reply.held > 0
      BY <2>1, <2>4, <3>1, <3>2, <3>3 DEF ChunkProgress, ResumeOffset, Answers
    <3>4. CASE reply.held = 0
      BY <2>1, <3>1, <3>2, <3>4
    <3> QED BY <3>3, <3>4 DEF Answers
  <2>5. CASE ChunkRefused
    BY <2>1, <2>5 DEF ChunkRefused, Finish, Outcomes
  <2>6. CASE ChunkFailed
    BY <2>1, <2>6 DEF ChunkFailed, Ask
  <2> QED BY <1>5, <2>2, <2>3, <2>4, <2>5, <2>6 DEF ChunkAnswered
<1>6. CASE StatusAnswered
  <2>1. /\ UNCHANGED <<attempts, late, length, call, reply, delayed, server, faults, history>>
        /\ pc = "asking" /\ reply # NoAnswer
    BY <1>6 DEF StatusAnswered
  <2>2. CASE Completed /\ UNCHANGED offset
    BY <2>1, <2>2 DEF Completed, Finish, Outcomes
  <2>3. CASE reply.status # "done" /\ Finish("unsure") /\ UNCHANGED <<purpose, offset>>
    <3>1. reply.status # "none"
      BY <2>1
    <3> QED BY <2>1, <2>3, <3>1 DEF Finish, Outcomes
  <2>4. CASE reply.status # "done" /\ offset' = ProbedOffset /\ pc' = "top" /\ UNCHANGED <<purpose, result>>
    BY <2>1, <2>4 DEF ProbedOffset, ResumeOffset, Answers
  <2> QED BY <1>6, <2>2, <2>3, <2>4 DEF StatusAnswered
<1>7. CASE Serve
  <2>1. PICK a \in Answers, harm \in BOOLEAN :
          /\ Handle(call, a, harm) /\ reply' = a
          /\ told' = (told \/ a.status = "done") /\ spoiled' = (spoiled \/ harm)
    BY <1>7 DEF Serve
  <2>2. /\ UNCHANGED <<client, late, length, call, delayed, bare>>
        /\ pc \in {"sending", "asking"} /\ reply.status = "none" /\ result = "none" /\ ~told
    BY <1>7 DEF Serve, Waiting, NoAnswer, Answer
  <2> HIDE DEF UploadInv
  <2>3. /\ held' \in 0..Total /\ held <= held'
        /\ video' \in BOOLEAN /\ (video => video') /\ (video' => held' = Total)
        /\ a.status \in {"done", "unreadable"} => video'
        /\ a.status = "more" => a.held <= held'
        /\ a.status # "none" /\ faults' \in Nat /\ alive' = alive
    BY <2>1, HandlingKeepsServer DEF UploadInv
  <2> QED BY <2>1, <2>2, <2>3 DEF UploadInv
<1>8. CASE Lose
  <2>1. /\ UNCHANGED <<client, late, length, call, alive, history>>
        /\ reply' = Answer("lost") /\ faults' = faults + 1
        /\ reply.status = "none" /\ result = "none" /\ ~told
    BY <1>8 DEF Lose, Waiting, NoAnswer, Answer
  <2>2. /\ held' \in 0..Total /\ held <= held' /\ delayed' \subseteq Requests
        /\ video' \in BOOLEAN /\ (video => video') /\ (video' => held' = Total)
    <3> HIDE DEF UploadInv
    <3>1. CASE Arrives(call) /\ UNCHANGED delayed
      BY <3>1, ArrivalKeepsServer DEF UploadInv
    <3>2. CASE UNCHANGED <<held, video>> /\ (UNCHANGED delayed \/ delayed' = {call})
      BY <3>2 DEF UploadInv
    <3> QED BY <1>8, <3>1, <3>2 DEF Lose
  <2> QED BY <2>1, <2>2 DEF Answer, Answers
<1>9. CASE Straggle
  <2>1. PICK r \in delayed : Arrives(r) /\ delayed' = delayed \ {r}
    BY <1>9 DEF Straggle
  <2>2. UNCHANGED <<client, late, length, call, reply, alive, faults, history>>
    BY <1>9 DEF Straggle
  <2> HIDE DEF UploadInv
  <2>3. /\ held' \in 0..Total /\ held <= held'
        /\ video' \in BOOLEAN /\ (video => video') /\ (video' => held' = Total)
    BY <2>1, ArrivalKeepsServer DEF UploadInv
  <2>4. delayed' \subseteq Requests
    BY <2>1 DEF UploadInv
  <2>5. UploadTypeOK'
    BY <2>2, <2>3, <2>4 DEF UploadInv
  <2> QED BY <2>2, <2>3, <2>5 DEF UploadInv, Answers
<1>10. CASE Expire
  <2>1. /\ alive' = FALSE /\ spoiled' = TRUE /\ UNCHANGED client
        /\ UNCHANGED <<late, length, call, reply, delayed, held, video, faults, told, bare>>
    BY <1>10 DEF Expire
  <2>2. UploadTypeOK'
    BY <2>1
  <2>3. ServerTruthful' /\ ReportedWhenDone' /\ SkipsOnlyFromNothing'
    BY <2>1
  <2> HIDE DEF UploadTypeOK, ServerTruthful, ReportedWhenDone, SkipsOnlyFromNothing
  <2>4. ToldOrReading'
    <3>1. ToldOrReading
      BY DEF UploadInv
    <3> HIDE DEF UploadInv
    <3> QED BY <2>1, <3>1
  <2> HIDE DEF ToldOrReading
  <2> QED BY <2>1, <2>2, <2>3, <2>4
<1>11. CASE DeadlinePasses
  BY SMTT(30), <1>11 DEF DeadlinePasses
<1>12. CASE Truncate
  BY SMTT(30), <1>12 DEF Truncate
<1>13. CASE UNCHANGED uploadVars
  BY <1>13 DEF uploadVars
<1> QED BY <1>1, <1>2, <1>3, <1>4, <1>5, <1>6, <1>7, <1>8, <1>9, <1>10, <1>11, <1>12, <1>13
        DEF UploadNext, ClientStep

\* Types, true answers and the two safety properties hold in every reachable
\* state, for every size of file and chunk and every pattern of faults.
THEOREM UploadInvariant == UploadSpec => []UploadInv
BY UploadInvInit, UploadInvStep, PTL DEF UploadSpec

\* A client told of the finished video by any answer reports success, and it gives
\* up only when the probe that goes before has told it of none
\* (_accept_upload_completion, _abandon_upload, _query_upload_status).
THEOREM ToldIsReported == UploadSpec => []ToldMeansReported
<1>1. UploadInv => ToldMeansReported
  BY DEF UploadInv, ToldOrReading, ReportedWhenDone, ToldMeansReported
<1> QED BY <1>1, UploadInvariant, PTL

\* Only a 308 to a chunk without a range can put the client ahead of the server
\* (upload_file and _resume_offset).
THEOREM NoOtherSkip == UploadSpec => []SkipsOnlyFromNothing
<1>1. UploadInv => SkipsOnlyFromNothing
  BY DEF UploadInv
<1> QED BY <1>1, UploadInvariant, PTL

-------------------------------------------------------------------------------
(* Refinement *)

LEMMA InitPublication == UploadInit => Publishes!Init
BY DEF UploadInit, Publishes!Init, Report

\* A step of the server publishes or leaves the video alone, and only the
\* client reports.
LEMMA ServerMoves ==
  ASSUME UploadInv, UNCHANGED result, (video => video'), video' \in BOOLEAN
  PROVE  [Publishes!Next]_<<video, Report>>
BY DEF UploadInv, UploadTypeOK, Publishes!Next, Publishes!Publish, Report

LEMMA ClientReports ==
  ASSUME UploadInv, UNCHANGED video,
         UNCHANGED result \/ result = "none",
         result' = "published" => video
  PROVE  [Publishes!Next]_<<video, Report>>
BY DEF UploadInv, UploadTypeOK, Publishes!Next, Publishes!ReportVideo, Publishes!ReportFailure, Report

LEMMA StepPublication ==
  UploadInv /\ [UploadNext]_uploadVars =>
    [Publishes!Next]_<<video, Report>>
<1> SUFFICES ASSUME UploadInv, [UploadNext]_uploadVars
             PROVE  [Publishes!Next]_<<video, Report>>
  OBVIOUS
<1>1. CASE ClientStep
  <2>1. UNCHANGED video
    BY <1>1 DEF ClientStep, Opened, OpenRefused, Loop, Query, ChunkAnswered, StatusAnswered, server
  <2>2. UNCHANGED result \/ result = "none"
    <3>1. pc # "done" \/ UNCHANGED result
      BY <1>1 DEF ClientStep, Opened, OpenRefused, Loop, Query, ChunkAnswered, StatusAnswered
    <3> QED BY <3>1 DEF UploadInv, ReportedWhenDone
  <2>3. result' = "published" => video
    <3>1. UploadInv'
      BY UploadInvStep
    <3> QED BY <3>1, <2>1 DEF UploadInv
  <2> QED BY <2>1, <2>2, <2>3, ClientReports
<1>2. CASE Serve
  <2>1. PICK a \in Answers, harm \in BOOLEAN : Handle(call, a, harm)
    BY <1>2 DEF Serve
  <2>2. (video => video') /\ video' \in BOOLEAN
    BY <2>1, HandlingKeepsServer DEF UploadInv, UploadTypeOK
  <2> QED BY <1>2, <2>2, ServerMoves DEF Serve, client
<1>3. CASE Lose
  <2>1. (video => video') /\ video' \in BOOLEAN
    BY <1>3, ArrivalKeepsServer DEF Lose, UploadInv, UploadTypeOK
  <2> QED BY <1>3, <2>1, ServerMoves DEF Lose, client
<1>4. CASE Straggle
  <2>1. (video => video') /\ video' \in BOOLEAN
    BY <1>4, ArrivalKeepsServer DEF Straggle, UploadInv, UploadTypeOK
  <2> QED BY <1>4, <2>1, ServerMoves DEF Straggle, client
<1>5. CASE Expire \/ DeadlinePasses \/ Truncate \/ UNCHANGED uploadVars
  BY <1>5, ServerMoves DEF Expire, DeadlinePasses, Truncate, uploadVars, client, server, UploadInv, UploadTypeOK
<1> QED BY <1>1, <1>2, <1>3, <1>4, <1>5 DEF UploadNext

\* The upload implements the abstract publication: a video is reported only if
\* it exists, and the command reports once.
THEOREM ImplementsPublication == UploadSpec => IsPublication
BY InitPublication, StepPublication, UploadInvariant, PTL DEF UploadSpec, IsPublication, Publishes!Spec
================================================================================
