---------------------------- MODULE ChannelCommands ----------------------------
(***************************************************************************)
(* The commands of host/youtube/nexttang_youtube that read or change the   *)
(* channel: cli.py, with the calls of api.py and the plans of              *)
(* operations.py.  One process runs one command, step by step; meanwhile   *)
(* somebody edits the channel in YouTube Studio or the local files, and    *)
(* every call may be refused, lost, or carried out with its answer lost.   *)
(*                                                                         *)
(* The channel is external.  A text or image is abstracted to whose it is: *)
(* what was there, what Studio made of it, or what this command writes.    *)
(***************************************************************************)
EXTENDS ThreadClassifier

CONSTANTS
  PageSize,   \* DATA_PAGE_SIZE
  MAX_LIMIT,
  MaxItems,   \* bound: items a listing could return
  MaxEdits    \* bound: edits by others during the command

ASSUME ChannelAssumption ==
  /\ {PageSize, MAX_LIMIT} \subseteq Nat \ {0}
  /\ {MaxItems, MaxEdits, MaxReplies} \subseteq Nat

VARIABLES
  command,     \* args, and what the token on disk permits
  step,        \* index of the next step
  planned,     \* the channel as the plan shows it
  seen,        \* the channel as last read
  page,        \* the state of _paged
  outcome,     \* what the command reported
  site,        \* the channel: account, branding, video, comment
  image,       \* the image file named on the command line: width, height
  edits,       \* made, bounded by MaxEdits
  stale,       \* history: what others changed after the command's last look at it
  applied      \* history: the writes that took effect

local == <<command, step, planned, seen, page, outcome>>
vars == <<local, site, image, edits, stale, applied>>

-------------------------------------------------------------------------------
(* The commands, as the order of their steps *)

command_status == <<"stored_token", "guard">>
command_channel_show == <<"guard", "branding">>
command_channel_set_description ==
  <<"text", "guard", "branding", "plan_description", "dry_run",
    "scope", "guard", "branding", "same_channel_block", "put_description">>
command_channel_set_banner ==
  <<"guard", "branding", "plan_banner", "dry_run",
    "scope", "guard", "branding", "same_branding", "upload_banner", "put_banner">>
command_channel_set_watermark ==
  <<"guard", "plan_watermark", "dry_run", "scope", "guard", "set_watermark">>
command_videos_list == <<"limit", "guard", "list", "details">>
command_videos_upload ==
  <<"text", "plan_upload", "guard", "dry_run", "scope", "guard", "upload">>
command_videos_set_thumbnail ==
  <<"guard", "plan_thumbnail", "video", "own_video", "dry_run",
    "scope", "guard", "video", "own_video", "set_thumbnail">>
command_videos_update_metadata ==
  <<"text", "guard", "video", "own_video", "plan_metadata", "dry_run",
    "scope", "guard", "video", "own_video", "plan_metadata", "update_snippet">>
command_playlists_list == <<"limit", "guard", "list">>
command_comments_list == <<"limit", "scope", "guard", "list", "classify">>
command_comments_reply ==
  <<"text", "plan_reply", "guard", "resolve", "dry_run",
    "scope", "guard", "resolve", "insert_reply">>
command_analytics_summary == <<"days", "guard", "report">>

Reading == {command_status, command_channel_show, command_videos_list, command_playlists_list,
            command_comments_list, command_analytics_summary}
Writing == {command_channel_set_description, command_channel_set_banner,
            command_channel_set_watermark, command_videos_upload, command_videos_set_thumbnail,
            command_videos_update_metadata, command_comments_reply}

\* build_parser: --apply exists only for the commands that write.  `all` stands
\* for --include-uncertain and --details.
NoThread == CHOOSE t \in Threads : t.replies = <<>> /\ t.author = "them"
Commands ==
  [steps : Writing, apply : BOOLEAN, granted : BOOLEAN, limit : {1}, items : {0},
   thread : {NoThread}, all : {TRUE}]
  \cup
  [steps : {command_videos_list, command_playlists_list}, apply : {FALSE}, granted : {TRUE},
   limit : 0..(MAX_LIMIT + 1), items : 0..MaxItems, thread : {NoThread}, all : BOOLEAN]
  \cup
  [steps : {command_comments_list}, apply : {FALSE}, granted : BOOLEAN,
   limit : {1}, items : {1}, thread : Threads, all : BOOLEAN]
  \cup
  [steps : Reading \ {command_videos_list, command_playlists_list, command_comments_list},
   apply : {FALSE}, granted : BOOLEAN, limit : {1}, items : {0}, thread : {NoThread}, all : {TRUE}]

Texts == {"old", "studio", "ours"}
Owners == {"pinned", "other", "none"}
\* A comment is on a video, on the channel page, or on something unresolvable.
Sites == [account : {"pinned", "other", "several"},
          branding : [description : Texts, keywords : Texts, banner : Texts],
          video : [owner : Owners, title : Texts, tags : Texts, category : BOOLEAN],
          comment : [on : {"video", "channel", "nothing", "deleted"}, owner : Owners]]
Images == {<<0, 0>>, <<150, 150>>, <<1280, 720>>, <<1280, 719>>, <<2048, 1152>>, <<2048, 1536>>}
NoPage == [got |-> 0, used |-> 0, short |-> 0]

\* The part of the channel that the steps of the command look at.
HasStep(names) == \E i \in DOMAIN command.steps : command.steps[i] \in names
Looks(part) ==
  \/ part = "account"
  \/ part = "branding" /\ HasStep({"same_channel_block", "same_branding"})
  \/ part = "video" /\ HasStep({"own_video", "resolve"})
  \/ part = "comment" /\ HasStep({"resolve"})
  \/ part = "image" /\ HasStep({"plan_banner", "plan_watermark", "plan_thumbnail"})

\* What the command does not look at has one value.
Start(part, any, one) == IF Looks(part) THEN any ELSE {one}

Init ==
  /\ command \in Commands /\ step = 1 /\ page = NoPage /\ outcome = "none"
  /\ \E account \in {"pinned", "other", "several"},
        description \in Start("branding", {"old", "ours"}, "old"),
        owner \in Start("video", {"pinned", "other"}, "pinned"),
        title \in Start("video", {"old", "ours"}, "old"), category \in Start("video", BOOLEAN, TRUE),
        on \in Start("comment", {"video", "channel", "nothing"}, "nothing") :
       site = [account |-> account,
               branding |-> [description |-> description, keywords |-> "old", banner |-> "old"],
               video |-> [owner |-> owner, title |-> title, tags |-> "old", category |-> category],
               comment |-> [on |-> on, owner |-> "pinned"]]
  /\ image \in Start("image", Images, <<0, 0>>)
  /\ planned = site /\ seen = site /\ edits = 0 /\ stale = {} /\ applied = {}

-------------------------------------------------------------------------------
(* Steps *)

At(name) == outcome = "none" /\ step <= Len(command.steps) /\ command.steps[step] = name
Proceed == step' = step + 1 /\ UNCHANGED <<command, outcome>>
End(report) == outcome' = report /\ UNCHANGED <<command, step>>

\* A step on local data: it goes on if `ok`, else a typed error ends the command.
Decide(name, ok) ==
  /\ At(name) /\ IF ok THEN Proceed ELSE End("refused")
  /\ UNCHANGED <<planned, seen, page, site, image, edits, stale, applied>>

\* An input that is well formed or not.
Screen(name) == \E ok \in BOOLEAN : Decide(name, ok)

\* A GET of one part of the channel.
Read(name, part) ==
  /\ At(name)
  /\ \/ /\ Proceed /\ seen' = [seen EXCEPT ![part] = site[part]] /\ stale' = stale \ {part}
     \/ End("failed") /\ UNCHANGED <<seen, stale>>
  /\ UNCHANGED <<planned, page, site, image, edits, applied>>

\* verify: the warnings about a changed title or handle are left out.
verify(account) == account = "pinned"

Resolve ==
  \/ /\ seen' = [seen EXCEPT !.account = site.account] /\ stale' = stale \ {"account"}
     /\ IF verify(site.account) THEN Proceed ELSE End("refused")
  \/ End("failed") /\ UNCHANGED <<seen, stale>>

\* Mutant: force=False, the identity resolved earlier in the run is used again.
guarded_cached ==
  /\ At("guard")
  /\ IF \E i \in 1..(step - 1) : command.steps[i] = "guard"
     THEN Proceed /\ UNCHANGED <<seen, stale>>
     ELSE Resolve
  /\ UNCHANGED <<planned, page, site, image, edits, applied>>

\* guarded_channel: my_channel and verify, again (force=True) before a write.
guarded_channel ==
  /\ At("guard") /\ Resolve
  /\ UNCHANGED <<planned, page, site, image, edits, applied>>

read_text_file == Screen("text")

\* status: without a client file or a token, or with --offline, there is no call.
stored_token ==
  /\ At("stored_token")
  /\ Proceed \/ End("shown")
  /\ UNCHANGED <<planned, seen, page, site, image, edits, stale, applied>>

channel_branding == Read("branding", "branding")
video_resource == Read("video", "video")

\* require_scope opens the second phase: what changed before it, this phase has
\* to notice, except the image, which is not looked at again.
require_scope ==
  /\ At("scope") /\ IF command.granted THEN Proceed ELSE End("refused")
  /\ stale' = stale \cap {"image"}
  /\ UNCHANGED <<planned, seen, page, site, image, edits, applied>>

\* The owner of the video under which the comment stands, or of the channel page.
CommentOwner ==
  IF site.comment.on = "video" THEN site.video.owner
  ELSE IF site.comment.on = "channel" THEN site.comment.owner ELSE "none"

resolve_reply_target ==
  /\ At("resolve")
  /\ \/ /\ seen' = [seen EXCEPT !.comment = site.comment, !.video = site.video]
        /\ stale' = stale \ {"comment", "video"}
        /\ site.comment.on # "deleted"
        /\ IF CommentOwner = "pinned" THEN Proceed ELSE End("refused")
     \/ End("failed") /\ UNCHANGED <<seen, stale>>
  /\ UNCHANGED <<planned, page, site, image, edits, applied>>

\* The plans: what they refuse, and what they show.
Plan(name, ok) ==
  /\ At(name) /\ IF ok THEN Proceed ELSE End("refused")
  /\ planned' = seen /\ UNCHANGED <<seen, page, site, image, edits, applied>>

plan_channel_description ==
  Plan("plan_description", seen.branding.description # "ours") /\ UNCHANGED stale
plan_video_metadata ==
  Plan("plan_metadata", seen.video.category /\ seen.video.title # "ours") /\ UNCHANGED stale

\* inspect_image reads the file as it is now.
PlanImage(name, ok) == Plan(name, ok) /\ stale' = stale \ {"image"}

Wide == image[1] * 9 = image[2] * 16
FitsBanner == image[1] >= 2048 /\ image[2] >= 1152 /\ Wide
FitsWatermark == image = <<150, 150>>
FitsThumbnail == image[1] >= 1280 /\ Wide

plan_channel_banner == PlanImage("plan_banner", FitsBanner)
plan_channel_watermark == PlanImage("plan_watermark", FitsWatermark)
plan_video_thumbnail == PlanImage("plan_thumbnail", FitsThumbnail)

plan_video_upload == Screen("plan_upload")
plan_comment_reply == Screen("plan_reply")

dry_run ==
  /\ At("dry_run") /\ IF command.apply THEN Proceed ELSE End("planned")
  /\ UNCHANGED <<planned, seen, page, site, image, edits, stale, applied>>

own_video == Decide("own_video", seen.video.owner = "pinned")

Compare(channel, all) ==
  Decide("same_channel_block", channel) \/ Decide("same_branding", all)

\* Mutant: the second reading is not compared with the first.
same_skipped == Compare(TRUE, TRUE)

\* set-description compares only the channel block, set-banner everything.
same_branding ==
  Compare(/\ seen.branding.description = planned.branding.description
          /\ seen.branding.keywords = planned.branding.keywords,
          seen.branding = planned.branding)

-------------------------------------------------------------------------------
(* Writes *)

\* The reports of a failed write: the network error, which says that the result
\* is unknown; an API error, or an answer that is no JSON, which says nothing of
\* it; the quota error, which says that nothing was changed; Ctrl-C.
Errors == {"unsure", "failed", "refused", "interrupted"}

\* One call that changes the channel to `after`, carried out or not, answered or
\* not.  The quota error is true: the server did not carry the call out.
Write(name, after, errors) ==
  /\ At(name)
  /\ \/ /\ site' = after /\ applied' = applied \cup {name}
        /\ IF step = Len(command.steps) THEN End("applied") ELSE Proceed
     \/ /\ site' = after /\ applied' = applied \cup {name}
        /\ \E report \in errors \ {"refused"} : End(report)
     \/ UNCHANGED <<site, applied>> /\ \E report \in errors : End(report)
  /\ UNCHANGED <<planned, seen, page, image, edits, stale>>

merge_channel_description(branding) == [branding EXCEPT !.description = "ours"]
merge_channel_banner(branding) == [branding EXCEPT !.banner = "ours"]
merge_video_metadata(video) == [video EXCEPT !.title = "ours"]

PutBranding(name, branding, errors) ==
  Write(name, [site EXCEPT !.branding = branding], errors)

\* Mutant: the request is the one of the plan, merged before the second reading.
put_planned ==
  PutBranding("put_description", merge_channel_description(planned.branding), Errors)

\* channels.update replaces the whole part.
put_description ==
  PutBranding("put_description", merge_channel_description(seen.branding), Errors)

\* Mutant: the error of the second write says nothing of the first.
put_banner_silent == PutBranding("put_banner", merge_channel_banner(seen.branding), Errors)

\* Every error after the upload is extended: the image was uploaded.
put_banner ==
  PutBranding("put_banner", merge_channel_banner(seen.branding), {"unsure", "interrupted"})

\* _multipart_upload reads the file again, and looks only at its size.
upload_channel_banner == Write("upload_banner", site, Errors)
set_channel_watermark == Write("set_watermark", site, Errors)
set_video_thumbnail == Write("set_thumbnail", site, Errors)

\* The request names the mutable fields; the owner is not one of them.
update_video_snippet ==
  LET video == [merge_video_metadata(seen.video) EXCEPT !.owner = site.video.owner]
  IN Write("update_snippet", [site EXCEPT !.video = video], Errors)

insert_comment_reply == Write("insert_reply", site, Errors)

\* start_resumable_upload and upload_file: the module UploadSession.
upload_file == Write("upload", site, Errors)

-------------------------------------------------------------------------------
(* Listings *)

validate_limit == Decide("limit", command.limit \in 1..MAX_LIMIT)
days_in_range == Screen("days")

\* Mutant: no page beyond those a server with full pages needs.
page_budget_exact == (command.limit + PageSize - 1) \div PageSize

\* One page more than a server with full pages needs.
page_budget == (command.limit + PageSize - 1) \div PageSize + 1

Least(a, b) == IF a < b THEN a ELSE b

\* A page of the listing: the server may return less than was asked for, and
\* another page follows while there are items left.
_paged ==
  /\ At("list")
  /\ LET wanted == Least(command.limit - page.got, PageSize) IN
     \/ /\ page.used < page_budget /\ page.got < command.limit
        /\ \E n \in 0..Least(wanted, command.items - page.got) :
             LET more == page.got + n < command.items IN
             /\ page' = [got |-> page.got + n, used |-> page.used + 1,
                         short |-> IF more /\ n < wanted THEN page.short + 1 ELSE page.short]
             /\ IF more THEN UNCHANGED <<command, step, outcome>> ELSE Proceed
     \/ /\ page.used >= page_budget \/ page.got >= command.limit
        /\ Proceed /\ UNCHANGED page
     \/ page.used < page_budget /\ End("failed") /\ UNCHANGED page
  /\ UNCHANGED <<planned, seen, site, image, edits, stale, applied>>

\* Without --details, or with nothing listed, there is no call.
video_details ==
  IF command.all /\ page.got > 0 THEN Read("details", "video") ELSE Decide("details", TRUE)

analytics_report == Read("report", "account")

\* The classification of the listed threads is ThreadClassifier.
classify == Decide("classify", TRUE)

\* A command without --apply ends after its last step.
Emit ==
  /\ outcome = "none" /\ step > Len(command.steps) /\ End("shown")
  /\ UNCHANGED <<planned, seen, page, site, image, edits, stale, applied>>

\* KeyboardInterrupt between the steps; Write has the one during a call.
Interrupt ==
  /\ outcome = "none" /\ End("interrupted")
  /\ UNCHANGED <<planned, seen, page, site, image, edits, stale, applied>>

-------------------------------------------------------------------------------
(* Others: external *)

Edited(s, part) == Looks(part) /\ site' = s /\ stale' = stale \cup {part} /\ UNCHANGED image

Edit ==
  /\ outcome = "none" /\ command.steps \in Writing /\ edits < MaxEdits /\ edits' = edits + 1
  /\ \/ Edited([site EXCEPT !.account = "other"], "account")
     \/ \E f \in {"description", "keywords", "banner"} :
          Edited([site EXCEPT !.branding[f] = "studio"], "branding")
     \/ \E f \in {"title", "tags"} : Edited([site EXCEPT !.video[f] = "studio"], "video")
     \/ \E o \in {"other", "none"} : Edited([site EXCEPT !.video.owner = o], "video")
     \/ Edited([site EXCEPT !.comment.on = "deleted"], "comment")
     \/ Edited([site EXCEPT !.comment.owner = "other"], "comment")
     \/ Looks("image") /\ image' \in Images \ {image} /\ stale' = stale \cup {"image"} /\ UNCHANGED site
  /\ UNCHANGED <<local, applied>>

-------------------------------------------------------------------------------
Local == \/ read_text_file \/ stored_token \/ require_scope \/ validate_limit \/ days_in_range
         \/ dry_run \/ own_video \/ same_branding \/ classify \/ Emit
Reads == guarded_channel \/ channel_branding \/ video_resource \/ resolve_reply_target
         \/ video_details \/ analytics_report \/ _paged
Plans == \/ plan_channel_description \/ plan_channel_banner \/ plan_channel_watermark
         \/ plan_video_thumbnail \/ plan_video_upload \/ plan_comment_reply \/ plan_video_metadata
Writes == \/ put_description \/ put_banner \/ upload_channel_banner \/ set_channel_watermark
          \/ set_video_thumbnail \/ update_video_snippet \/ insert_comment_reply \/ upload_file

Next == Local \/ Reads \/ Plans \/ Writes \/ Interrupt \/ Edit

Spec == Init /\ [][Next]_vars

-------------------------------------------------------------------------------
(* Properties *)

TypeOK ==
  /\ command \in Commands /\ step \in 1..13 /\ edits \in 0..MaxEdits
  /\ {planned, seen, site} \subseteq Sites /\ image \in Images
  /\ stale \subseteq {"account", "branding", "video", "comment", "image"}

Fresh(part) == part \notin stale
Changes == applied' # applied

\* A write goes out only with --apply, the capability, the pinned account and a
\* target that the channel owns, and an uploaded image is one that was checked,
\* except for what others changed after the last look at it.
GuardedWrites ==
  [][Changes =>
       /\ command.apply /\ command.granted
       /\ Fresh("account") => site.account = "pinned"
       /\ Fresh("video") /\ At("set_thumbnail") => site.video.owner = "pinned"
       /\ Fresh("video") /\ At("update_snippet") => site.video.owner = "pinned"
       /\ Fresh("video") /\ Fresh("comment") /\ At("insert_reply") => CommentOwner = "pinned"
       /\ Fresh("image") /\ At("upload_banner") => FitsBanner
       /\ Fresh("image") /\ At("set_watermark") => FitsWatermark
       /\ Fresh("image") /\ At("set_thumbnail") => FitsThumbnail]_vars

\* channels.update and videos.update replace everything they are given: of the
\* branding only the field the command is about changes, and of the video the
\* tags stay, whatever others edited up to the second reading.
Touched(before, after) == {f \in DOMAIN before : after[f] # before[f]}
NothingLost ==
  [][Changes =>
       /\ Fresh("branding") => Touched(site.branding, site.branding')
                                \subseteq {IF At("put_description") THEN "description" ELSE "banner"}
       /\ Fresh("video") => Touched(site.video, site.video') \subseteq {"title"}]_vars

\* The description or banner that is replaced is the one the plan showed, unless
\* it was edited after the second reading.
ShownIsReplaced ==
  [][Changes /\ Fresh("branding") =>
       /\ At("put_description") => site.branding.description = planned.branding.description
       /\ At("put_banner") => site.branding.banner = planned.branding.banner]_vars

\* A command that reports a plan, a refusal or "nothing was changed" changed
\* nothing, also when it fails after the first of two writes, and one that
\* reports success did all its writes.  ("interrupted; no change was applied" is
\* not among them: main prints it also when a write was under way.)
TruthfulReport ==
  /\ outcome \in {"refused", "planned", "shown"} => applied = {}
  /\ outcome = "failed" => applied \ {command.steps[step]} = {}
  /\ outcome = "applied" =>
       applied = {command.steps[i] : i \in DOMAIN command.steps}
                   \cap {"put_description", "upload_banner", "put_banner", "set_watermark",
                         "set_thumbnail", "update_snippet", "insert_reply", "upload"}

\* A listing never exceeds the limit, and a single short page of the API does
\* not make it miss items it has room for.
ListedEnough ==
  /\ page.got <= command.limit
  /\ outcome = "shown" /\ page.short <= 1 /\ command.items > 0 =>
       page.got = Least(command.limit, command.items)

\* `comments list --unanswered` never hides a thread that waits for an answer,
\* however few of its replies the API returned, and without the uncertain ones
\* shows no thread that the channel has answered.
NoCommentForgotten ==
  command.steps = command_comments_list /\ outcome = "shown" =>
    /\ OwesAnswer(command.thread) => select_unanswered(command.thread, TRUE)
    /\ select_unanswered(command.thread, FALSE) => OwesAnswer(command.thread)

================================================================================
