----------------------------- MODULE AuthLifecycle -----------------------------
(***************************************************************************)
(* The stored authorisation of host/youtube/nexttang_youtube: AuthSession  *)
(* and the login of oauth.py, the atomic file of storage.py and the auth   *)
(* commands of cli.py.  Several commands run at once, each in a process    *)
(* that reads the token file once and keeps what it read; a process may be *)
(* killed and the machine may lose power at any step.                      *)
(*                                                                         *)
(* Google is external: it makes a grant at each consent, may replace its   *)
(* refresh token and narrow its scopes at a refresh, and may answer or not.*)
(* The access token is abstracted: before any call it may be fresh or not. *)
(***************************************************************************)
EXTENDS Naturals, Sequences, TLC

CONSTANTS
  Procs,         \* the processes that run commands
  Capability,    \* the capabilities an operator may ask for
  MaxGrants, MaxRotations, MaxCommands  \* bounds of a behaviour

\* CAPABILITIES: the scope that each capability needs; several share one.
ScopeOf == [c \in {"comments-read", "channel-write", "upload", "comment-reply", "banner-write",
                   "watermark-write", "thumbnail-write", "video-metadata-write"} |->
              IF c = "upload" THEN "youtube.upload"
              ELSE IF c = "channel-write" THEN "youtube" ELSE "youtube.force-ssl"]

ASSUME AuthAssumption ==
  /\ Capability \subseteq DOMAIN ScopeOf
  /\ {MaxGrants, MaxRotations, MaxCommands} \subseteq Nat

VARIABLES
  pc, job,        \* per process: where it is, the command it runs
  mem, temp,      \* its cached TokenState, its temporary file
  file, synced,   \* token.json: as seen now, and as a power loss may leave it
  grants,         \* Google: what was consented, and what became of it
  commands,       \* started, bounded by MaxCommands
  latest, disturbed, acted  \* history: see the properties

process == <<pc, job, mem, temp>>
history == <<latest, disturbed, acted>>
vars == <<process, file, synced, grants, commands, history>>

-------------------------------------------------------------------------------
(* Data *)

Token == [grant : 0..MaxGrants, rotation : 0..MaxRotations,
          capabilities : SUBSET Capability, scopes : SUBSET {ScopeOf[c] : c \in Capability}]
NoToken == [grant |-> 0, rotation |-> 0, capabilities |-> {}, scopes |-> {}]

\* A file whose bytes have not reached the disk may be torn by a power loss.
Document == [token : Token, flushed : BOOLEAN]
NoFile == [token |-> NoToken, flushed |-> TRUE]
Torn == [token |-> NoToken, flushed |-> FALSE]

scopes_for(capabilities) == {ScopeOf[c] : c \in capabilities}

Jobs == [cmd : {"login"}, wanted : SUBSET Capability]
          \cup [cmd : {"use"}, wanted : {{}} \cup {{c} : c \in Capability}]
          \cup [cmd : {"revoke", "status"}, wanted : {{}}]
Idle == [cmd |-> "status", wanted |-> {}]

Init ==
  /\ pc = [p \in Procs |-> "idle"] /\ job = [p \in Procs |-> Idle]
  /\ mem = [p \in Procs |-> NoToken] /\ temp = [p \in Procs |-> NoFile]
  /\ file = NoFile /\ synced = NoFile /\ grants = <<>> /\ commands = 0
  /\ latest = 0 /\ disturbed = FALSE /\ acted = {}

Busy(p) == pc[p] # "idle"
Go(p, l) == pc' = [pc EXCEPT ![p] = l] /\ UNCHANGED job

\* The process ends; what it had in memory is gone.
End(p) ==
  /\ pc' = [pc EXCEPT ![p] = "idle"] /\ job' = [job EXCEPT ![p] = Idle]
  /\ mem' = [mem EXCEPT ![p] = NoToken] /\ temp' = [temp EXCEPT ![p] = NoFile]

Start(p) ==
  /\ ~Busy(p) /\ commands < MaxCommands /\ commands' = commands + 1
  /\ \E j \in Jobs : job' = [job EXCEPT ![p] = j] /\ pc' = [pc EXCEPT ![p] = j.cmd]
  /\ disturbed' = (disturbed \/ \E q \in Procs : Busy(q))
  /\ UNCHANGED <<mem, temp, file, synced, grants, latest, acted>>

-------------------------------------------------------------------------------
(* Google: external *)

Accepts(t) == grants[t.grant].live /\ grants[t.grant].rotation = t.rotation

Revoked(t) == grants' = [grants EXCEPT ![t.grant].live = FALSE]

\* A refresh may replace the refresh token, and may grant fewer scopes.
Refreshed(t, s) ==
  \E n \in 0..1 :
    /\ t.rotation + n <= MaxRotations
    /\ grants' = [grants EXCEPT ![t.grant].rotation = @ + n]
    /\ s = [t EXCEPT !.rotation = @ + n, !.scopes = s.scopes]
    /\ s.scopes \subseteq t.scopes

\* The operator consents with one of two accounts, to all scopes or to some.
Consents(j, t) ==
  /\ Len(grants) < MaxGrants
  /\ t.grant = Len(grants) + 1 /\ t.rotation = 0
  /\ t.capabilities = j.wanted /\ t.scopes \subseteq scopes_for(j.wanted)
  /\ \E ours \in BOOLEAN :
       grants' = Append(grants, [live |-> TRUE, rotation |-> 0, ours |-> ours,
                                 wanted |-> j.wanted, scopes |-> t.scopes])

GoogleRevokes ==
  /\ \E g \in DOMAIN grants : grants[g].live /\ grants' = [grants EXCEPT ![g].live = FALSE]
  /\ disturbed' = TRUE
  /\ UNCHANGED <<process, file, synced, commands, latest, acted>>

-------------------------------------------------------------------------------
(* AuthSession *)

\* stored_state: the file is read once per process.
stored_state(p) == IF mem[p] # NoToken THEN mem[p] ELSE file.token

\* Mutant: the scope alone decides.
PermittedByScope(t, capability) == ScopeOf[capability] \in t.scopes

\* require_scope: the scope and the capability, an old file without any grants none.
Permitted(t, capability) ==
  ScopeOf[capability] \in t.scopes /\ capability \in t.capabilities

\* A channel command: require_scope, then the first use of the token.
Check(p) ==
  /\ pc[p] = "use"
  /\ LET t == stored_state(p) IN
     \/ /\ t # NoToken /\ \A c \in job[p].wanted : Permitted(t, c)
        /\ mem' = [mem EXCEPT ![p] = t]
        /\ Go(p, "token") /\ UNCHANGED temp
     \/ /\ t = NoToken \/ \E c \in job[p].wanted : ~Permitted(t, c)
        /\ End(p)
  /\ UNCHANGED <<file, synced, grants, commands, history>>

\* access_token: a token that is still fresh is used as it is.
FreshToken(p) ==
  /\ pc[p] = "token" /\ Go(p, "call")
  /\ UNCHANGED <<mem, temp, file, synced, grants, commands, history>>

\* Mutant: the refresh token that came with the answer is not kept.
refreshForgets(p) ==
  /\ pc[p] = "token"
  /\ \/ /\ Accepts(mem[p])
        /\ \E t \in Token : Refreshed(mem[p], t) /\ mem' = [mem EXCEPT ![p].scopes = t.scopes]
        /\ Go(p, "store") /\ UNCHANGED <<temp, disturbed>>
     \/ End(p) /\ UNCHANGED <<grants, disturbed>>
     \/ /\ Accepts(mem[p]) /\ \E t \in Token : Refreshed(mem[p], t)
        /\ End(p) /\ disturbed' = TRUE
  /\ UNCHANGED <<file, synced, commands, latest, acted>>

\* refresh: answered, refused or unusable, or handled with the answer lost.
refresh(p) ==
  /\ pc[p] = "token"
  /\ \/ /\ Accepts(mem[p])
        /\ \E t \in Token : Refreshed(mem[p], t) /\ mem' = [mem EXCEPT ![p] = t]
        /\ Go(p, "store") /\ UNCHANGED <<temp, disturbed>>
     \/ End(p) /\ UNCHANGED <<grants, disturbed>>
     \/ /\ Accepts(mem[p]) /\ \E t \in Token : Refreshed(mem[p], t)
        /\ End(p) /\ disturbed' = TRUE
  /\ UNCHANGED <<file, synced, commands, latest, acted>>

\* One request of the command, and the next one or the end.
Call(p) ==
  /\ pc[p] = "call"
  /\ acted' = acted \cup {<<mem[p].grant, c>> : c \in job[p].wanted}
  /\ \/ Go(p, "token") /\ UNCHANGED <<mem, temp>>
     \/ End(p)
  /\ UNCHANGED <<file, synced, grants, commands, latest, disturbed>>

\* auth revoke: what is revoked is the token in memory or on disk.
revoke(p) ==
  /\ pc[p] = "revoke"
  /\ LET t == stored_state(p) IN
     \/ t = NoToken /\ End(p) /\ UNCHANGED <<grants, disturbed>>
     \/ /\ t # NoToken /\ mem' = [mem EXCEPT ![p] = t]
        /\ Revoked(t) \/ UNCHANGED grants
        /\ Go(p, "remove") /\ UNCHANGED <<temp, disturbed>>
     \/ /\ t # NoToken  \* the transport raises
        /\ Revoked(t) \/ UNCHANGED grants
        /\ End(p) /\ disturbed' = TRUE
  /\ UNCHANGED <<file, synced, commands, latest, acted>>

\* storage.remove; the directory is not flushed.
remove(p) ==
  /\ pc[p] = "remove" /\ file' = NoFile /\ latest' = 0 /\ End(p)
  /\ UNCHANGED <<synced, grants, commands, disturbed, acted>>

command_auth_status(p) ==
  /\ pc[p] = "status" /\ End(p)
  /\ UNCHANGED <<file, synced, grants, commands, history>>

-------------------------------------------------------------------------------
(* auth login *)

\* The redirect carries a code with this request's state; anything else that
\* reaches the listener, or nothing at all, ends the login.
await_authorisation_code(p) ==
  /\ pc[p] = "login"
  /\ \/ Go(p, "exchange") /\ UNCHANGED <<mem, temp>>
     \/ End(p)
  /\ UNCHANGED <<file, synced, grants, commands, history>>

\* exchange_code: answered; refused; or the grant exists and no token arrives.
exchange_code(p) ==
  /\ pc[p] = "exchange"
  /\ \/ /\ \E t \in Token : Consents(job[p], t) /\ mem' = [mem EXCEPT ![p] = t]
        /\ Go(p, "probe") /\ UNCHANGED temp
     \/ End(p) /\ UNCHANGED grants
     \/ (\E t \in Token : Consents(job[p], t)) /\ End(p)
  /\ UNCHANGED <<file, synced, commands, history>>

\* Mutant: the channel is read and not compared.
ProbeAccepts(p) ==
  /\ pc[p] = "probe"
  /\ Go(p, "store") \/ Go(p, "withdraw")
  /\ UNCHANGED <<mem, temp, file, synced, grants, commands, history>>

\* The probe reads the channel of the new grant; a CliError withdraws it.
Probe(p) ==
  /\ pc[p] = "probe"
  /\ \/ grants[mem[p].grant].ours /\ Go(p, "store")
     \/ Go(p, "withdraw")
  /\ UNCHANGED <<mem, temp, file, synced, grants, commands, history>>

\* post_revocation: what it answers is not looked at.
Withdraw(p) ==
  /\ pc[p] = "withdraw" /\ End(p)
  /\ Revoked(mem[p]) \/ UNCHANGED grants
  /\ UNCHANGED <<file, synced, commands, history>>

-------------------------------------------------------------------------------
(* persist: write_secret_json *)

Write(p) ==
  /\ pc[p] = "store" /\ Go(p, "flush")
  /\ temp' = [temp EXCEPT ![p] = [token |-> mem[p], flushed |-> FALSE]]
  /\ UNCHANGED <<mem, file, synced, grants, commands, history>>

\* Mutant: flush without fsync.
FlushBuffers(p) ==
  /\ pc[p] = "flush" /\ Go(p, "replace")
  /\ UNCHANGED <<mem, temp, file, synced, grants, commands, history>>

Flush(p) ==
  /\ pc[p] = "flush" /\ Go(p, "replace")
  /\ temp' = [temp EXCEPT ![p].flushed = TRUE]
  /\ UNCHANGED <<mem, file, synced, grants, commands, history>>

Replace(p) ==
  /\ pc[p] = "replace" /\ Go(p, "sync")
  /\ file' = temp[p] /\ temp' = [temp EXCEPT ![p] = NoFile]
  /\ latest' = IF job[p].cmd = "login" THEN mem[p].grant ELSE latest
  /\ UNCHANGED <<mem, synced, grants, commands, disturbed, acted>>

\* _sync_directory: its failure is ignored.
SyncDirectory(p) ==
  /\ pc[p] = "sync" /\ synced' \in {file, synced}
  /\ \/ job[p].cmd = "use" /\ Go(p, "call") /\ UNCHANGED <<mem, temp>>
     \/ job[p].cmd = "login" /\ End(p)
  /\ UNCHANGED <<file, grants, commands, history>>

\* What Google gave or took and the file does not say yet.
Unsaved(p) == pc[p] \in {"store", "flush", "replace", "remove"} /\ job[p].cmd # "login"

\* An exception of the write: the temporary file is unlinked.
WriteFails(p) ==
  /\ pc[p] \in {"store", "flush", "replace"} /\ End(p)
  /\ disturbed' = (disturbed \/ Unsaved(p))
  /\ UNCHANGED <<file, synced, grants, commands, latest, acted>>

-------------------------------------------------------------------------------
(* The end of a process from outside *)

Kill(p) ==
  /\ Busy(p) /\ End(p) /\ disturbed' = (disturbed \/ Unsaved(p))
  /\ UNCHANGED <<file, synced, grants, commands, latest, acted>>

AfterPowerLoss(d) == IF d.flushed THEN d ELSE Torn

PowerLoss ==
  /\ pc' = [p \in Procs |-> "idle"] /\ job' = [p \in Procs |-> Idle]
  /\ mem' = [p \in Procs |-> NoToken] /\ temp' = [p \in Procs |-> NoFile]
  /\ file' \in {AfterPowerLoss(file), AfterPowerLoss(synced)} /\ synced' = file'
  /\ disturbed' = TRUE
  /\ UNCHANGED <<grants, commands, latest, acted>>

Step(p) ==
  \/ Start(p) \/ Check(p) \/ FreshToken(p) \/ refresh(p) \/ Call(p)
  \/ revoke(p) \/ remove(p) \/ command_auth_status(p)
  \/ await_authorisation_code(p) \/ exchange_code(p) \/ Probe(p) \/ Withdraw(p)
  \/ Write(p) \/ Flush(p) \/ Replace(p) \/ SyncDirectory(p) \/ WriteFails(p)
  \/ Kill(p)

Next == GoogleRevokes \/ PowerLoss \/ \E p \in Procs : Step(p)

Spec == Init /\ [][Next]_vars

-------------------------------------------------------------------------------
(* Properties *)

\* Whatever is interrupted, by a kill, a failed write or a power loss, and
\* however two processes overlap, token.json can be read (write_secret_json).
StoredIsWhole == file # Torn

\* What is on disk was consented for the pinned channel, names exactly the
\* capabilities asked for at that login, through every refresh since, and no
\* scope that Google did not grant (command_auth_login verifies before storing).
StoredIsVerified ==
  file.token # NoToken =>
    LET g == grants[file.token.grant] IN
      g.ours /\ file.token.capabilities = g.wanted /\ file.token.scopes \subseteq g.scopes

\* A request under a capability uses a grant whose login asked for it, although
\* another capability with the same scope would satisfy Google (require_scope).
InterlockHolds ==
  \A a \in acted : a[2] \in grants[a[1]].wanted /\ ScopeOf[a[2]] \in grants[a[1]].scopes

\* Commands that ran one after the other, with no answer lost and none killed
\* between Google and the disk, leave the token of the last login, with the
\* refresh token that Google accepts now; after a revocation they leave none.
\* (A process that overlaps with a login or a revocation may write its old
\* token over the new one, or bring back the removed file.)
UndisturbedIsCurrent ==
  ~disturbed /\ (\A p \in Procs : ~Busy(p)) =>
    /\ file.token.grant = latest
    /\ latest # 0 => Accepts(file.token)

\* What the documentation and AuthSession.revoke promise: a revocation that ends
\* on its own has removed the file, whatever became of the call to Google.
RemovedWhateverTheOutcome ==
  [][\A p \in Procs :
       (revoke(p) \/ remove(p)) /\ pc'[p] = "idle" => file' = NoFile]_vars

TypeOK ==
  /\ pc \in [Procs -> {"idle", "login", "exchange", "probe", "withdraw", "use", "token", "call",
                       "revoke", "remove", "status", "store", "flush", "replace", "sync"}]
  /\ job \in [Procs -> Jobs] /\ mem \in [Procs -> Token]
  /\ temp \in [Procs -> Document] /\ file \in Document /\ synced \in Document
  /\ commands \in 0..MaxCommands /\ latest \in 0..MaxGrants /\ disturbed \in BOOLEAN

\* Processes are interchangeable.
Symmetry == Permutations(Procs)

================================================================================
