---------------------------- MODULE HostToolsProofs ----------------------------
(***************************************************************************)
(* Proofs about the tools that run on the host.                            *)
(*                                                                         *)
(* The stored authorisation, for any number of processes, capabilities,    *)
(* consents and commands: the token on disk is whole and verified, no      *)
(* request goes beyond what its login asked for, and commands that nothing *)
(* disturbed leave the token that Google accepts.                          *)
(*                                                                         *)
(* The Spec256 tools, for any packs, keys, events and room of the serial   *)
(* driver: the keyboard bridge holds on the machine what is held on the    *)
(* host, nothing stays latched after it, and no pack is refused without a  *)
(* reason.                                                                 *)
(***************************************************************************)
EXTENDS AuthLifecycle, Spec256Host, FiniteSetTheorems, SequenceTheorems, TLAPS

(***************************************************************************)
(* The stored authorisation.                                               *)
(***************************************************************************)
Scope == {ScopeOf[c] : c \in Capability}
Grant == [live : BOOLEAN, rotation : 0..MaxRotations, ours : BOOLEAN,
          wanted : SUBSET Capability, scopes : SUBSET Scope]

Types == TypeOK /\ grants \in Seq(Grant)

\* Which command is at which place, and what a process has in its hands there.
Empty == {"idle", "login", "exchange", "use", "revoke", "status"}
Saving == {"store", "flush", "replace"}

Place(p) ==
  /\ pc[p] \in {"login", "exchange", "probe", "withdraw"} => job[p].cmd = "login"
  /\ pc[p] \in {"use", "token", "call"} => job[p].cmd = "use"
  /\ pc[p] \in Saving \cup {"sync"} => job[p].cmd \in {"login", "use"}
  /\ pc[p] \in {"revoke", "remove"} => job[p].cmd = "revoke"
  /\ pc[p] \in {"idle", "status"} => job[p].cmd = "status"
  /\ pc[p] \in Empty => mem[p] = NoToken
  /\ pc[p] \notin Empty => mem[p] # NoToken
  /\ pc[p] = "flush" => temp[p].token = mem[p]
  /\ pc[p] = "replace" => temp[p] = [token |-> mem[p], flushed |-> TRUE]

\* A token comes from a consent and names what it was given for; it is verified
\* when the consent was given by the pinned account.
Known(t) ==
  /\ t.grant \in DOMAIN grants
  /\ t.capabilities = grants[t.grant].wanted
  /\ t.scopes \subseteq grants[t.grant].scopes

Verified(t) == t # NoToken => Known(t) /\ grants[t.grant].ours

Held(p) ==
  /\ mem[p] # NoToken => Known(mem[p])
  /\ pc[p] \in Saving \cup {"token", "call", "sync"} => grants[mem[p].grant].ours

\* What a grant allows to ask for, whatever a refresh has left of the scopes.
Allows(g, c) == c \in grants[g].wanted /\ ScopeOf[c] \in grants[g].scopes

Checked(p) ==
  job[p].cmd = "use" /\ pc[p] # "use" => \A c \in job[p].wanted : Allows(mem[p].grant, c)

Tokens ==
  /\ file.flushed /\ synced.flushed
  /\ Verified(file.token) /\ Verified(synced.token)
  /\ \A p \in Procs : Held(p) /\ Checked(p)
  /\ \A a \in acted : a[1] \in DOMAIN grants /\ Allows(a[1], a[2])

\* Nothing has disturbed the commands: at most one runs, and the file is the
\* token of the last login, except where that command has a newer one in hand.
Renewing(p) == job[p].cmd = "use" /\ pc[p] \in Saving
Current ==
  /\ \A p, q \in Procs : Busy(p) /\ Busy(q) => p = q
  /\ file.token.grant = latest
  /\ latest # 0 /\ (\A p \in Procs : ~Renewing(p) /\ pc[p] # "remove") => Accepts(file.token)
  /\ \A p \in Procs :
       /\ pc[p] \in {"token", "call", "sync"} => mem[p] = file.token
       /\ Renewing(p) => mem[p].grant = latest /\ Accepts(mem[p])
       /\ job[p].cmd = "login" /\ pc[p] \in Saving \cup {"probe"} => Accepts(mem[p])
       /\ job[p].cmd = "login" /\ pc[p] \in Saving \cup {"probe", "withdraw"} => mem[p].grant # latest

AuthInv ==
  /\ Types
  /\ \A p \in Procs : Place(p)
  /\ Tokens
  /\ ~disturbed => Current


USE AuthAssumption

(***************************************************************************)
(* What Google does to its grants: what was consented never changes.       *)
(***************************************************************************)
Keeps ==
  /\ grants' \in Seq(Grant)
  /\ \A g \in DOMAIN grants :
       /\ g \in DOMAIN grants'
       /\ grants'[g].ours = grants[g].ours
       /\ grants'[g].wanted = grants[g].wanted
       /\ grants'[g].scopes = grants[g].scopes

LEMMA GrantReplaced ==
  ASSUME Types, NEW g \in DOMAIN grants, NEW r \in Grant, grants' = [grants EXCEPT ![g] = r],
         r.ours = grants[g].ours, r.wanted = grants[g].wanted, r.scopes = grants[g].scopes
  PROVE  Keeps /\ grants'[g] = r /\ \A h \in DOMAIN grants : h # g => grants'[h] = grants[h]
<1>1. grants \in Seq(Grant) /\ DOMAIN grants = 1..Len(grants)
  BY DEF Types
<1>2. grants' \in Seq(Grant) /\ DOMAIN grants' = DOMAIN grants
  BY <1>1, ExceptSeq
<1>3. \A h \in DOMAIN grants : grants'[h] = IF h = g THEN r ELSE grants[h]
  BY <1>1
<1> QED BY <1>2, <1>3 DEF Keeps

LEMMA RevokedKeeps ==
  ASSUME Types, NEW t, Known(t), Revoked(t)
  PROVE  Keeps /\ \A g \in DOMAIN grants : g # t.grant => grants'[g] = grants[g]
<1> DEFINE r == [grants[t.grant] EXCEPT !.live = FALSE]
<1>1. t.grant \in DOMAIN grants /\ grants[t.grant] \in Grant
  BY DEF Known, Types
<1>2. r \in Grant /\ r.ours = grants[t.grant].ours /\ r.wanted = grants[t.grant].wanted
        /\ r.scopes = grants[t.grant].scopes
  BY <1>1 DEF Grant
<1>3. grants' = [grants EXCEPT ![t.grant] = r]
  BY DEF Revoked
<1> QED BY <1>1, <1>2, <1>3, GrantReplaced

LEMMA RefreshedKeeps ==
  ASSUME Types, NEW t \in Token, NEW s \in Token, Known(t), Accepts(t), Refreshed(t, s)
  PROVE  /\ Keeps /\ s.grant = t.grant
         /\ s.capabilities = t.capabilities /\ s.scopes \subseteq t.scopes
         /\ grants'[s.grant].live /\ grants'[s.grant].rotation = s.rotation
<1>1. PICK n \in 0..1 :
        /\ t.rotation + n <= MaxRotations
        /\ grants' = [grants EXCEPT ![t.grant].rotation = @ + n]
        /\ s = [t EXCEPT !.rotation = @ + n, !.scopes = s.scopes]
        /\ s.scopes \subseteq t.scopes
  BY DEF Refreshed
<1> DEFINE r == [grants[t.grant] EXCEPT !.rotation = @ + n]
<1>2. s.grant = t.grant /\ s.capabilities = t.capabilities /\ s.rotation = t.rotation + n
  BY <1>1 DEF Token
<1>3. t.grant \in DOMAIN grants /\ grants[t.grant] \in Grant
  BY DEF Known, Types
<1>4. grants[t.grant].rotation = t.rotation /\ grants[t.grant].live
  BY DEF Accepts
<1>5. r \in Grant /\ r.ours = grants[t.grant].ours /\ r.wanted = grants[t.grant].wanted
        /\ r.scopes = grants[t.grant].scopes /\ r.live /\ r.rotation = s.rotation
  BY <1>1, <1>2, <1>3, <1>4 DEF Token, Grant
<1>6. grants' = [grants EXCEPT ![t.grant] = r]
  BY <1>1
<1>7. Keeps /\ grants'[t.grant] = r
  BY <1>3, <1>5, <1>6, GrantReplaced
<1> QED BY <1>1, <1>2, <1>5, <1>7

LEMMA ConsentsKeeps ==
  ASSUME Types, NEW j \in Jobs, NEW t \in Token, Consents(j, t)
  PROVE  /\ Keeps /\ Known(t)' /\ t.grant \notin DOMAIN grants /\ t.grant # 0
         /\ grants'[t.grant].live /\ grants'[t.grant].rotation = t.rotation
         /\ \A g \in DOMAIN grants : grants'[g] = grants[g]
<1>1. PICK ours \in BOOLEAN :
        grants' = Append(grants, [live |-> TRUE, rotation |-> 0, ours |-> ours,
                                  wanted |-> j.wanted, scopes |-> t.scopes])
  BY DEF Consents
<1>2. [live |-> TRUE, rotation |-> 0, ours |-> ours, wanted |-> j.wanted, scopes |-> t.scopes] \in Grant
  BY DEF Grant, Jobs, Token, Scope
<1> DEFINE g == [live |-> TRUE, rotation |-> 0, ours |-> ours, wanted |-> j.wanted, scopes |-> t.scopes]
<1>3. /\ grants' \in Seq(Grant) /\ DOMAIN grants = 1..Len(grants)
      /\ DOMAIN grants' = 1..(Len(grants) + 1) /\ Len(grants) \in Nat
      /\ grants'[Len(grants) + 1] = g
      /\ \A h \in DOMAIN grants : grants'[h] = grants[h]
  BY <1>1, <1>2, AppendProperties DEF Types
<1>4. t.grant = Len(grants) + 1 /\ t.rotation = 0 /\ t.capabilities = j.wanted
  BY DEF Consents
<1> QED BY <1>3, <1>4 DEF Keeps, Known

(***************************************************************************)
(* Types.                                                                  *)
(***************************************************************************)
LEMMA Constants ==
  /\ MaxGrants \in Nat /\ MaxRotations \in Nat /\ MaxCommands \in Nat
  /\ NoToken \in Token /\ Idle \in Jobs /\ NoFile \in Document
  /\ \A j \in Jobs : j.cmd \in {"login", "use", "revoke", "status"} /\ j.wanted \subseteq Capability
BY DEF NoToken, Token, Idle, Jobs, NoFile, Document, AuthAssumption

LEMMA InitTypes == Init => Types
<1> SUFFICES ASSUME Init PROVE Types
  OBVIOUS
<1>1. grants \in Seq(Grant)
  BY DEF Init
<1>2. pc = [p \in Procs |-> "idle"] /\ job \in [Procs -> Jobs] /\ mem \in [Procs -> Token]
        /\ temp \in [Procs -> Document]
  BY Constants DEF Init
<1>3. /\ file \in Document /\ synced \in Document
      /\ commands \in 0..MaxCommands /\ latest \in 0..MaxGrants
  BY Constants DEF Init
<1>4. disturbed \in BOOLEAN
  BY DEF Init
<1>5. TypeOK
  BY <1>2, <1>3, <1>4 DEF TypeOK
<1> QED BY <1>1, <1>5 DEF Types

\* What a process does to its own part of the state.
Own(p) ==
  /\ pc' \in [Procs -> {"idle", "login", "exchange", "probe", "withdraw", "use", "token", "call",
                       "revoke", "remove", "status", "store", "flush", "replace", "sync"}]
  /\ job' \in [Procs -> Jobs] /\ mem' \in [Procs -> Token] /\ temp' \in [Procs -> Document]
  /\ \A q \in Procs \ {p} : /\ pc'[q] = pc[q] /\ job'[q] = job[q]
                            /\ mem'[q] = mem[q] /\ temp'[q] = temp[q]

Ended(p) == pc'[p] = "idle" /\ job'[p] = Idle /\ mem'[p] = NoToken /\ temp'[p] = NoFile

LEMMA EndOwn ==
  ASSUME Types, NEW p \in Procs, End(p)
  PROVE  Own(p) /\ Ended(p)
BY Constants DEF Types, TypeOK, End, Own, Ended

LEMMA StepOwn ==
  ASSUME Types, NEW p \in Procs, Step(p)
  PROVE  Own(p)
<1> USE DEF Types, TypeOK, Own
<1>1. CASE Start(p)
  BY <1>1, Constants DEF Start
<1>2. CASE Check(p)
  <2>1. CASE End(p)
    BY <2>1, EndOwn
  <2>2. CASE mem' = [mem EXCEPT ![p] = stored_state(p)] /\ Go(p, "token") /\ UNCHANGED temp
    <3>1. stored_state(p) \in Token
      BY DEF stored_state, Document
    <3> QED BY <2>2, <3>1 DEF Go
  <2> QED BY <1>2, <2>1, <2>2 DEF Check
<1>3. CASE FreshToken(p) \/ await_authorisation_code(p) \/ Probe(p) \/ SyncDirectory(p)
  BY <1>3, EndOwn DEF FreshToken, await_authorisation_code, Probe, SyncDirectory, Go
<1>4. CASE refresh(p)
  BY <1>4, EndOwn DEF refresh, Go
<1>5. CASE Call(p)
  BY <1>5, EndOwn DEF Call, Go
<1>6. CASE revoke(p)
  <2>1. CASE End(p)
    BY <2>1, EndOwn
  <2>2. CASE mem' = [mem EXCEPT ![p] = stored_state(p)] /\ Go(p, "remove") /\ UNCHANGED temp
    <3>1. stored_state(p) \in Token
      BY DEF stored_state, Document
    <3> QED BY <2>2, <3>1 DEF Go
  <2> QED BY <1>6, <2>1, <2>2 DEF revoke
<1>7. CASE remove(p) \/ command_auth_status(p) \/ Withdraw(p) \/ WriteFails(p) \/ Kill(p)
  BY <1>7, EndOwn DEF remove, command_auth_status, Withdraw, WriteFails, Kill
<1>8. CASE exchange_code(p)
  BY <1>8, EndOwn DEF exchange_code, Go
<1>9. CASE Write(p)
  BY <1>9 DEF Write, Go, Document
<1>10. CASE Flush(p)
  BY <1>10 DEF Flush, Go, Document
<1>11. CASE Replace(p)
  BY <1>11, Constants DEF Replace, Go
<1> QED
  BY <1>1, <1>2, <1>3, <1>4, <1>5, <1>6, <1>7, <1>8, <1>9, <1>10, <1>11 DEF Step

LEMMA GrantStep ==
  ASSUME Types, NEW p \in Procs, Step(p), Place(p), Verified(file.token), Held(p)
  PROVE  Keeps
<1>1. CASE UNCHANGED grants
  BY <1>1 DEF Types, Keeps
<1>2. ASSUME refresh(p), ~UNCHANGED grants
      PROVE  Keeps
  <2>1. PICK t \in Token : Accepts(mem[p]) /\ Refreshed(mem[p], t)
    BY <1>2 DEF refresh
  <2>2. mem[p] \in Token /\ Known(mem[p])
    BY <1>2 DEF refresh, Held, Place, Empty, Types, TypeOK
  <2> QED BY <2>1, <2>2, RefreshedKeeps
<1>3. ASSUME revoke(p), ~UNCHANGED grants
      PROVE  Keeps
  <2>1. mem[p] = NoToken
    BY <1>3 DEF revoke, Place, Empty
  <2>2. file.token # NoToken /\ Revoked(file.token)
    BY <1>3, <2>1 DEF revoke, stored_state
  <2> QED BY <2>2, RevokedKeeps DEF Verified
<1>4. ASSUME Withdraw(p), ~UNCHANGED grants
      PROVE  Keeps
  <2>1. Known(mem[p]) /\ Revoked(mem[p])
    BY <1>4 DEF Withdraw, Held, Place, Empty
  <2> QED BY <2>1, RevokedKeeps
<1>5. ASSUME exchange_code(p), ~UNCHANGED grants
      PROVE  Keeps
  <2>1. job[p] \in Jobs /\ \E t \in Token : Consents(job[p], t)
    BY <1>5 DEF exchange_code, Types, TypeOK
  <2> QED BY <2>1, ConsentsKeeps
<1> QED
  BY <1>1, <1>2, <1>3, <1>4, <1>5 DEF Step, Start, Check, FreshToken, Call, remove,
     command_auth_status, await_authorisation_code, Probe, Write, Flush, Replace, SyncDirectory,
     WriteFails, Kill

LEMMA KillKeeps ==
  ASSUME Types, GoogleRevokes
  PROVE  Keeps
<1>1. PICK g \in DOMAIN grants : grants' = [grants EXCEPT ![g].live = FALSE]
  BY DEF GoogleRevokes
<1> DEFINE r == [grants[g] EXCEPT !.live = FALSE]
<1>2. grants[g] \in Grant
  BY DEF Types
<1>3. r \in Grant /\ r.ours = grants[g].ours /\ r.wanted = grants[g].wanted
        /\ r.scopes = grants[g].scopes
  BY <1>2 DEF Grant
<1>4. grants' = [grants EXCEPT ![g] = r]
  BY <1>1
<1> QED BY <1>3, <1>4, GrantReplaced

LEMMA TypesStep ==
  ASSUME Types, NEW p \in Procs, Step(p), Place(p), Verified(file.token), Held(p)
  PROVE  Types'
<1>1. grants' \in Seq(Grant)
  BY GrantStep DEF Keeps
<1>2. /\ pc' \in [Procs -> {"idle", "login", "exchange", "probe", "withdraw", "use", "token", "call",
                       "revoke", "remove", "status", "store", "flush", "replace", "sync"}]
      /\ job' \in [Procs -> Jobs] /\ mem' \in [Procs -> Token] /\ temp' \in [Procs -> Document]
  BY StepOwn DEF Own
<1>3. file' \in {file, NoFile, temp[p]} /\ synced' \in {file, synced}
  BY DEF Step, Start, Check, FreshToken, refresh, Call, revoke, remove, command_auth_status,
     await_authorisation_code, exchange_code, Probe, Withdraw, Write, Flush, Replace, SyncDirectory,
     WriteFails, Kill
<1>4. commands' \in {commands, commands + 1} /\ (commands' # commands => commands < MaxCommands)
  BY DEF Step, Start, Check, FreshToken, refresh, Call, revoke, remove, command_auth_status,
     await_authorisation_code, exchange_code, Probe, Withdraw, Write, Flush, Replace, SyncDirectory,
     WriteFails, Kill
<1>5. latest' \in {latest, 0, mem[p].grant}
  BY DEF Step, Start, Check, FreshToken, refresh, Call, revoke, remove, command_auth_status,
     await_authorisation_code, exchange_code, Probe, Withdraw, Write, Flush, Replace, SyncDirectory,
     WriteFails, Kill, history
<1>6. disturbed' \in BOOLEAN
  <2>1. \/ disturbed' = disturbed \/ disturbed' = TRUE
        \/ disturbed' = (disturbed \/ \E q \in Procs : Busy(q))
        \/ disturbed' = (disturbed \/ Unsaved(p))
    BY Zenon DEF Step, Start, Check, FreshToken, refresh, Call, revoke, remove, command_auth_status,
       await_authorisation_code, exchange_code, Probe, Withdraw, Write, Flush, Replace, SyncDirectory,
       WriteFails, Kill, history
  <2> QED BY <2>1, Zenon DEF Types, TypeOK
<1>7. file' \in Document /\ synced' \in Document
  BY <1>3, Constants DEF Types, TypeOK
<1>8. commands' \in 0..MaxCommands /\ latest' \in 0..MaxGrants
  BY <1>4, <1>5, Constants DEF Types, TypeOK, Token
<1> QED BY <1>1, <1>2, <1>6, <1>7, <1>8 DEF Types, TypeOK

(***************************************************************************)
(* Where a process is, and what it has in its hands there.                 *)
(***************************************************************************)
LEMMA EndedPlace ==
  ASSUME NEW p \in Procs, Ended(p)
  PROVE  Place(p)'
BY DEF Ended, Place, Idle, Empty, Saving

LEMMA PlaceStep ==
  ASSUME Types, NEW p \in Procs, Step(p), \A q \in Procs : Place(q),
         Verified(file.token), Held(p)
  PROVE  \A q \in Procs : Place(q)'
<1>1. ASSUME NEW q \in Procs \ {p} PROVE Place(q)'
  BY <1>1, StepOwn DEF Own, Place, Empty, Saving
<1>2. Place(p) /\ mem[p] \in Token /\ job[p] \in Jobs
  BY DEF Types, TypeOK
<1>3. CASE End(p)
  <2>1. Place(p)'
    BY <1>3, EndOwn, EndedPlace
  <2> QED BY <1>1, <2>1
<1> SUFFICES ASSUME ~End(p)
             PROVE  Place(p)'
  BY <1>1, <1>3
<1> USE DEF Types, TypeOK, Place, Empty, Saving
<1>4. CASE Start(p)
  <2>1. PICK j \in Jobs : job' = [job EXCEPT ![p] = j] /\ pc' = [pc EXCEPT ![p] = j.cmd]
    BY <1>4 DEF Start
  <2>2. pc'[p] = j.cmd /\ job'[p] = j /\ mem'[p] = NoToken
    BY <1>2, <1>4, <2>1 DEF Start, Busy
  <2>3. j.cmd \in {"login", "use", "revoke", "status"}
    BY Constants
  <2> QED BY <2>2, <2>3
<1>5. CASE Check(p)
  BY <1>2, <1>5 DEF Check, Go, stored_state
<1>6. CASE FreshToken(p)
  BY <1>2, <1>6 DEF FreshToken, Go
<1>7. CASE refresh(p)
  <2>1. ASSUME NEW t \in Token, Accepts(mem[p]), Refreshed(mem[p], t),
               mem' = [mem EXCEPT ![p] = t], Go(p, "store")
        PROVE  Place(p)'
    <3>1. t.grant # 0
      BY <1>2, <1>7, <2>1, RefreshedKeeps DEF refresh, Held, Known
    <3>2. mem'[p] # NoToken /\ pc'[p] = "store" /\ job'[p].cmd = "use"
      BY <1>2, <1>7, <2>1, <3>1 DEF refresh, Go, NoToken
    <3> QED BY <3>2
  <2> QED BY <1>7, <2>1 DEF refresh
<1>8. CASE Call(p)
  BY <1>2, <1>8 DEF Call, Go
<1>9. CASE revoke(p)
  BY <1>2, <1>9 DEF revoke, Go
<1>10. CASE remove(p) \/ command_auth_status(p) \/ Withdraw(p) \/ WriteFails(p) \/ Kill(p)
  BY <1>10 DEF remove, command_auth_status, Withdraw, WriteFails, Kill
<1>11. CASE await_authorisation_code(p)
  BY <1>2, <1>11 DEF await_authorisation_code, Go
<1>12. CASE exchange_code(p)
  <2>1. ASSUME NEW t \in Token, Consents(job[p], t), mem' = [mem EXCEPT ![p] = t], Go(p, "probe")
        PROVE  Place(p)'
    <3>1. t # NoToken
      BY <1>2, <2>1, ConsentsKeeps DEF NoToken
    <3> QED BY <1>2, <1>12, <2>1, <3>1 DEF exchange_code, Go
  <2> QED BY <1>12, <2>1 DEF exchange_code
<1>13. CASE Probe(p)
  BY <1>2, <1>13 DEF Probe, Go
<1>14. CASE Write(p)
  BY <1>2, <1>14 DEF Write, Go
<1>15. CASE Flush(p)
  BY <1>2, <1>15 DEF Flush, Go, Document
<1>16. CASE Replace(p)
  BY <1>2, <1>16 DEF Replace, Go
<1>17. CASE SyncDirectory(p)
  BY <1>2, <1>17 DEF SyncDirectory, Go
<1> QED
  BY <1>4, <1>5, <1>6, <1>7, <1>8, <1>9, <1>10, <1>11, <1>12, <1>13, <1>14, <1>15, <1>16, <1>17 DEF Step

(***************************************************************************)
(* The tokens on disk, in memory and in use.                               *)
(***************************************************************************)
LEMMA KnownKept ==
  ASSUME Keeps, NEW t, Known(t)
  PROVE  /\ t.grant \in DOMAIN grants' /\ t.capabilities = grants'[t.grant].wanted
         /\ t.scopes \subseteq grants'[t.grant].scopes
         /\ grants'[t.grant].ours = grants[t.grant].ours
         /\ \A c : Allows(t.grant, c) =>
              c \in grants'[t.grant].wanted /\ ScopeOf[c] \in grants'[t.grant].scopes
BY DEF Keeps, Known, Allows

LEMMA FileStep ==
  ASSUME Types, Keeps, Tokens, NEW p \in Procs, Step(p), Place(p)
  PROVE  (file.flushed /\ synced.flushed /\ Verified(file.token) /\ Verified(synced.token))'
<1>1. \A t : Verified(t) => (t # NoToken => /\ t.grant \in DOMAIN grants'
                                         /\ t.capabilities = grants'[t.grant].wanted
                                         /\ t.scopes \subseteq grants'[t.grant].scopes
                                         /\ grants'[t.grant].ours)
  BY KnownKept DEF Verified
<1>2. file.flushed /\ synced.flushed /\ Verified(file.token) /\ Verified(synced.token) /\ Held(p)
  BY DEF Tokens
<1>3. CASE file' = file /\ synced' \in {file, synced}
  BY <1>1, <1>2, <1>3 DEF Verified, Known
<1>4. CASE remove(p)
  BY <1>1, <1>2, <1>4 DEF remove, NoFile, Verified, Known
<1>5. CASE Replace(p)
  <2>1. file' = [token |-> mem[p], flushed |-> TRUE] /\ synced' = synced
    BY <1>5 DEF Replace, Place
  <2>2. Verified(mem[p])
    BY <1>2, <1>5 DEF Replace, Held, Verified, Saving
  <2> QED BY <1>1, <1>2, <2>1, <2>2 DEF Verified, Known
<1> QED
  BY <1>3, <1>4, <1>5 DEF Step, Start, Check, FreshToken, refresh, Call, revoke, command_auth_status,
     await_authorisation_code, exchange_code, Probe, Withdraw, Write, Flush, SyncDirectory,
     WriteFails, Kill

LEMMA HeldStep ==
  ASSUME Types, Keeps, Tokens, NEW p \in Procs, Step(p), Place(p)
  PROVE  Held(p)' /\ Checked(p)'
<1>1. Held(p) /\ Checked(p) /\ Verified(file.token)
  BY DEF Tokens
<1>2. mem[p] \in Token /\ job[p] \in Jobs /\ mem \in [Procs -> Token] /\ job \in [Procs -> Jobs]
        /\ DOMAIN pc = Procs
  BY DEF Types, TypeOK
<1>3. ASSUME pc'[p] \in Empty \ {"use"}, mem'[p] = NoToken, job'[p].cmd = "use" => job'[p].wanted = {}
      PROVE  Held(p)' /\ Checked(p)'
  BY <1>3 DEF Held, Checked, Empty, Saving
<1>4. CASE End(p)
  BY <1>3, <1>4, EndOwn DEF Ended, Idle, Empty
<1> SUFFICES ASSUME ~End(p)
             PROVE  Held(p)' /\ Checked(p)'
  BY <1>4
<1>5. ASSUME mem'[p] = mem[p], job'[p] = job[p], pc[p] # "use", mem[p] # NoToken,
             pc'[p] \in Saving \cup {"token", "call", "sync"} =>
               pc[p] \in Saving \cup {"token", "call", "sync"} \/ grants[mem[p].grant].ours
      PROVE  Held(p)' /\ Checked(p)'
  <2>1. Known(mem[p])
    BY <1>1, <1>5 DEF Held
  <2>2. Held(p)'
    BY <1>1, <1>5, <2>1, KnownKept DEF Held, Known
  <2>3. Checked(p)'
    BY <1>1, <1>5, <2>1, KnownKept DEF Checked, Allows
  <2> QED BY <2>2, <2>3
<1>6. CASE Start(p)
  <2>1. pc'[p] \in {"login", "use", "revoke", "status"} /\ mem'[p] = NoToken /\ pc'[p] = job'[p].cmd
    BY <1>2, <1>6, Constants DEF Start, Busy, Place, Empty
  <2> QED BY <2>1 DEF Held, Checked, Saving
<1>7. CASE Check(p)
  <2>1. /\ file.token # NoToken /\ mem'[p] = file.token /\ pc'[p] = "token" /\ job'[p] = job[p]
        /\ \A c \in job[p].wanted : Permitted(file.token, c)
    BY <1>2, <1>7 DEF Check, Go, stored_state, Place, Empty
  <2>2. Known(file.token) /\ grants[file.token.grant].ours
    BY <1>1, <2>1 DEF Verified
  <2>3. \A c \in job[p].wanted : Allows(file.token.grant, c)
    BY <2>1, <2>2 DEF Permitted, Allows, Known
  <2>4. Held(p)'
    BY <2>1, <2>2, KnownKept DEF Held, Known
  <2>5. Checked(p)'
    BY <2>1, <2>2, <2>3, KnownKept DEF Checked, Allows
  <2> QED BY <2>4, <2>5
<1>8. CASE refresh(p)
  <2>1. PICK t \in Token : Accepts(mem[p]) /\ Refreshed(mem[p], t) /\ mem' = [mem EXCEPT ![p] = t]
    BY <1>8 DEF refresh
  <2>2. mem'[p] = t /\ job'[p] = job[p] /\ pc[p] = "token"
    BY <1>2, <1>8, <2>1 DEF refresh, Go
  <2>3. Known(mem[p]) /\ grants[mem[p].grant].ours
    BY <1>1, <2>2 DEF Held, Place, Empty
  <2>4. t.grant = mem[p].grant /\ t.capabilities = mem[p].capabilities /\ t.scopes \subseteq mem[p].scopes
    BY <1>2, <2>1, <2>3, RefreshedKeeps
  <2>5. Held(p)'
    BY <2>2, <2>3, <2>4, KnownKept DEF Held, Known
  <2>6. Checked(p)'
    BY <1>1, <2>2, <2>3, <2>4, KnownKept DEF Checked, Allows
  <2> QED BY <2>5, <2>6
<1>9. CASE revoke(p)
  <2>1. /\ file.token # NoToken /\ mem'[p] = file.token /\ pc'[p] = "remove" /\ job'[p].cmd = "revoke"
    BY <1>2, <1>9 DEF revoke, Go, stored_state, Place, Empty
  <2>2. Known(file.token)
    BY <1>1, <2>1 DEF Verified
  <2>3. Held(p)'
    BY <2>1, <2>2, KnownKept DEF Held, Known, Saving
  <2> QED BY <2>1, <2>3 DEF Checked
<1>10. CASE exchange_code(p)
  <2>1. PICK t \in Token : Consents(job[p], t) /\ mem' = [mem EXCEPT ![p] = t]
    BY <1>10 DEF exchange_code
  <2>2. mem'[p] = t /\ job'[p].cmd = "login" /\ pc'[p] = "probe"
    BY <1>2, <1>10, <2>1 DEF exchange_code, Go, Place
  <2>3. Known(t)'
    BY <1>2, <2>1, ConsentsKeeps
  <2>4. Held(p)'
    BY <2>2, <2>3 DEF Held, Known, Saving
  <2> QED BY <2>2, <2>4 DEF Checked
<1>11. CASE await_authorisation_code(p)
  <2>1. pc'[p] = "exchange" /\ mem'[p] = NoToken /\ job'[p].cmd = "login"
    BY <1>2, <1>11 DEF await_authorisation_code, Go, Place, Empty
  <2> QED BY <2>1 DEF Held, Checked, Saving
<1>12. CASE FreshToken(p) \/ Call(p) \/ Probe(p) \/ Write(p) \/ Flush(p) \/ Replace(p) \/ SyncDirectory(p)
  <2>1. mem'[p] = mem[p] /\ job'[p] = job[p] /\ pc[p] \notin Empty
    BY <1>12 DEF FreshToken, Call, Probe, Write, Flush, Replace, SyncDirectory, Go, Empty
  <2>2. pc'[p] \in Saving \cup {"token", "call", "sync"} =>
               pc[p] \in Saving \cup {"token", "call", "sync"} \/ grants[mem[p].grant].ours
    BY <1>2, <1>12 DEF FreshToken, Call, Probe, Write, Flush, Replace, SyncDirectory, Go, Saving
  <2> QED BY <1>5, <2>1, <2>2 DEF Place, Empty
<1> QED
  BY <1>6, <1>7, <1>8, <1>9, <1>10, <1>11, <1>12
     DEF Step, remove, command_auth_status, Withdraw, WriteFails, Kill

LEMMA TokensStep ==
  ASSUME Types, Tokens, NEW p \in Procs, Step(p), \A q \in Procs : Place(q)
  PROVE  Tokens'
<1>1. Keeps /\ Own(p)
  BY GrantStep, StepOwn DEF Tokens
<1>2. (file.flushed /\ synced.flushed /\ Verified(file.token) /\ Verified(synced.token))'
  BY <1>1, FileStep
<1>3. ASSUME NEW q \in Procs PROVE Held(q)' /\ Checked(q)'
  <2>1. CASE q = p
    BY <1>1, <2>1, HeldStep
  <2>2. CASE q # p
    <3>1. Held(q) /\ Checked(q) /\ Place(q)
      BY DEF Tokens
    <3>2. mem'[q] = mem[q] /\ job'[q] = job[q] /\ pc'[q] = pc[q]
      BY <1>1, <2>2 DEF Own
    <3>3. Held(q)'
      BY <1>1, <3>1, <3>2, KnownKept DEF Held, Known, Place, Empty, Saving
    <3>4. Checked(q)'
      <4>1. CASE mem[q] = NoToken
        BY <3>1, <3>2, <4>1 DEF Checked, Place, Empty, Saving
      <4>2. CASE Known(mem[q])
        BY <1>1, <3>1, <3>2, <4>2, KnownKept DEF Checked, Allows
      <4> QED BY <3>1, <4>1, <4>2 DEF Held
    <3> QED BY <3>3, <3>4
  <2> QED BY <2>1, <2>2
<1>4. \A a \in acted' : a[1] \in DOMAIN grants /\ Allows(a[1], a[2])
  <2>1. \A a \in acted : a[1] \in DOMAIN grants /\ Allows(a[1], a[2])
    BY DEF Tokens
  <2>2. CASE acted' = acted
    BY <2>1, <2>2
  <2>3. CASE Call(p)
    <3>1. Held(p) /\ Checked(p) /\ Place(p)
      BY DEF Tokens
    <3>2. Known(mem[p]) /\ \A c \in job[p].wanted : Allows(mem[p].grant, c)
      BY <2>3, <3>1 DEF Call, Held, Checked, Place, Empty
    <3>3. acted' = acted \cup {<<mem[p].grant, c>> : c \in job[p].wanted}
      BY <2>3 DEF Call
    <3> QED BY <2>1, <3>2, <3>3 DEF Known
  <2> QED
    BY <2>2, <2>3 DEF Step, Start, Check, FreshToken, refresh, revoke, remove, command_auth_status,
       await_authorisation_code, exchange_code, Probe, Withdraw, Write, Flush, Replace,
       SyncDirectory, WriteFails, Kill, history
<1>5. \A a \in acted' : a[1] \in DOMAIN grants' /\ Allows(a[1], a[2])'
  BY <1>1, <1>4 DEF Keeps, Allows
<1> QED BY <1>2, <1>3, <1>5 DEF Tokens

(***************************************************************************)
(* Commands that nothing disturbs.                                         *)
(***************************************************************************)
\* Once disturbed, for ever; what the step must have been if it is not.
LEMMA Undisturbed ==
  ASSUME NEW p \in Procs, Step(p), ~disturbed'
  PROVE  /\ ~disturbed
         /\ Start(p) => \A q \in Procs : ~Busy(q)
         /\ WriteFails(p) \/ Kill(p) => ~Unsaved(p)
         /\ refresh(p) => \/ End(p) /\ UNCHANGED grants
                         \/ /\ Accepts(mem[p]) /\ Go(p, "store")
                            /\ \E t \in Token : Refreshed(mem[p], t) /\ mem' = [mem EXCEPT ![p] = t]
         /\ revoke(p) => \/ End(p) /\ UNCHANGED grants
                        \/ Go(p, "remove")
<1>1. ~disturbed
  BY Zenon DEF Step, Start, Check, FreshToken, refresh, Call, revoke, remove, command_auth_status,
     await_authorisation_code, exchange_code, Probe, Withdraw, Write, Flush, Replace, SyncDirectory,
     WriteFails, Kill, history
<1>2. Start(p) => \A q \in Procs : ~Busy(q)
  BY Zenon DEF Start
<1>3. WriteFails(p) \/ Kill(p) => ~Unsaved(p)
  BY Zenon DEF WriteFails, Kill
<1>4. refresh(p) => \/ End(p) /\ UNCHANGED grants
                   \/ /\ Accepts(mem[p]) /\ Go(p, "store")
                      /\ \E t \in Token : Refreshed(mem[p], t) /\ mem' = [mem EXCEPT ![p] = t]
  BY Zenon DEF refresh
<1>5. revoke(p) => \/ End(p) /\ UNCHANGED grants
                  \/ Go(p, "remove")
  BY Zenon DEF revoke
<1> QED BY <1>1, <1>2, <1>3, <1>4, <1>5

\* What Current says of the file and of the one process that may run.
CurrentFile(p) ==
  /\ file.token.grant = latest
  /\ latest # 0 /\ ~Renewing(p) /\ pc[p] # "remove" => Accepts(file.token)

CurrentHands(p) ==
  /\ pc[p] \in {"token", "call", "sync"} => mem[p] = file.token
  /\ Renewing(p) => mem[p].grant = latest /\ Accepts(mem[p])
  /\ job[p].cmd = "login" /\ pc[p] \in Saving \cup {"probe"} => Accepts(mem[p])
  /\ job[p].cmd = "login" /\ pc[p] \in Saving \cup {"probe", "withdraw"} => mem[p].grant # latest

LEMMA CurrentStep ==
  ASSUME Types, Tokens, NEW p \in Procs, Step(p), \A q \in Procs : Place(q),
         ~disturbed => Current, ~disturbed'
  PROVE  Current'
<1>1. ~disturbed /\ Current
  BY Undisturbed
<1>2. \A q \in Procs \ {p} : pc[q] = "idle"
  <2>1. CASE Start(p)
    BY <2>1, Undisturbed DEF Busy
  <2>2. CASE Busy(p)
    BY <1>1, <2>2 DEF Current, Busy
  <2> QED
    BY <2>1, <2>2 DEF Step, Check, FreshToken, refresh, Call, revoke, remove, command_auth_status,
       await_authorisation_code, exchange_code, Probe, Withdraw, Write, Flush, Replace,
       SyncDirectory, WriteFails, Kill, Busy
<1>3. CurrentFile(p) /\ CurrentHands(p)
  BY <1>1, <1>2 DEF Current, CurrentFile, CurrentHands, Renewing, Saving
<1>4. Own(p) /\ Keeps
  BY StepOwn, GrantStep DEF Tokens
<1>5. SUFFICES (CurrentFile(p) /\ CurrentHands(p))'
  <2>1. \A q \in Procs \ {p} : pc'[q] = "idle"
    BY <1>2, <1>4 DEF Own
  <2>2. \A q \in Procs : Place(q)'
    BY PlaceStep DEF Tokens
  <2> QED
    BY <1>5, <2>1, <2>2 DEF Current, CurrentFile, CurrentHands, Renewing, Saving, Busy, Place
<1>6. /\ Place(p) /\ Held(p) /\ Verified(file.token) /\ mem[p] \in Token /\ file \in Document
      /\ mem \in [Procs -> Token] /\ job \in [Procs -> Jobs] /\ temp \in [Procs -> Document]
      /\ pc \in [Procs -> {"idle", "login", "exchange", "probe", "withdraw", "use", "token", "call",
                       "revoke", "remove", "status", "store", "flush", "replace", "sync"}]
  BY DEF Tokens, Types, TypeOK
<1>7. latest # 0 => latest \in DOMAIN grants
  BY <1>3, <1>6 DEF CurrentFile, Verified, Known, NoToken
\* The command ends and leaves the file and its grant alone.
<1>8. ASSUME End(p), file' = file, latest' = latest, latest # 0 => grants'[latest] = grants[latest],
             ~Renewing(p), pc[p] # "remove"
      PROVE  (CurrentFile(p) /\ CurrentHands(p))'
  <2>1. pc'[p] = "idle" /\ job'[p].cmd = "status"
    BY <1>8, EndOwn DEF Ended, Idle
  <2>2. CurrentFile(p)'
    BY <1>3, <1>8 DEF CurrentFile, Accepts
  <2> QED BY <2>1, <2>2 DEF CurrentHands, Renewing, Saving
\* The command goes on from one place to the next with the same things in hand.
<1>9. ASSUME file' = file, latest' = latest, grants' = grants, mem'[p] = mem[p], job'[p] = job[p],
             pc[p] # "remove", pc'[p] # "remove", Renewing(p)' <=> Renewing(p),
             pc'[p] \in {"token", "call", "sync"} => pc[p] \in {"token", "call", "sync"},
             pc'[p] \in Saving \cup {"probe"} => pc[p] \in Saving \cup {"probe"},
             pc'[p] \in Saving \cup {"probe", "withdraw"} => pc[p] \in Saving \cup {"probe", "withdraw"}
      PROVE  (CurrentFile(p) /\ CurrentHands(p))'
  BY <1>3, <1>9 DEF CurrentFile, CurrentHands, Accepts
<1>10. CASE Start(p)
  <2>1. pc'[p] \in {"login", "use", "revoke", "status"}
    BY <1>6, <1>10, Constants DEF Start
  <2>2. ~Renewing(p) /\ pc[p] # "remove" /\ file' = file /\ latest' = latest /\ grants' = grants
    BY <1>10 DEF Start, Busy, Renewing, Saving
  <2>3. CurrentFile(p)'
    BY <1>3, <2>2 DEF CurrentFile, Accepts
  <2> QED BY <2>1, <2>3 DEF CurrentHands, Renewing, Saving
<1>11. CASE Check(p)
  <2>1. pc[p] = "use" /\ file' = file /\ latest' = latest /\ grants' = grants
    BY <1>11 DEF Check, history
  <2>2. CASE End(p)
    BY <1>8, <2>1, <2>2 DEF Renewing, Saving
  <2>3. CASE ~End(p)
    <3>1. mem'[p] = file.token /\ pc'[p] = "token"
      BY <1>6, <1>11, <2>3 DEF Check, Go, stored_state, Place, Empty
    <3>2. CurrentFile(p)'
      BY <1>3, <2>1, <3>1 DEF CurrentFile, Renewing, Saving, Accepts
    <3> QED BY <2>1, <3>1, <3>2 DEF CurrentHands, Renewing, Saving
  <2> QED BY <2>2, <2>3
<1>12. CASE refresh(p)
  <2>1. pc[p] = "token" /\ file' = file /\ latest' = latest
    BY <1>12 DEF refresh
  <2>2. CASE End(p) /\ UNCHANGED grants
    BY <1>8, <2>1, <2>2 DEF Renewing, Saving
  <2>3. ASSUME Accepts(mem[p]), Go(p, "store"), NEW t \in Token, Refreshed(mem[p], t),
               mem' = [mem EXCEPT ![p] = t]
        PROVE  (CurrentFile(p) /\ CurrentHands(p))'
    <3>1. mem'[p] = t /\ pc'[p] = "store" /\ job'[p].cmd = "use"
      BY <1>6, <2>1, <2>3 DEF Go, Place
    <3>2. Known(mem[p]) /\ mem[p] = file.token
      BY <1>3, <1>6, <2>1 DEF Held, Place, Empty, CurrentHands
    <3>3. t.grant = mem[p].grant /\ grants'[t.grant].live /\ grants'[t.grant].rotation = t.rotation
      BY <1>6, <2>3, <3>2, RefreshedKeeps
    <3>4. file.token.grant = latest
      BY <1>3 DEF CurrentFile
    <3> QED BY <2>1, <3>1, <3>2, <3>3, <3>4 DEF CurrentFile, CurrentHands, Renewing, Saving, Accepts
  <2> QED BY <1>12, <2>2, <2>3, Undisturbed
<1>13. CASE revoke(p)
  <2>1. pc[p] = "revoke" /\ file' = file /\ latest' = latest
    BY <1>13 DEF revoke
  <2>2. CASE End(p) /\ UNCHANGED grants
    BY <1>8, <2>1, <2>2 DEF Renewing, Saving
  <2>3. CASE Go(p, "remove")
    <3>1. pc'[p] = "remove"
      BY <1>6, <2>3 DEF Go
    <3> QED BY <1>3, <2>1, <3>1 DEF CurrentFile, CurrentHands, Renewing, Saving
  <2> QED BY <1>13, <2>2, <2>3, Undisturbed
<1>14. CASE remove(p)
  <2>1. file'.token.grant = 0 /\ latest' = 0 /\ pc'[p] = "idle"
    BY <1>14, EndOwn DEF remove, Ended, NoFile, NoToken
  <2> QED BY <2>1 DEF CurrentFile, CurrentHands, Renewing, Saving
<1>15. CASE exchange_code(p)
  <2>1. pc[p] = "exchange" /\ file' = file /\ latest' = latest
    BY <1>15 DEF exchange_code, history
  <2>2. grants' = grants \/ \A g \in DOMAIN grants : grants'[g] = grants[g]
    BY <1>6, <1>15, ConsentsKeeps DEF exchange_code
  <2>3. CASE End(p)
    BY <1>7, <1>8, <2>1, <2>2, <2>3 DEF Renewing, Saving
  <2>4. CASE ~End(p)
    <3>1. PICK t \in Token : Consents(job[p], t) /\ mem' = [mem EXCEPT ![p] = t] /\ Go(p, "probe")
      BY <1>15, <2>4 DEF exchange_code
    <3>2. mem'[p] = t /\ pc'[p] = "probe"
      BY <1>6, <3>1 DEF Go
    <3>3. /\ t.grant \notin DOMAIN grants /\ t.grant # 0
          /\ grants'[t.grant].live /\ grants'[t.grant].rotation = t.rotation
      BY <1>6, <3>1, ConsentsKeeps
    <3>4. t.grant # latest
      BY <1>7, <3>3
    <3>5. CurrentFile(p)'
      BY <1>3, <1>7, <2>1, <2>2, <3>2 DEF CurrentFile, Renewing, Saving, Accepts
    <3> QED BY <2>1, <3>2, <3>3, <3>4, <3>5 DEF CurrentHands, Renewing, Saving, Accepts
  <2> QED BY <2>3, <2>4
<1>16. CASE Withdraw(p)
  <2>1. pc[p] = "withdraw" /\ file' = file /\ latest' = latest /\ End(p)
    BY <1>16 DEF Withdraw, history
  <2>2. mem[p].grant # latest /\ Known(mem[p])
    BY <1>3, <1>6, <2>1 DEF CurrentHands, Place, Held, Empty
  <2>3. latest # 0 => grants'[latest] = grants[latest]
    BY <1>7, <1>16, <2>2, RevokedKeeps DEF Withdraw
  <2> QED BY <1>8, <2>1, <2>3 DEF Renewing, Saving
<1>17. CASE WriteFails(p) \/ Kill(p)
  <2>1. ~Unsaved(p)
    BY <1>17, Undisturbed
  <2>2. ~Renewing(p) /\ pc[p] # "remove"
    BY <1>6, <2>1 DEF Unsaved, Renewing, Saving, Place
  <2> QED BY <1>8, <1>17, <2>2 DEF WriteFails, Kill
<1>18. CASE command_auth_status(p) \/ await_authorisation_code(p) \/ Call(p)
  <2>1. /\ pc[p] \in {"status", "login", "call"} /\ file' = file /\ latest' = latest /\ grants' = grants
    BY <1>18 DEF command_auth_status, await_authorisation_code, Call, history
  <2>2. CASE End(p)
    BY <1>8, <2>1, <2>2 DEF Renewing, Saving
  <2>3. CASE ~End(p)
    <3>1. mem' = mem /\ job' = job
      BY <1>18, <2>3 DEF command_auth_status, await_authorisation_code, Call, Go
    <3>2. \/ pc[p] = "login" /\ pc'[p] = "exchange"
          \/ pc[p] = "call" /\ pc'[p] = "token"
      <4>1. ~command_auth_status(p)
        BY <2>3 DEF command_auth_status
      <4>2. CASE await_authorisation_code(p)
        <5>1. pc[p] = "login" /\ Go(p, "exchange")
          BY <2>3, <4>2 DEF await_authorisation_code
        <5> QED BY <1>6, <5>1 DEF Go
      <4>3. CASE Call(p)
        BY <1>6, <2>3, <4>3 DEF Call, Go
      <4> QED BY <1>18, <4>1, <4>2, <4>3
    <3> QED BY <1>9, <2>1, <3>1, <3>2 DEF Renewing, Saving
  <2> QED BY <2>2, <2>3
<1>19. CASE FreshToken(p) \/ Probe(p) \/ Write(p) \/ Flush(p)
  <2>1. file' = file /\ latest' = latest /\ grants' = grants /\ mem' = mem /\ job' = job
    BY <1>19 DEF FreshToken, Probe, Write, Flush, Go, history
  <2>2. \/ pc[p] = "token" /\ pc'[p] = "call"
        \/ pc[p] = "probe" /\ pc'[p] \in {"store", "withdraw"}
        \/ pc[p] = "store" /\ pc'[p] = "flush"
        \/ pc[p] = "flush" /\ pc'[p] = "replace"
    BY <1>6, <1>19 DEF FreshToken, Probe, Write, Flush, Go
  <2>3. Renewing(p)' <=> Renewing(p)
    BY <1>6, <2>1, <2>2 DEF Renewing, Saving, Place
  <2> QED BY <1>9, <2>1, <2>2, <2>3 DEF Saving
<1>20. CASE Replace(p)
  <2>1. /\ file' = [token |-> mem[p], flushed |-> TRUE] /\ grants' = grants /\ mem' = mem /\ job' = job
        /\ latest' = IF job[p].cmd = "login" THEN mem[p].grant ELSE latest
        /\ pc[p] = "replace" /\ pc'[p] = "sync"
    BY <1>6, <1>20 DEF Replace, Go, Place
  <2>2. Accepts(mem[p]) /\ mem[p].grant = latest'
    BY <1>3, <1>6, <2>1 DEF CurrentHands, Renewing, Saving, Place
  <2> QED BY <2>1, <2>2 DEF CurrentFile, CurrentHands, Renewing, Saving, Accepts
<1>21. CASE SyncDirectory(p)
  <2>1. pc[p] = "sync" /\ file' = file /\ latest' = latest /\ grants' = grants
    BY <1>21 DEF SyncDirectory, history
  <2>2. CASE End(p)
    BY <1>8, <2>1, <2>2 DEF Renewing, Saving
  <2>3. CASE ~End(p)
    <3>1. mem' = mem /\ job' = job /\ pc'[p] = "call"
      BY <1>6, <1>21, <2>3 DEF SyncDirectory, Go
    <3> QED BY <1>9, <2>1, <3>1 DEF Renewing, Saving
  <2> QED BY <2>2, <2>3
<1> QED
  BY <1>10, <1>11, <1>12, <1>13, <1>14, <1>15, <1>16, <1>17, <1>18, <1>19, <1>20, <1>21 DEF Step

(***************************************************************************)
(* The invariant.                                                          *)
(***************************************************************************)
LEMMA InitInv == Init => AuthInv
<1> SUFFICES ASSUME Init PROVE AuthInv
  OBVIOUS
<1>1. \A p \in Procs : /\ pc[p] = "idle" /\ job[p] = Idle /\ job[p].cmd = "status" /\ mem[p] = NoToken
                       /\ file.token = NoToken /\ synced.token = NoToken
  BY DEF Init, Idle, NoFile
<1>2. \A p \in Procs : Place(p)
  BY <1>1 DEF Place, Empty, Saving
<1>3. Tokens
  BY <1>1 DEF Init, Tokens, Verified, Held, Checked, Saving, NoFile
<1>4. Current
  BY <1>1 DEF Init, Current, Busy, Renewing, Saving, NoFile, NoToken
<1> QED BY <1>2, <1>3, <1>4, InitTypes DEF AuthInv

LEMMA StepInv == AuthInv /\ [Next]_vars => AuthInv'
<1> SUFFICES ASSUME AuthInv, [Next]_vars PROVE AuthInv'
  OBVIOUS
<1>1. Types /\ Tokens /\ \A p \in Procs : Place(p) /\ Held(p)
  BY DEF AuthInv, Tokens
<1>2. CASE UNCHANGED vars
  <2>1. /\ pc' = pc /\ job' = job /\ mem' = mem /\ temp' = temp /\ file' = file /\ synced' = synced
        /\ grants' = grants /\ commands' = commands /\ latest' = latest /\ acted' = acted
        /\ disturbed' = disturbed
    BY <1>2 DEF vars, process, history
  <2>2. Types'
    BY <1>1, <2>1 DEF Types, TypeOK
  <2>3. \A p \in Procs : Place(p)'
    BY <1>1, <2>1 DEF Place
  <2>4. Tokens'
    BY <1>1, <2>1 DEF Tokens, Verified, Held, Known, Checked, Allows
  <2>5. Current => Current'
    BY <2>1 DEF Current, Busy, Renewing, Accepts
  <2>6. ~disturbed' => Current'
    BY <2>1, <2>5, Zenon DEF AuthInv
  <2> QED BY <2>2, <2>3, <2>4, <2>6 DEF AuthInv
<1>3. ASSUME NEW p \in Procs, Step(p)
      PROVE  AuthInv'
  <2>1. Types'
    BY <1>1, <1>3, TypesStep DEF Tokens
  <2>2. \A q \in Procs : Place(q)'
    BY <1>1, <1>3, PlaceStep DEF Tokens
  <2>3. Tokens'
    BY <1>1, <1>3, TokensStep
  <2>4. ~disturbed => Current
    BY Zenon DEF AuthInv
  <2>5. ASSUME ~disturbed' PROVE Current'
    BY <1>1, <1>3, <2>4, <2>5, CurrentStep
  <2> QED BY <2>1, <2>2, <2>3, <2>5 DEF AuthInv
<1>4. CASE GoogleRevokes
  <2>1. Keeps
    BY <1>1, <1>4, KillKeeps
  <2>2. /\ pc' = pc /\ job' = job /\ mem' = mem /\ temp' = temp /\ file' = file /\ synced' = synced
        /\ commands' = commands /\ latest' = latest /\ acted' = acted
    BY <1>4 DEF GoogleRevokes, process
  <2>3. disturbed' = TRUE
    BY <1>4 DEF GoogleRevokes
  <2>4. Types'
    BY <1>1, <2>1, <2>2, <2>3 DEF Types, TypeOK, Keeps
  <2>5. \A p \in Procs : Place(p)'
    BY <1>1, <2>2 DEF Place
  <2>6. Tokens'
    <3>1. (Verified(file.token) /\ Verified(synced.token))'
      BY <1>1, <2>1, <2>2, KnownKept DEF Tokens, Verified, Known
    <3>2. ASSUME NEW p \in Procs PROVE Held(p)' /\ Checked(p)'
      <4>1. Held(p) /\ Checked(p) /\ Place(p)
        BY <1>1 DEF Tokens
      <4>2. Held(p)'
        BY <2>1, <2>2, <4>1, KnownKept DEF Held, Known, Place, Empty, Saving
      <4>3. CASE mem[p] = NoToken
        BY <2>2, <4>1, <4>2, <4>3 DEF Checked, Place, Empty, Saving
      <4>4. CASE Known(mem[p])
        BY <2>1, <2>2, <4>1, <4>2, <4>4, KnownKept DEF Checked, Allows
      <4> QED BY <4>1, <4>2, <4>3, <4>4 DEF Held
    <3>3. \A a \in acted' : a[1] \in DOMAIN grants' /\ Allows(a[1], a[2])'
      BY <1>1, <2>1, <2>2 DEF Tokens, Keeps, Allows
    <3> QED BY <1>1, <2>2, <3>1, <3>2, <3>3 DEF Tokens
  <2> QED BY <2>3, <2>4, <2>5, <2>6 DEF AuthInv
<1>5. CASE PowerLoss
  <2>1. /\ pc' = [p \in Procs |-> "idle"] /\ job' = [p \in Procs |-> Idle]
        /\ mem' = [p \in Procs |-> NoToken] /\ temp' = [p \in Procs |-> NoFile]
        /\ file' \in {file, synced} /\ synced' = file'
        /\ grants' = grants /\ commands' = commands /\ latest' = latest /\ acted' = acted
    BY <1>1, <1>5 DEF PowerLoss, AfterPowerLoss, Tokens
  <2>2. disturbed' = TRUE
    BY <1>5 DEF PowerLoss
  <2>3. file' \in Document /\ synced' \in Document
    BY <1>1, <2>1 DEF Types, TypeOK
  <2>4. Types'
    BY <1>1, <2>1, <2>2, <2>3, Constants DEF Types, TypeOK
  <2>5. \A p \in Procs : pc'[p] = "idle" /\ job'[p].cmd = "status" /\ mem'[p] = NoToken
    BY <2>1 DEF Idle
  <2>6. \A p \in Procs : Place(p)'
    BY <2>5 DEF Place, Empty, Saving
  <2>7. Tokens'
    BY <1>1, <2>1, <2>5 DEF Tokens, Verified, Known, Held, Checked, Allows, Saving
  <2> QED BY <2>2, <2>4, <2>6, <2>7 DEF AuthInv
<1> QED BY <1>2, <1>3, <1>4, <1>5 DEF Next

\* Places, tokens and, where nothing disturbed the commands, what is current.
THEOREM AuthInvariant == Spec => []AuthInv
<1> QED BY InitInv, StepInv, PTL DEF Spec

\* token.json can be read, whatever was interrupted and whoever wrote it last.
THEOREM FileIsWhole == Spec => []StoredIsWhole
<1>1. AuthInv => StoredIsWhole
  BY DEF AuthInv, Tokens, StoredIsWhole, Torn
<1> QED BY <1>1, AuthInvariant, PTL

\* The token on disk was consented by the pinned channel, names what its login
\* asked for, and has no scope that Google did not grant.
THEOREM FileIsVerified == Spec => []StoredIsVerified
<1>1. AuthInv => StoredIsVerified
  BY DEF AuthInv, Tokens, StoredIsVerified, Verified, Known
<1> QED BY <1>1, AuthInvariant, PTL

\* A request under a capability uses a grant whose login asked for it.
THEOREM NothingBeyondConsent == Spec => []InterlockHolds
<1>1. AuthInv => InterlockHolds
  BY DEF AuthInv, Tokens, InterlockHolds, Allows
<1> QED BY <1>1, AuthInvariant, PTL

\* Commands that nothing disturbed leave the token of the last login, with the
\* refresh token that Google accepts now, or none after a revocation.
THEOREM CurrentWhenUndisturbed == Spec => []UndisturbedIsCurrent
<1>1. ASSUME AuthInv, ~disturbed, \A p \in Procs : ~Busy(p)
      PROVE  file.token.grant = latest /\ (latest # 0 => Accepts(file.token))
  <2>1. Current
    BY <1>1, Zenon DEF AuthInv
  <2> QED BY <1>1, <2>1 DEF Current, Busy, Renewing, Saving
<1>2. AuthInv => UndisturbedIsCurrent
  BY <1>1, Zenon DEF UndisturbedIsCurrent
<1> QED BY <1>2, AuthInvariant, PTL

(***************************************************************************)
(* The Spec256 tools: what is needed of sequences.                         *)
(***************************************************************************)
HIDE AuthAssumption

\* A set of numbers that is not empty has a least element.
LEMMA LeastNumber ==
  ASSUME NEW T, T \subseteq Nat, T # {}
  PROVE  \E n \in T : \A m \in T : ~(m < n)
<1> DEFINE R == {ss \in Nat \X Nat : ss[1] < ss[2]}
<1>1. IsWellFoundedOn(R, Nat)
  BY NatLessThanWellFounded DEF OpToRel
<1>2. \A n, m \in Nat : <<m, n>> \in R <=> m < n
  OBVIOUS
<1>3. \E n \in T : \A m \in T : <<m, n>> \notin R
  <2> HIDE DEF R
  <2> QED BY <1>1, WFMin
<1> QED BY <1>2, <1>3

\* One step of among, and a function that takes the first n.
Kept(v, x, keep) == IF x \in keep THEN Append(v, x) ELSE v
Picks(f, s, keep, n) ==
  f = [i \in 0 .. n |-> IF i = 0 THEN <<>> ELSE Kept(f[i - 1], s[i], keep)]

\* There is such a function for every n: no number is the least without one.
LEMMA PicksExists == \A s, keep : \A n \in Nat : \E f : Picks(f, s, keep, n)
<1> SUFFICES ASSUME NEW s, NEW keep PROVE \A n \in Nat : \E f : Picks(f, s, keep, n)
  OBVIOUS
<1> DEFINE Without == {n \in Nat : \A f : ~Picks(f, s, keep, n)}
<1>1. 0 \notin Without
  <2> DEFINE f == [i \in 0 .. 0 |-> <<>>]
  <2>1. Picks(f, s, keep, 0)
    BY DEF Picks
  <2> HIDE DEF f
  <2> QED BY <2>1
<1>2. ASSUME NEW n \in Nat, NEW f, Picks(f, s, keep, n) PROVE n + 1 \notin Without
  <2> DEFINE g == [i \in 0 .. n + 1 |-> IF i = n + 1 THEN Kept(f[n], s[n + 1], keep) ELSE f[i]]
  <2>1. \A i \in 0 .. n : g[i] = f[i]
    BY SMT
  <2>2. \A i \in 0 .. n : i # 0 => i - 1 \in 0 .. n
    BY SMT
  <2>3. \A i \in 0 .. n : f[i] = IF i = 0 THEN <<>> ELSE Kept(f[i - 1], s[i], keep)
    BY <1>2 DEF Picks
  <2>4. g[n + 1] = Kept(f[n], s[n + 1], keep) /\ g[0] = f[0] /\ n + 1 # 0 /\ n \in 0 .. n
    BY SMT
  <2>5. \A i \in 0 .. n + 1 : g[i] = IF i = 0 THEN <<>> ELSE Kept(g[i - 1], s[i], keep)
    <3> SUFFICES ASSUME NEW i \in 0 .. n + 1
                 PROVE  g[i] = IF i = 0 THEN <<>> ELSE Kept(g[i - 1], s[i], keep)
      OBVIOUS
    <3>1. CASE i \in 0 .. n
      <4> HIDE DEF g
      <4> QED BY <2>1, <2>2, <2>3, <3>1
    <3>2. CASE i = n + 1
      <4>1. i - 1 = n /\ i # 0
        BY <3>2
      <4> HIDE DEF g
      <4> QED BY <2>1, <2>4, <3>2, <4>1
    <3> QED BY <3>1, <3>2
  <2>6. Picks(g, s, keep, n + 1)
    <3>1. g = [i \in 0 .. n + 1 |-> g[i]]
      OBVIOUS
    <3> HIDE DEF g
    <3> QED BY <2>5, <3>1 DEF Picks
  <2> HIDE DEF g
  <2> QED BY <2>6
<1>3. Without = {}
  <2> SUFFICES ASSUME Without # {} PROVE FALSE
    OBVIOUS
  <2>1. PICK n \in Without : \A m \in Without : ~(m < n)
    <3>1. Without \subseteq Nat
      OBVIOUS
    <3> HIDE DEF Without
    <3> QED BY <3>1, LeastNumber
  <2>2. n \in Nat /\ n # 0
    BY <1>1
  <2>3. n - 1 \in Nat /\ n - 1 < n /\ n - 1 + 1 = n
    BY <2>2
  <2>4. n - 1 \notin Without
    <3> HIDE DEF Without
    <3> QED BY <2>1, <2>3
  <2>5. PICK f : Picks(f, s, keep, n - 1)
    BY <2>3, <2>4
  <2>6. n - 1 + 1 \notin Without
    <3> HIDE DEF Without
    <3> QED BY <1>2, <2>3, <2>5
  <2> QED BY <2>1, <2>3, <2>6
<1> QED BY <1>3

\* What among returns: a sequence of the elements that are kept.
LEMMA AmongIs ==
  ASSUME NEW S, NEW s \in Seq(S), NEW keep
  PROVE  among(s, keep) \in Seq(S) /\ ToSet(among(s, keep)) = ToSet(s) \cap keep
<1>1. Len(s) \in Nat /\ DOMAIN s = 1 .. Len(s) /\ \A i \in 1 .. Len(s) : s[i] \in S
  OBVIOUS
<1>2. PICK f : among(s, keep) = f[Len(s)] /\ Picks(f, s, keep, Len(s))
  <2> DEFINE g == CHOOSE h : Picks(h, s, keep, Len(s))
  <2>1. among(s, keep) = g[Len(s)]
    BY DEF among, Picks, Kept
  <2>2. \E h : Picks(h, s, keep, Len(s))
    BY <1>1, PicksExists
  <2>3. Picks(g, s, keep, Len(s))
    BY <2>2
  <2> HIDE DEF g
  <2> QED BY <2>1, <2>3
<1> DEFINE Good(i) == f[i] \in Seq(S) /\ ToSet(f[i]) = {s[j] : j \in 1 .. i} \cap keep
           Bad == {i \in 0 .. Len(s) : ~Good(i)}
<1>3. \A i \in 0 .. Len(s) : f[i] = IF i = 0 THEN <<>> ELSE Kept(f[i - 1], s[i], keep)
  BY <1>2 DEF Picks
<1>4. Good(0)
  <2>1. f[0] = <<>>
    BY <1>1, <1>3
  <2>2. <<>> \in Seq(S) /\ ToSet(<<>>) = {}
    BY DEF ToSet
  <2>3. {s[j] : j \in 1 .. 0} = {}
    OBVIOUS
  <2> QED BY <2>1, <2>2, <2>3
<1>5. ASSUME NEW i \in 1 .. Len(s), Good(i - 1) PROVE Good(i)
  <2>1. f[i] = Kept(f[i - 1], s[i], keep) /\ s[i] \in S
    BY <1>1, <1>3
  <2>2. {s[j] : j \in 1 .. i} = {s[j] : j \in 1 .. (i - 1)} \union {s[i]}
    <3>1. \A j : j \in 1 .. i <=> j \in 1 .. (i - 1) \/ j = i
      BY <1>1
    <3> QED BY <3>1
  <2>3. CASE s[i] \in keep
    <3>1. f[i] = Append(f[i - 1], s[i])
      BY <2>1, <2>3 DEF Kept
    <3>2. f[i] \in Seq(S)
      BY <1>5, <2>1, <3>1
    <3>3. ToSet(f[i]) = ToSet(f[i - 1]) \union {s[i]}
      <4> DEFINE v == f[i - 1]
                 x == s[i]
      <4>1. v \in Seq(S) /\ x \in S
        BY <1>5, <2>1
      <4>2. ToSet(Append(v, x)) = ToSet(v) \union {x}
        <5> HIDE DEF v, x
        <5>1. /\ DOMAIN v = 1 .. Len(v) /\ Len(v) \in Nat
              /\ DOMAIN Append(v, x) = 1 .. Len(v) + 1
              /\ \A k \in 1 .. Len(v) : Append(v, x)[k] = v[k]
              /\ Append(v, x)[Len(v) + 1] = x
          BY <4>1, AppendProperties
        <5>2. \A k : k \in 1 .. Len(v) + 1 <=> k \in 1 .. Len(v) \/ k = Len(v) + 1
          BY <5>1
        <5> QED BY <5>1, <5>2 DEF ToSet
      <4> QED BY <3>1, <4>2
    <3> QED BY <1>5, <2>2, <2>3, <3>2, <3>3
  <2>4. CASE s[i] \notin keep
    <3>1. f[i] = f[i - 1]
      BY <2>1, <2>4 DEF Kept
    <3> QED BY <1>5, <2>2, <2>4, <3>1
  <2> QED BY <2>3, <2>4
<1>6. Bad = {}
  <2> SUFFICES ASSUME Bad # {} PROVE FALSE
    OBVIOUS
  <2>1. Bad \subseteq Nat /\ \A i \in Bad : i \in 0 .. Len(s) /\ ~Good(i)
    BY <1>1
  <2>2. PICK n \in Bad : \A m \in Bad : ~(m < n)
    <3> HIDE DEF Bad
    <3> QED BY <2>1, LeastNumber
  <2>3. n \in 0 .. Len(s) /\ n # 0
    <3> HIDE DEF Good
    <3> QED BY <1>4, <2>1, <2>2
  <2>4. n \in 1 .. Len(s) /\ n - 1 \in 0 .. Len(s) /\ n - 1 < n
    BY <1>1, <2>3
  <2>5. Good(n - 1)
    <3> HIDE DEF Good
    <3> QED BY <2>2, <2>4
  <2> HIDE DEF Good, Bad
  <2> QED BY <1>5, <2>1, <2>2, <2>4, <2>5
<1>7. Good(Len(s))
  <2> HIDE DEF Good
  <2> QED BY <1>1, <1>6
<1>8. {s[j] : j \in 1 .. Len(s)} = ToSet(s)
  BY <1>1 DEF ToSet
<1> QED BY <1>2, <1>7, <1>8

\* The elements of two sequences, one after the other.
LEMMA ConcatSet ==
  ASSUME NEW S, NEW s \in Seq(S), NEW t \in Seq(S)
  PROVE  s \o t \in Seq(S) /\ ToSet(s \o t) = ToSet(s) \union ToSet(t)
<1>1. /\ Len(s) \in Nat /\ Len(t) \in Nat /\ DOMAIN s = 1 .. Len(s) /\ DOMAIN t = 1 .. Len(t)
      /\ s \o t \in Seq(S) /\ DOMAIN (s \o t) = 1 .. Len(s) + Len(t)
      /\ \A i \in 1 .. Len(s) + Len(t) : (s \o t)[i] = IF i <= Len(s) THEN s[i] ELSE t[i - Len(s)]
  BY ConcatProperties
<1>2. \A i \in 1 .. Len(s) : i \in 1 .. Len(s) + Len(t) /\ i <= Len(s)
  BY <1>1
<1>3. \A i \in 1 .. Len(t) :
        Len(s) + i \in 1 .. Len(s) + Len(t) /\ ~(Len(s) + i <= Len(s)) /\ Len(s) + i - Len(s) = i
  BY <1>1
<1>4. \A i \in 1 .. Len(s) + Len(t) : i <= Len(s) => i \in 1 .. Len(s)
  BY <1>1
<1>5. \A i \in 1 .. Len(s) + Len(t) : ~(i <= Len(s)) => i - Len(s) \in 1 .. Len(t)
  BY <1>1
<1> DEFINE st == s \o t
<1>6. /\ ToSet(st) = {st[i] : i \in 1 .. Len(s) + Len(t)}
      /\ ToSet(s) = {s[i] : i \in 1 .. Len(s)} /\ ToSet(t) = {t[i] : i \in 1 .. Len(t)}
  BY <1>1 DEF ToSet
<1>7. \A i \in 1 .. Len(s) + Len(t) : st[i] = IF i <= Len(s) THEN s[i] ELSE t[i - Len(s)]
  BY <1>1
<1> HIDE DEF st
<1>8. ASSUME NEW x \in ToSet(st) PROVE x \in ToSet(s) \union ToSet(t)
  <2>1. PICK i \in 1 .. Len(s) + Len(t) : x = st[i]
    BY <1>6, <1>8
  <2>2. CASE i <= Len(s)
    BY <1>4, <1>6, <1>7, <2>1, <2>2
  <2>3. CASE ~(i <= Len(s))
    BY <1>5, <1>6, <1>7, <2>1, <2>3
  <2> QED BY <2>2, <2>3
<1>9. ASSUME NEW x \in ToSet(s) PROVE x \in ToSet(st)
  <2>1. PICK i \in 1 .. Len(s) : x = s[i]
    BY <1>6, <1>9
  <2>2. x = st[i] /\ i \in 1 .. Len(s) + Len(t)
    BY <1>2, <1>7, <2>1
  <2> QED BY <1>6, <2>2
<1>10. ASSUME NEW x \in ToSet(t) PROVE x \in ToSet(st)
  <2>1. PICK i \in 1 .. Len(t) : x = t[i]
    BY <1>6, <1>10
  <2>2. x = st[Len(s) + i] /\ Len(s) + i \in 1 .. Len(s) + Len(t)
    BY <1>3, <1>7, <2>1
  <2> QED BY <1>6, <2>2
<1>11. ToSet(st) = ToSet(s) \union ToSet(t)
  BY <1>8, <1>9, <1>10, Zenon
<1> QED BY <1>1, <1>11 DEF st

\* A sequence and its reverse have the same elements.
LEMMA ReverseSet ==
  ASSUME NEW S, NEW s \in Seq(S)
  PROVE  Reverse(s) \in Seq(S) /\ Len(Reverse(s)) = Len(s) /\ ToSet(Reverse(s)) = ToSet(s)
<1>1. Len(s) \in Nat /\ DOMAIN s = 1 .. Len(s) /\ \A i \in 1 .. Len(s) : s[i] \in S
  OBVIOUS
<1>2. \A i \in 1 .. Len(s) : Len(s) - i + 1 \in 1 .. Len(s) /\ Len(s) - (Len(s) - i + 1) + 1 = i
  BY <1>1
<1>3. Reverse(s) = [i \in 1 .. Len(s) |-> s[Len(s) - i + 1]]
  BY DEF Reverse
<1>4. Reverse(s) \in Seq(S) /\ Len(Reverse(s)) = Len(s) /\ DOMAIN Reverse(s) = 1 .. Len(s)
  BY <1>1, <1>2, <1>3
<1>5. \A i \in 1 .. Len(s) : Reverse(s)[i] = s[Len(s) - i + 1]
  BY <1>3
<1>6. ASSUME NEW x PROVE x \in ToSet(Reverse(s)) <=> x \in ToSet(s)
  <2> HIDE DEF Reverse
  <2>1. ASSUME NEW i \in 1 .. Len(s) PROVE Reverse(s)[i] \in ToSet(s) /\ s[i] \in ToSet(Reverse(s))
    <3>1. Reverse(s)[i] = s[Len(s) - i + 1] /\ Len(s) - i + 1 \in 1 .. Len(s)
      BY <1>2, <1>5
    <3>2. Reverse(s)[Len(s) - i + 1] = s[i]
      BY <1>2, <1>5, <3>1
    <3> QED BY <1>1, <1>4, <3>1, <3>2 DEF ToSet
  <2> QED BY <1>1, <1>4, <2>1 DEF ToSet
<1> QED BY <1>4, <1>6

(***************************************************************************)
(* The state of the keyboard bridge: what is counted, and what is held.    *)
(***************************************************************************)
\* The pressed host keys that stand for a Spectrum key, and for a direction.
Naming(pressed_codes, name) == {code \in pressed_codes : name \in ToSet(key_names(code))}
Steering(pressed_codes, bit) == {code \in pressed_codes : bit \in controls(code)}

InputStates ==
  [pressed_codes : SUBSET KnownCodes, key_references : [Names -> Nat],
   joystick_references : [KEMPSTON_BITS -> Nat], key_order : Seq(Names),
   joystick : SUBSET KEMPSTON_BITS]

\* A name or direction is counted once for each pressed key, and held when counted.
CountInv(s) ==
  /\ s \in InputStates
  /\ \A name \in Names : s.key_references[name] = Cardinality(Naming(s.pressed_codes, name))
  /\ \A bit \in KEMPSTON_BITS : s.joystick_references[bit] = Cardinality(Steering(s.pressed_codes, bit))
  /\ ToSet(s.key_order) = {name \in Names : s.key_references[name] > 0}
  /\ s.joystick = {bit \in KEMPSTON_BITS : s.joystick_references[bit] > 0}

\* What the tables say.
LEMMA Tables ==
  /\ IsFiniteSet(KnownCodes)
  /\ \A code \in KnownCodes : key_names(code) \in Seq(Names) /\ controls(code) \subseteq KEMPSTON_BITS
<1>1. KnownCodes = {11, 14, 29, 42, 54, 56, 100, 105, 106}
  BY DEF KnownCodes, KEYCODES, KEMPSTON
<1>2. IsFiniteSet(KnownCodes)
  <2>1. KnownCodes \subseteq 0 .. 106
    BY <1>1
  <2>2. IsFiniteSet(0 .. 106)
    <3>1. 0 \in Int /\ 106 \in Int
      OBVIOUS
    <3> QED BY <3>1, FS_Interval
  <2> HIDE DEF KnownCodes
  <2> QED BY <2>1, <2>2, FS_Subset
<1>3. ASSUME NEW code \in KnownCodes PROVE key_names(code) \in Seq(Names)
  <2>1. CAPS_SHIFT \in Names /\ ZERO \in Names /\ SYMBOL_SHIFT \in Names
    BY DEF Names
  <2>2. /\ <<ZERO>> \in Seq(Names) /\ <<CAPS_SHIFT, ZERO>> \in Seq(Names)
        /\ <<CAPS_SHIFT>> \in Seq(Names) /\ <<SYMBOL_SHIFT>> \in Seq(Names) /\ <<>> \in Seq(Names)
    BY <2>1
  <2> QED BY <2>2 DEF key_names, KEYCODES
<1>4. ASSUME NEW code \in KnownCodes PROVE controls(code) \subseteq KEMPSTON_BITS
  BY DEF controls, KEMPSTON, KEMPSTON_BITS
<1> QED BY <1>2, <1>3, <1>4

\* One more or one less of the pressed keys that satisfy something.
LEMMA OneMore ==
  ASSUME NEW P, IsFiniteSet(P), NEW A, A \subseteq P, NEW code, code \notin P, NEW B, NEW c \in BOOLEAN,
         B = IF c THEN A \union {code} ELSE A
  PROVE  Cardinality(B) = Cardinality(A) + (IF c THEN 1 ELSE 0) /\ Cardinality(A) \in Nat
BY FS_Subset, FS_AddElement, FS_CardinalityType

\* One less of them.
LEMMA OneLess ==
  ASSUME NEW P, IsFiniteSet(P), NEW A, A \subseteq P, NEW code, NEW B, NEW c \in BOOLEAN,
         c <=> code \in A, B = A \ {code}
  PROVE  Cardinality(B) = Cardinality(A) - (IF c THEN 1 ELSE 0) /\ Cardinality(B) \in Nat
BY FS_Subset, FS_RemoveElement, FS_CardinalityType

\* A transition of a host key keeps the counts.
LEMMA AppliedCounts ==
  ASSUME NEW s, CountInv(s), NEW code \in KnownCodes, NEW pressed \in BOOLEAN,
         pressed # (code \in s.pressed_codes)
  PROVE  CountInv(applied(s, code, pressed).state)
<1> DEFINE step == IF pressed THEN 1 ELSE -1
           names == IF pressed THEN key_names(code) ELSE Reverse(key_names(code))
           keys == changed(s.key_references, names, step)
           bits == {bit \in controls(code) :
                      s.joystick_references[bit] = 0 \/ s.joystick_references[bit] + step = 0}
           P == s.pressed_codes
           Q == IF pressed THEN P \union {code} ELSE P \ {code}
           r == applied(s, code, pressed).state
<1>1. /\ s \in InputStates
      /\ P \subseteq KnownCodes /\ s.key_references \in [Names -> Nat]
      /\ s.joystick_references \in [KEMPSTON_BITS -> Nat] /\ s.key_order \in Seq(Names)
      /\ s.joystick \subseteq KEMPSTON_BITS
  BY DEF CountInv, InputStates
<1>2. names \in Seq(Names) /\ ToSet(names) = ToSet(key_names(code)) /\ controls(code) \subseteq KEMPSTON_BITS
  BY Tables, ReverseSet
<1>3. r = [pressed_codes |-> Q, key_references |-> counted(s.key_references, ToSet(names), step),
           joystick_references |-> counted(s.joystick_references, controls(code), step),
           key_order |-> IF pressed THEN s.key_order \o keys
                         ELSE among(s.key_order, Names \ ToSet(keys)),
           joystick |-> IF pressed THEN s.joystick \union bits ELSE s.joystick \ bits]
  BY DEF applied
<1>4. IsFiniteSet(P) /\ Q \subseteq KnownCodes
  BY <1>1, Tables, FS_Subset
<1>5. /\ keys \in Seq(Names)
      /\ ToSet(keys) = {name \in ToSet(names) : s.key_references[name] = 0 \/ s.key_references[name] + step = 0}
  <2>1. \A x : x \in ToSet(names) => x \in Names
    BY <1>2 DEF ToSet
  <2>2. /\ keys \in Seq(Names)
        /\ ToSet(keys) = ToSet(names) \cap
             {name \in Names : s.key_references[name] = 0 \/ s.key_references[name] + step = 0}
    <3> HIDE DEF names, step
    <3> QED BY <1>2, AmongIs DEF changed
  <2> HIDE DEF keys, names, step
  <2> QED BY <2>1, <2>2
<1>6. \A name \in Names :
        /\ Cardinality(Naming(Q, name)) \in Nat
        /\ Cardinality(Naming(Q, name)) =
             s.key_references[name] + (IF name \in ToSet(names) THEN step ELSE 0)
  <2> SUFFICES ASSUME NEW name \in Names
               PROVE  /\ Cardinality(Naming(Q, name)) \in Nat
                      /\ Cardinality(Naming(Q, name)) =
                           s.key_references[name] + (IF name \in ToSet(names) THEN step ELSE 0)
    OBVIOUS
  <2> DEFINE A == Naming(P, name)
             B == Naming(Q, name)
             c == name \in ToSet(names)
  <2>1. A \subseteq P /\ (c \in BOOLEAN) /\ s.key_references[name] = Cardinality(A)
    BY DEF Naming, CountInv
  <2>2. CASE pressed
    <3>1. code \notin P /\ B = IF c THEN A \union {code} ELSE A
      BY <1>2, <2>2 DEF Naming
    <3>2. Cardinality(B) = Cardinality(A) + (IF c THEN 1 ELSE 0) /\ Cardinality(A) \in Nat
      <4> HIDE DEF A, B, c, P
      <4> QED BY <1>4, <2>1, <3>1, OneMore
    <3>3. step = 1
      BY <2>2
    <3> HIDE DEF A, B, c, P, Q, names, step
    <3> QED BY <2>1, <3>2, <3>3 DEF A, B, c
  <2>3. CASE ~pressed
    <3>1. (c <=> code \in A) /\ B = A \ {code}
      BY <1>2, <2>3 DEF Naming
    <3>2. Cardinality(B) = Cardinality(A) - (IF c THEN 1 ELSE 0) /\ Cardinality(B) \in Nat
      <4> HIDE DEF A, B, c, P
      <4> QED BY <1>4, <2>1, <3>1, OneLess
    <3>3. step = -1 /\ Cardinality(A) \in Nat
      BY <1>1, <2>1, <2>3
    <3> HIDE DEF A, B, c, P, Q, names, step
    <3> QED BY <2>1, <3>2, <3>3 DEF A, B, c
  <2> QED BY <2>2, <2>3
<1>7. \A bit \in KEMPSTON_BITS :
        /\ Cardinality(Steering(Q, bit)) \in Nat
        /\ Cardinality(Steering(Q, bit)) =
             s.joystick_references[bit] + (IF bit \in controls(code) THEN step ELSE 0)
  <2> SUFFICES ASSUME NEW bit \in KEMPSTON_BITS
               PROVE  /\ Cardinality(Steering(Q, bit)) \in Nat
                      /\ Cardinality(Steering(Q, bit)) =
                           s.joystick_references[bit] + (IF bit \in controls(code) THEN step ELSE 0)
    OBVIOUS
  <2> DEFINE A == Steering(P, bit)
             B == Steering(Q, bit)
             c == bit \in controls(code)
  <2>1. A \subseteq P /\ (c \in BOOLEAN) /\ s.joystick_references[bit] = Cardinality(A)
    BY DEF Steering, CountInv
  <2>2. CASE pressed
    <3>1. code \notin P /\ B = IF c THEN A \union {code} ELSE A
      BY <2>2 DEF Steering
    <3>2. Cardinality(B) = Cardinality(A) + (IF c THEN 1 ELSE 0) /\ Cardinality(A) \in Nat
      <4> HIDE DEF A, B, c, P
      <4> QED BY <1>4, <2>1, <3>1, OneMore
    <3>3. step = 1
      BY <2>2
    <3> HIDE DEF A, B, c, P, Q, step
    <3> QED BY <2>1, <3>2, <3>3 DEF A, B, c
  <2>3. CASE ~pressed
    <3>1. (c <=> code \in A) /\ B = A \ {code}
      BY <2>3 DEF Steering
    <3>2. Cardinality(B) = Cardinality(A) - (IF c THEN 1 ELSE 0) /\ Cardinality(B) \in Nat
      <4> HIDE DEF A, B, c, P
      <4> QED BY <1>4, <2>1, <3>1, OneLess
    <3>3. step = -1 /\ Cardinality(A) \in Nat
      BY <1>1, <2>1, <2>3
    <3> HIDE DEF A, B, c, P, Q, step
    <3> QED BY <2>1, <3>2, <3>3 DEF A, B, c
  <2> QED BY <2>2, <2>3
<1>8. /\ counted(s.key_references, ToSet(names), step) \in [Names -> Nat]
      /\ \A name \in Names : counted(s.key_references, ToSet(names), step)[name]
                               = s.key_references[name] + (IF name \in ToSet(names) THEN step ELSE 0)
  <2> HIDE DEF names, step, Q
  <2> QED BY <1>1, <1>6 DEF counted
<1>9. /\ counted(s.joystick_references, controls(code), step) \in [KEMPSTON_BITS -> Nat]
      /\ \A bit \in KEMPSTON_BITS : counted(s.joystick_references, controls(code), step)[bit]
                               = s.joystick_references[bit] + (IF bit \in controls(code) THEN step ELSE 0)
  <2> HIDE DEF step, Q
  <2> QED BY <1>1, <1>7 DEF counted
<1>10. /\ r.key_order \in Seq(Names)
       /\ ToSet(r.key_order) = {name \in Names : r.key_references[name] > 0}
  <2>1. /\ ToSet(s.key_order) = {name \in Names : s.key_references[name] > 0}
        /\ r.key_references = counted(s.key_references, ToSet(names), step)
        /\ \A name \in Names : s.key_references[name] \in Nat
    BY <1>1, <1>3 DEF CountInv
  <2>2. CASE pressed
    <3>1. r.key_order = s.key_order \o keys /\ step = 1
      <4> HIDE DEF keys, names, bits
      <4> QED BY <1>3, <2>2
    <3>2. r.key_order \in Seq(Names) /\ ToSet(r.key_order) = ToSet(s.key_order) \union ToSet(keys)
      <4> HIDE DEF r, keys
      <4> QED BY <1>1, <1>5, <3>1, ConcatSet
    <3>3. \A x : x \in ToSet(names) => x \in Names
      BY <1>2 DEF ToSet
    <3> HIDE DEF r, keys, names, step
    <3> QED BY <1>5, <1>8, <2>1, <3>1, <3>2, <3>3
  <2>3. CASE ~pressed
    <3>1. r.key_order = among(s.key_order, Names \ ToSet(keys)) /\ step = -1
      <4> HIDE DEF keys, names, bits
      <4> QED BY <1>3, <2>3
    <3>2. r.key_order \in Seq(Names) /\ ToSet(r.key_order) = ToSet(s.key_order) \cap (Names \ ToSet(keys))
      <4> HIDE DEF r, keys
      <4> QED BY <1>1, <1>5, <3>1, AmongIs
    <3>3. ASSUME NEW x PROVE x \in ToSet(r.key_order) <=> x \in Names /\ r.key_references[x] > 0
      <4>1. CASE x \notin Names
        <5> HIDE DEF r, keys, names, step
        <5> QED BY <3>2, <4>1
      <4>2. CASE x \in Names
        <5>1. /\ s.key_references[x] \in Nat
              /\ r.key_references[x] = s.key_references[x] + (IF x \in ToSet(names) THEN step ELSE 0)
          <6> HIDE DEF r, keys, names, step
          <6> QED BY <1>8, <2>1, <4>2
        <5>2. x \in ToSet(keys) <=>
                x \in ToSet(names) /\ (s.key_references[x] = 0 \/ s.key_references[x] + step = 0)
          <6> HIDE DEF keys, names, step
          <6> QED BY <1>5
        <5>3. x \in ToSet(r.key_order) <=> s.key_references[x] > 0 /\ x \notin ToSet(keys)
          <6> HIDE DEF r, keys, names, step
          <6> QED BY <2>1, <3>2, <4>2
        <5> HIDE DEF r, keys, names, step
        <5> QED BY <3>1, <4>2, <5>1, <5>2, <5>3
      <4> QED BY <4>1, <4>2
    <3> HIDE DEF r, keys, names, step
    <3> QED BY <3>2, <3>3
  <2> QED BY <2>2, <2>3
<1>11. /\ r.joystick \subseteq KEMPSTON_BITS
       /\ r.joystick = {bit \in KEMPSTON_BITS : r.joystick_references[bit] > 0}
  <2>1. /\ s.joystick = {bit \in KEMPSTON_BITS : s.joystick_references[bit] > 0}
        /\ r.joystick_references = counted(s.joystick_references, controls(code), step)
        /\ \A bit \in KEMPSTON_BITS : s.joystick_references[bit] \in Nat
    BY <1>1, <1>3 DEF CountInv
  <2>2. CASE pressed
    <3>1. r.joystick = s.joystick \union bits /\ step = 1
      BY <1>3, <2>2
    <3> HIDE DEF r, step
    <3> QED BY <1>2, <1>9, <2>1, <3>1
  <2>3. CASE ~pressed
    <3>1. r.joystick = s.joystick \ bits /\ step = -1
      BY <1>3, <2>3
    <3> HIDE DEF r, step
    <3> QED BY <1>2, <1>9, <2>1, <3>1
  <2> QED BY <2>2, <2>3
<1>12. /\ r \in InputStates
       /\ r.pressed_codes = Q
       /\ r.key_references = counted(s.key_references, ToSet(names), step)
       /\ r.joystick_references = counted(s.joystick_references, controls(code), step)
  <2>1. r = [pressed_codes |-> Q, key_references |-> counted(s.key_references, ToSet(names), step),
             joystick_references |-> counted(s.joystick_references, controls(code), step),
             key_order |-> r.key_order, joystick |-> r.joystick]
    <3> HIDE DEF keys, bits, names, step, Q
    <3> QED BY <1>3
  <2> HIDE DEF r, Q, names, step
  <2> QED BY <1>4, <1>8, <1>9, <1>10, <1>11, <2>1 DEF InputStates
<1>13. \A name \in Names : r.key_references[name] = Cardinality(Naming(r.pressed_codes, name))
  <2> HIDE DEF r, Q, names, step
  <2> QED BY <1>6, <1>8, <1>12
<1>14. \A bit \in KEMPSTON_BITS :
         r.joystick_references[bit] = Cardinality(Steering(r.pressed_codes, bit))
  <2> HIDE DEF r, Q, names, step
  <2> QED BY <1>7, <1>9, <1>12
<1>15. CountInv(r)
  <2> HIDE DEF r
  <2> QED BY <1>10, <1>11, <1>12, <1>13, <1>14 DEF CountInv
<1> QED BY <1>15

(***************************************************************************)
(* Frames, and what they do to the machine.                                *)
(***************************************************************************)
KeyFrames(pressed) == {key_frame(name, pressed) : name \in Names}
JoystickFrames == {<<74, m>> : m \in 0 .. 31}
Frames(pressed) == KeyFrames(pressed) \union JoystickFrames

AnyFrame == UNION {Frames(pressed) : pressed \in BOOLEAN}

\* The keys that frames are about.
Named(frames) == {frames[i][2] : i \in {j \in DOMAIN frames : frames[j][1] = 75}}

\* Whoever holds joystick f.joystick and takes the frames ends up with joystick m.
Steers(frames, f, m) ==
  /\ \A i \in DOMAIN frames : frames[i][1] = 74 => frames[i][2] = m
  /\ (\A i \in DOMAIN frames : frames[i][1] # 74) => f.joystick = m

\* A mask has five bits.
LEMMA MaskRange == \A bits : mask(bits) \in 0 .. 31 /\ mask({}) = 0
  BY DEF mask

\* The frames of one transition, from the old joystick to the new, name what changed.
LEMMA AppliedFrames ==
  ASSUME NEW s, CountInv(s), NEW code \in KnownCodes, NEW pressed \in BOOLEAN,
         pressed # (code \in s.pressed_codes), NEW f, f.joystick = mask(s.joystick)
  PROVE  LET r == applied(s, code, pressed)
         IN  /\ r.frames \in Seq(Frames(pressed))
             /\ Steers(r.frames, f, mask(r.state.joystick))
             /\ ToSet(r.state.key_order) = IF pressed THEN ToSet(s.key_order) \union Named(r.frames)
                                           ELSE ToSet(s.key_order) \ Named(r.frames)
<1> DEFINE step == IF pressed THEN 1 ELSE -1
           names == IF pressed THEN key_names(code) ELSE Reverse(key_names(code))
           keys == changed(s.key_references, names, step)
           bits == {bit \in controls(code) :
                      s.joystick_references[bit] = 0 \/ s.joystick_references[bit] + step = 0}
           r == applied(s, code, pressed)
           m == mask(r.state.joystick)
           first == IF bits = {} THEN <<>> ELSE << <<74, m>> >>
           second == [i \in DOMAIN keys |-> key_frame(keys[i], pressed)]
<1>1. /\ s.key_order \in Seq(Names)
      /\ names \in Seq(Names)
  BY Tables, ReverseSet DEF CountInv, InputStates
<1>2. /\ r.state.joystick = IF pressed THEN s.joystick \union bits ELSE s.joystick \ bits
      /\ r.state.key_order = IF pressed THEN s.key_order \o keys
                             ELSE among(s.key_order, Names \ ToSet(keys))
      /\ r.frames = (IF bits = {} THEN <<>> ELSE << joystick_frame(r.state.joystick) >>) \o second
  <2> HIDE DEF keys, names, bits
  <2> QED BY DEF applied, keys, names, bits
<1>3. r.frames = first \o second
  <2> HIDE DEF bits, second, r
  <2> QED BY <1>2 DEF joystick_frame
<1>4. keys \in Seq(Names)
  <2> HIDE DEF names, step
  <2> QED BY <1>1, AmongIs DEF changed
<1>5. m \in 0 .. 31
  BY MaskRange
<1>6. first \in Seq(JoystickFrames) /\ second \in Seq(KeyFrames(pressed))
  <2>1. second \in Seq(KeyFrames(pressed))
    <3>1. Len(keys) \in Nat /\ DOMAIN keys = 1 .. Len(keys) /\ \A i \in 1 .. Len(keys) : keys[i] \in Names
      <4> HIDE DEF keys
      <4> QED BY <1>4
    <3> HIDE DEF keys
    <3> QED BY <3>1 DEF KeyFrames
  <2>2. <<74, m>> \in JoystickFrames
    <3> HIDE DEF m
    <3> QED BY <1>5 DEF JoystickFrames
  <2>3. first \in Seq(JoystickFrames)
    <3> HIDE DEF bits, m
    <3> QED BY <2>2
  <2> QED BY <2>1, <2>3
<1>7. /\ r.frames \in Seq(Frames(pressed)) /\ ToSet(r.frames) = ToSet(first) \union ToSet(second)
  <2> HIDE DEF first, second, r
  <2>1. first \in Seq(Frames(pressed)) /\ second \in Seq(Frames(pressed))
    BY <1>6 DEF Frames
  <2> QED BY <1>3, <2>1, ConcatSet
<1>8. ToSet(second) = {key_frame(name, pressed) : name \in ToSet(keys)}
  <2>1. DOMAIN second = DOMAIN keys
    BY DEF ToSet
  <2> HIDE DEF keys
  <2> QED BY <2>1 DEF ToSet
<1>9. ToSet(first) = IF bits = {} THEN {} ELSE {<<74, m>>}
  <2> HIDE DEF bits, m
  <2> QED BY DEF ToSet
<1>10. ToSet(r.frames) = (IF bits = {} THEN {} ELSE {<<74, m>>})
                           \union {key_frame(name, pressed) : name \in ToSet(keys)}
  <2> HIDE DEF r, first, second, bits, m, keys
  <2> QED BY <1>7, <1>8, <1>9
<1>11. Named(r.frames) = {x[2] : x \in {y \in ToSet(r.frames) : y[1] = 75}}
  <2> HIDE DEF r
  <2> QED BY DEF Named, ToSet
<1>12. Named(r.frames) = ToSet(keys)
  <2>1. \A name : key_frame(name, pressed)[1] = 75 /\ key_frame(name, pressed)[2] = name
    BY DEF key_frame
  <2>2. <<74, m>>[1] = 74
    OBVIOUS
  <2> HIDE DEF r, bits, m, keys
  <2> QED BY <1>10, <1>11, <2>1, <2>2
<1>13. /\ \A x \in ToSet(r.frames) : x[1] = 74 => x[2] = m
       /\ (\A x \in ToSet(r.frames) : x[1] # 74) => bits = {}
  <2>1. \A name : key_frame(name, pressed)[1] = 75
    BY DEF key_frame
  <2>2. <<74, m>>[1] = 74 /\ <<74, m>>[2] = m
    OBVIOUS
  <2> HIDE DEF r, bits, m, keys
  <2>3. ASSUME NEW x \in ToSet(r.frames) PROVE x[1] = 74 => x[2] = m
    <3>1. x = <<74, m>> \/ \E name : x = key_frame(name, pressed)
      BY <1>10
    <3> QED BY <2>1, <2>2, <3>1
  <2>4. ASSUME bits # {} PROVE \E x \in ToSet(r.frames) : x[1] = 74
    <3>1. <<74, m>> \in ToSet(r.frames)
      BY <1>10, <2>4
    <3> QED BY <2>2, <3>1
  <2> QED BY <2>3, <2>4
<1>14. bits = {} => m = mask(s.joystick)
  <2> HIDE DEF bits
  <2>1. bits = {} => r.state.joystick = s.joystick
    <3> HIDE DEF r
    <3> QED BY <1>2
  <2> QED BY <2>1
<1>15. Steers(r.frames, f, m)
  <2>1. \A i \in DOMAIN r.frames : r.frames[i] \in ToSet(r.frames)
    BY DEF ToSet
  <2>2. \A x \in ToSet(r.frames) : \E i \in DOMAIN r.frames : x = r.frames[i]
    BY DEF ToSet
  <2> HIDE DEF r, bits, m
  <2> QED BY <1>13, <1>14, <2>1, <2>2 DEF Steers
<1>16. ToSet(r.state.key_order) = IF pressed THEN ToSet(s.key_order) \union ToSet(keys)
                                  ELSE ToSet(s.key_order) \ ToSet(keys)
  <2>1. CASE pressed
    <3> HIDE DEF r, keys
    <3> QED BY <1>1, <1>2, <1>4, <2>1, ConcatSet
  <2>2. CASE ~pressed
    <3>1. ToSet(s.key_order) \subseteq Names
      BY <1>1 DEF ToSet
    <3> HIDE DEF r, keys
    <3> QED BY <1>1, <1>2, <2>2, <3>1, AmongIs
  <2> QED BY <2>1, <2>2
<1> HIDE DEF keys, m, bits, names, step, first, second
<1> QED BY <1>7, <1>12, <1>15, <1>16 DEF m

\* release_all leads a machine that holds what the bridge holds back to neutral.
LEMMA ReleaseFrames ==
  ASSUME NEW s, CountInv(s), NEW f, NEW off \in BOOLEAN, off = FALSE
  PROVE  /\ release_all(s) \in Seq(Frames(off))
         /\ Steers(release_all(s), f, 0)
         /\ Named(release_all(s)) = ToSet(s.key_order)
<1> DEFINE order == s.key_order
           back == Reverse(order)
           first == [i \in DOMAIN order |-> key_frame(back[i], off)]
           last == << <<74, 0>> >>
           all == release_all(s)
<1>1. /\ order \in Seq(Names) /\ back \in Seq(Names) /\ Len(back) = Len(order)
      /\ ToSet(back) = ToSet(order)
  BY ReverseSet DEF CountInv, InputStates
<1>2. DOMAIN order = 1 .. Len(order) /\ DOMAIN back = 1 .. Len(order) /\ Len(order) \in Nat
  <2> HIDE DEF back, order
  <2> QED BY <1>1
<1>3. all = first \o last
  <2>1. all = first \o << joystick_frame({}) >>
    BY Zenon DEF release_all
  <2>2. joystick_frame({}) = <<74, 0>>
    BY MaskRange DEF joystick_frame
  <2> HIDE DEF all, first
  <2> QED BY <2>1, <2>2
<1>4. first \in Seq(KeyFrames(off))
  <2> HIDE DEF back, order
  <2>1. \A i \in 1 .. Len(order) : back[i] \in Names
    BY <1>1, <1>2
  <2> QED BY <1>2, <2>1 DEF KeyFrames
<1>5. ToSet(first) = {key_frame(name, off) : name \in ToSet(order)}
  <2> HIDE DEF back, order
  <2>1. DOMAIN first = DOMAIN back
    BY <1>2
  <2>2. ToSet(first) = {key_frame(back[i], off) : i \in DOMAIN back}
    BY <1>2, <2>1 DEF ToSet
  <2>3. ToSet(order) = {back[i] : i \in DOMAIN back}
    BY <1>1 DEF ToSet
  <2> QED BY <2>2, <2>3
<1>6. last \in Seq(JoystickFrames) /\ ToSet(last) = {<<74, 0>>}
  BY DEF JoystickFrames, ToSet
<1>7. all \in Seq(Frames(off)) /\ ToSet(all) = {key_frame(name, off) : name \in ToSet(order)} \union {<<74, 0>>}
  <2> HIDE DEF first, last, all, order
  <2>1. first \in Seq(Frames(off)) /\ last \in Seq(Frames(off))
    BY <1>4, <1>6 DEF Frames
  <2> QED BY <1>3, <1>5, <1>6, <2>1, ConcatSet
<1>8. \A name : key_frame(name, off)[1] = 75 /\ key_frame(name, off)[2] = name
  BY DEF key_frame
<1>9. <<74, 0>>[1] = 74 /\ <<74, 0>>[2] = 0
  OBVIOUS
<1>10. Named(all) = {x[2] : x \in {y \in ToSet(all) : y[1] = 75}}
  <2> HIDE DEF all
  <2> QED BY DEF Named, ToSet
<1>11. Named(all) = ToSet(order)
  <2> HIDE DEF all, order
  <2> QED BY <1>7, <1>8, <1>9, <1>10
<1>12. Steers(all, f, 0)
  <2> HIDE DEF all, order
  <2>1. \A i \in DOMAIN all : all[i] \in ToSet(all)
    BY DEF ToSet
  <2>2. \A x \in ToSet(all) : \E i \in DOMAIN all : x = all[i]
    BY DEF ToSet
  <2>3. ASSUME NEW x \in ToSet(all) PROVE x[1] = 74 => x[2] = 0
    <3>1. x = <<74, 0>> \/ \E name : x = key_frame(name, off)
      BY <1>7
    <3> QED BY <1>8, <1>9, <3>1
  <2>4. \E x \in ToSet(all) : x[1] = 74
    BY <1>7, <1>9
  <2> QED BY <2>1, <2>2, <2>3, <2>4 DEF Steers
<1> QED BY <1>7, <1>11, <1>12

\* The machine's reader of live inputs, from any state.
Inputs ==
  [state : {"COMMAND", "KEY", "KEY_VALUE", "JOYSTICK"}, key_index : Int, keys : SUBSET Int, joystick : Int]

Reads(f, byte) ==
  CASE f.state = "COMMAND" ->
         [f EXCEPT !.state = CASE byte = 75 -> "KEY" [] byte = 74 -> "JOYSTICK" [] OTHER -> "COMMAND"]
    [] f.state = "KEY" -> [f EXCEPT !.key_index = byte, !.state = "KEY_VALUE"]
    [] f.state = "KEY_VALUE" ->
         [f EXCEPT !.state = "COMMAND",
                   !.keys = CASE byte = 1 /\ f.key_index < 40 -> @ \union {f.key_index}
                              [] byte = 0 -> @ \ {f.key_index}
                              [] OTHER -> @]
    [] OTHER -> [f EXCEPT !.joystick = byte % 32, !.state = "COMMAND"]

\* The live inputs read a byte from the state they are in.
LEMMA InputReads == \A byte : InputByte(byte) = Reads(input, byte)
  BY DEF InputByte, Reads

\* A whole frame of a key, and one of the joystick, in the bytes they are made of.
LEMMA KeyRead ==
  ASSUME NEW f \in Inputs, f.state = "COMMAND", NEW name \in Names, NEW pressed \in BOOLEAN
  PROVE  LET h == Reads(Reads(Reads(f, 75), name), IF pressed THEN 1 ELSE 0)
         IN  /\ Reads(f, 75) \in Inputs /\ Reads(Reads(f, 75), name) \in Inputs
             /\ h \in Inputs /\ h.state = "COMMAND" /\ h.joystick = f.joystick
             /\ pressed => h.keys = f.keys \union {name}
             /\ ~pressed => h.keys = f.keys \ {name}
<1>1. name \in Int /\ name < 40
  BY DEF Names, CAPS_SHIFT, ZERO, SYMBOL_SHIFT
<1>2. f = [state |-> "COMMAND", key_index |-> f.key_index, keys |-> f.keys, joystick |-> f.joystick]
      /\ f.key_index \in Int /\ f.keys \subseteq Int /\ f.joystick \in Int
  BY DEF Inputs
<1>3. Reads(f, 75) = [state |-> "KEY", key_index |-> f.key_index, keys |-> f.keys, joystick |-> f.joystick]
  BY <1>2 DEF Reads
<1>4. Reads(Reads(f, 75), name)
        = [state |-> "KEY_VALUE", key_index |-> name, keys |-> f.keys, joystick |-> f.joystick]
  <2> DEFINE key == Reads(f, 75)
  <2>1. key = [state |-> "KEY", key_index |-> f.key_index, keys |-> f.keys, joystick |-> f.joystick]
    BY <1>3
  <2> HIDE DEF key
  <2>2. Reads(key, name) = [key EXCEPT !.key_index = name, !.state = "KEY_VALUE"]
    BY <2>1 DEF Reads
  <2>3. Reads(key, name)
          = [state |-> "KEY_VALUE", key_index |-> name, keys |-> f.keys, joystick |-> f.joystick]
    BY <2>1, <2>2
  <2> QED BY <2>3 DEF key
<1>5. Reads(Reads(Reads(f, 75), name), IF pressed THEN 1 ELSE 0)
        = [state |-> "COMMAND", key_index |-> name, joystick |-> f.joystick,
           keys |-> IF pressed THEN f.keys \union {name} ELSE f.keys \ {name}]
  <2> DEFINE g == Reads(Reads(f, 75), name)
             v == IF pressed THEN 1 ELSE 0
             keys == IF pressed THEN f.keys \union {name} ELSE f.keys \ {name}
  <2>1. g = [state |-> "KEY_VALUE", key_index |-> name, keys |-> f.keys, joystick |-> f.joystick]
    BY <1>4
  <2> HIDE DEF g
  <2>2. Reads(g, v) = [g EXCEPT !.state = "COMMAND", !.keys = keys]
    <3>1. CASE pressed
      <4>1. v = 1 /\ keys = f.keys \union {name}
        BY <3>1
      <4> HIDE DEF v, keys
      <4> QED BY <1>1, <2>1, <4>1 DEF Reads
    <3>2. CASE ~pressed
      <4>1. v = 0 /\ keys = f.keys \ {name}
        BY <3>2
      <4> HIDE DEF v, keys
      <4> QED BY <1>1, <2>1, <4>1 DEF Reads
    <3> QED BY <3>1, <3>2
  <2>3. Reads(g, v) = [state |-> "COMMAND", key_index |-> name, keys |-> keys, joystick |-> f.joystick]
    <3> HIDE DEF v, keys
    <3> QED BY <2>1, <2>2
  <2> QED BY <2>3 DEF g
<1> QED BY <1>1, <1>2, <1>3, <1>4, <1>5 DEF Inputs

\* A whole frame of the joystick sets all its directions.
LEMMA JoystickRead ==
  ASSUME NEW f \in Inputs, f.state = "COMMAND", NEW m \in 0 .. 31
  PROVE  /\ Reads(f, 74) \in Inputs /\ Reads(Reads(f, 74), m) \in Inputs
         /\ Reads(Reads(f, 74), m).state = "COMMAND" /\ Reads(Reads(f, 74), m).joystick = m
         /\ Reads(Reads(f, 74), m).keys = f.keys
<1>1. f = [state |-> "COMMAND", key_index |-> f.key_index, keys |-> f.keys, joystick |-> f.joystick]
      /\ f.key_index \in Int /\ f.keys \subseteq Int /\ f.joystick \in Int
  BY DEF Inputs
<1>2. Reads(f, 74) = [state |-> "JOYSTICK", key_index |-> f.key_index, keys |-> f.keys, joystick |-> f.joystick]
  BY <1>1 DEF Reads
<1>3. m % 32 = m
  OBVIOUS
<1>4. Reads(Reads(f, 74), m)
        = [state |-> "COMMAND", key_index |-> f.key_index, keys |-> f.keys, joystick |-> m]
  <2> DEFINE g == Reads(f, 74)
  <2>1. g = [state |-> "JOYSTICK", key_index |-> f.key_index, keys |-> f.keys, joystick |-> f.joystick]
    BY <1>2
  <2> HIDE DEF g
  <2>2. Reads(g, m) = [g EXCEPT !.joystick = m, !.state = "COMMAND"]
    BY <1>3, <2>1 DEF Reads
  <2>3. Reads(g, m)
          = [state |-> "COMMAND", key_index |-> f.key_index, keys |-> f.keys, joystick |-> m]
    BY <2>1, <2>2
  <2> QED BY <2>3 DEF g
<1>5. Reads(f, 74) \in Inputs
  BY <1>1, <1>2 DEF Inputs
<1> DEFINE h == Reads(Reads(f, 74), m)
<1>6. h = [state |-> "COMMAND", key_index |-> f.key_index, keys |-> f.keys, joystick |-> m]
  BY <1>4
<1> HIDE DEF h
<1>7. h \in Inputs /\ h.state = "COMMAND" /\ h.joystick = m /\ h.keys = f.keys
  BY <1>1, <1>6 DEF Inputs
<1> QED BY <1>5, <1>7 DEF h

\* The bytes lead the machine from state f to state g.
Trace(st, bytes, f, g) ==
  /\ st \in [0 .. Len(bytes) -> Inputs] /\ st[0] = f /\ st[Len(bytes)] = g
  /\ \A i \in 1 .. Len(bytes) : st[i] = Reads(st[i - 1], bytes[i])
Leads(bytes, f, g) == \E st : Trace(st, bytes, f, g)

\* Nothing on the line leaves the machine where it is.
LEMMA LeadsNowhere == \A f, g : /\ Leads(<<>>, f, g) => f = g
                                /\ f \in Inputs => Leads(<<>>, f, f)
<1>1. ASSUME NEW f, NEW g, Leads(<<>>, f, g) PROVE f = g
  BY <1>1 DEF Leads, Trace
<1>2. ASSUME NEW f \in Inputs PROVE Leads(<<>>, f, f)
  <2>1. Trace([i \in 0 .. 0 |-> f], <<>>, f, f)
    BY DEF Trace
  <2> QED BY <2>1 DEF Leads
<1> QED BY <1>1, <1>2

\* The first byte leads to the state from which the others go on.
LEMMA LeadsHead ==
  ASSUME NEW S, NEW bytes \in Seq(S), bytes # <<>>, NEW f, NEW g, Leads(bytes, f, g)
  PROVE  /\ Leads(Tail(bytes), Reads(f, Head(bytes)), g)
         /\ Reads(f, Head(bytes)) \in Inputs
<1> DEFINE n == Len(bytes)
           rest == Tail(bytes)
<1>1. n \in Nat \ {0} /\ Len(rest) = n - 1 /\ Head(bytes) = bytes[1]
      /\ \A i \in 1 .. n - 1 : rest[i] = bytes[i + 1]
  BY HeadTailProperties
<1>2. PICK st : Trace(st, bytes, f, g)
  BY DEF Leads
<1> HIDE DEF n, rest
<1>3. /\ st \in [0 .. n -> Inputs] /\ st[0] = f /\ st[n] = g
      /\ \A i \in 1 .. n : st[i] = Reads(st[i - 1], bytes[i])
  BY <1>2 DEF Trace, n
<1> DEFINE tr == [i \in 0 .. n - 1 |-> st[i + 1]]
<1>4. tr \in [0 .. n - 1 -> Inputs] /\ tr[n - 1] = g
  BY <1>1, <1>3
<1>5. tr[0] = Reads(f, Head(bytes)) /\ tr[0] \in Inputs
  <2>1. tr[0] = st[1] /\ st[1] = Reads(st[0], bytes[1]) /\ st[1] \in Inputs
    <3>1. 1 \in 1 .. n /\ 0 \in 0 .. n - 1 /\ 1 - 1 = 0 /\ 0 + 1 = 1 /\ 1 \in 0 .. n
      BY <1>1
    <3> QED BY <1>3, <3>1
  <2> QED BY <1>1, <1>3, <2>1
<1>6. ASSUME NEW i \in 1 .. n - 1 PROVE tr[i] = Reads(tr[i - 1], rest[i])
  <2>1. /\ i \in 0 .. n - 1 /\ i - 1 \in 0 .. n - 1 /\ i - 1 + 1 = i
        /\ i + 1 \in 1 .. n /\ i + 1 - 1 = i
    BY <1>1
  <2>2. tr[i] = st[i + 1] /\ tr[i - 1] = st[i]
    BY <2>1
  <2>3. st[i + 1] = Reads(st[i], bytes[i + 1])
    BY <1>3, <2>1
  <2> QED BY <1>1, <2>2, <2>3
<1>7. Trace(tr, rest, Reads(f, Head(bytes)), g)
  <2> HIDE DEF tr
  <2> QED BY <1>1, <1>4, <1>5, <1>6 DEF Trace
<1> HIDE DEF tr
<1> QED BY <1>5, <1>7 DEF Leads, rest

\* What is appended goes on from where the bytes before it end.
LEMMA LeadsOn ==
  ASSUME NEW S, NEW bytes \in Seq(S), NEW byte \in S, NEW f, NEW g, Leads(bytes, f, g),
         Reads(g, byte) \in Inputs
  PROVE  Leads(Append(bytes, byte), f, Reads(g, byte)) /\ Append(bytes, byte) \in Seq(S)
<1> DEFINE n == Len(bytes)
           more == Append(bytes, byte)
<1>1. n \in Nat /\ more \in Seq(S) /\ Len(more) = n + 1 /\ more[n + 1] = byte
      /\ \A i \in 1 .. n : more[i] = bytes[i]
  BY AppendProperties
<1>2. PICK st : Trace(st, bytes, f, g)
  BY DEF Leads
<1> HIDE DEF n, more
<1>3. /\ st \in [0 .. n -> Inputs] /\ st[0] = f /\ st[n] = g
      /\ \A i \in 1 .. n : st[i] = Reads(st[i - 1], bytes[i])
  BY <1>2 DEF Trace, n
<1> DEFINE tr == [i \in 0 .. n + 1 |-> IF i = n + 1 THEN Reads(g, byte) ELSE st[i]]
<1>4. \A i \in 0 .. n : i \in 0 .. n + 1 /\ i # n + 1
  BY <1>1
<1>5. \A i \in 0 .. n : tr[i] = st[i]
  BY <1>4
<1>6. tr[n + 1] = Reads(g, byte)
  BY <1>1
<1>7. tr \in [0 .. n + 1 -> Inputs]
  BY <1>1, <1>3
<1> HIDE DEF tr
<1>8. ASSUME NEW i \in 1 .. n + 1 PROVE tr[i] = Reads(tr[i - 1], more[i])
  <2>1. CASE i \in 1 .. n
    <3>1. i \in 0 .. n /\ i - 1 \in 0 .. n
      BY <1>1, <2>1
    <3> QED BY <1>1, <1>3, <1>5, <2>1, <3>1
  <2>2. CASE i = n + 1
    <3>1. n \in 0 .. n /\ i - 1 = n
      BY <1>1, <2>2
    <3> QED BY <1>1, <1>3, <1>5, <1>6, <2>2, <3>1
  <2> QED BY <1>1, <2>1, <2>2
<1>9. tr[0] = f
  BY <1>1, <1>3, <1>5
<1>10. Trace(tr, more, f, Reads(g, byte))
  BY <1>1, <1>6, <1>7, <1>8, <1>9 DEF Trace
<1> QED BY <1>1, <1>10 DEF Leads, more

(***************************************************************************)
(* What is on the line, and what the bridge has not written: a frame that  *)
(* is written leads the machine on, and its keys and joystick are those    *)
(* that are no longer to be written.                                       *)
(***************************************************************************)
Quiet == 0 .. 77

\* What a frame does to a machine between two frames.
Moves(frame, pressed, g, h) ==
  /\ h.state = "COMMAND"
  /\ frame[1] = 75 => h.joystick = g.joystick /\
       h.keys = IF pressed THEN g.keys \union {frame[2]} ELSE g.keys \ {frame[2]}
  /\ frame[1] # 75 => frame[1] = 74 /\ h.keys = g.keys /\ h.joystick = frame[2]

\* The bytes of a frame lead the machine to the state with its key or joystick set.
LEMMA FrameWritten ==
  ASSUME NEW pressed \in BOOLEAN, NEW frame \in Frames(pressed), NEW bytes \in Seq(Quiet),
         NEW f, NEW g \in Inputs, g.state = "COMMAND", Leads(bytes, f, g)
  PROVE  \E h \in Inputs :
           bytes \o frame \in Seq(Quiet) /\ Leads(bytes \o frame, f, h) /\ Moves(frame, pressed, g, h)
<1>1. CASE frame \in KeyFrames(pressed)
  <2>1. PICK name \in Names : frame = key_frame(name, pressed)
    BY <1>1 DEF KeyFrames
  <2> DEFINE v == IF pressed THEN 1 ELSE 0
             a == Reads(g, 75)
             b == Reads(a, name)
             c == Reads(b, v)
  <2>2. frame = <<75, name, v>> /\ frame[1] = 75 /\ frame[2] = name
    BY <2>1 DEF key_frame
  <2>3. 75 \in Quiet /\ name \in Quiet /\ v \in Quiet
    BY DEF Quiet, Names, CAPS_SHIFT, ZERO, SYMBOL_SHIFT
  <2>4. /\ a \in Inputs /\ b \in Inputs /\ c \in Inputs /\ c.state = "COMMAND"
        /\ c.joystick = g.joystick
        /\ c.keys = IF pressed THEN g.keys \union {name} ELSE g.keys \ {name}
    <3>1. /\ Reads(g, 75) \in Inputs /\ Reads(Reads(g, 75), name) \in Inputs
          /\ Reads(Reads(Reads(g, 75), name), IF pressed THEN 1 ELSE 0) \in Inputs
          /\ Reads(Reads(Reads(g, 75), name), IF pressed THEN 1 ELSE 0).state = "COMMAND"
          /\ Reads(Reads(Reads(g, 75), name), IF pressed THEN 1 ELSE 0).joystick = g.joystick
      BY KeyRead
    <3>2. /\ pressed => Reads(Reads(Reads(g, 75), name), IF pressed THEN 1 ELSE 0).keys = g.keys \union {name}
          /\ ~pressed => Reads(Reads(Reads(g, 75), name), IF pressed THEN 1 ELSE 0).keys = g.keys \ {name}
      BY KeyRead
    <3> QED BY <3>1, <3>2
  <2> HIDE DEF v
  <2> DEFINE one == Append(bytes, 75)
             two == Append(one, name)
             three == Append(two, v)
  <2>5. bytes \o frame = three
    BY <2>2, <2>3
  <2> HIDE DEF a
  <2>6. Leads(one, f, a) /\ one \in Seq(Quiet)
    BY <2>3, <2>4, LeadsOn DEF a
  <2> HIDE DEF b, one
  <2>7. Leads(two, f, b) /\ two \in Seq(Quiet)
    BY <2>3, <2>4, <2>6, LeadsOn DEF b
  <2> HIDE DEF c, two
  <2>8. Leads(three, f, c) /\ three \in Seq(Quiet)
    BY <2>3, <2>4, <2>7, LeadsOn DEF c
  <2> HIDE DEF three
  <2>9. Moves(frame, pressed, g, c)
    BY <2>2, <2>4 DEF Moves
  <2> QED BY <2>4, <2>5, <2>8, <2>9
<1>2. CASE frame \in JoystickFrames
  <2>1. PICK m \in 0 .. 31 : frame = <<74, m>>
    BY <1>2 DEF JoystickFrames
  <2>2. /\ Reads(g, 74) \in Inputs /\ Reads(Reads(g, 74), m) \in Inputs
        /\ Reads(Reads(g, 74), m).state = "COMMAND" /\ Reads(Reads(g, 74), m).joystick = m
        /\ Reads(Reads(g, 74), m).keys = g.keys
    BY JoystickRead
  <2> DEFINE a == Reads(g, 74)
             b == Reads(a, m)
  <2>3. frame[1] = 74 /\ frame[2] = m
    BY <2>1
  <2>4. 74 \in Quiet /\ m \in Quiet
    BY DEF Quiet
  <2>5. /\ a \in Inputs /\ b \in Inputs /\ b.state = "COMMAND"
        /\ b.joystick = m /\ b.keys = g.keys
    BY <2>2
  <2> DEFINE one == Append(bytes, 74)
             two == Append(one, m)
  <2>6. bytes \o frame = two
    BY <2>1, <2>4
  <2> HIDE DEF a
  <2>7. Leads(one, f, a) /\ one \in Seq(Quiet)
    BY <2>4, <2>5, LeadsOn DEF a
  <2> HIDE DEF b, one
  <2>8. Leads(two, f, b) /\ two \in Seq(Quiet)
    BY <2>4, <2>5, <2>7, LeadsOn DEF b
  <2> HIDE DEF two
  <2>9. Moves(frame, pressed, g, b)
    BY <2>3, <2>5 DEF Moves
  <2> QED BY <2>5, <2>6, <2>8, <2>9
<1> QED BY <1>1, <1>2 DEF Frames

\* Of frames that lead somewhere, the first leads to where the others go on.
LEMMA FirstFrame ==
  ASSUME NEW pressed \in BOOLEAN, NEW frames \in Seq(Frames(pressed)), frames # <<>>
  PROVE  /\ Head(frames) \in Frames(pressed) /\ Tail(frames) \in Seq(Frames(pressed))
         /\ Named(frames) = Named(Tail(frames)) \union
              (IF Head(frames)[1] = 75 THEN {Head(frames)[2]} ELSE {})
         /\ \A f, h, m :
              /\ Steers(frames, f, m)
              /\ IF Head(frames)[1] = 74 THEN h.joystick = Head(frames)[2] ELSE h.joystick = f.joystick
              => Steers(Tail(frames), h, m)
<1> DEFINE n == Len(frames)
           rest == Tail(frames)
<1>1. /\ n \in Nat \ {0} /\ Len(rest) = n - 1 /\ Head(frames) = frames[1]
      /\ rest \in Seq(Frames(pressed)) /\ Head(frames) \in Frames(pressed)
      /\ \A i \in 1 .. n - 1 : rest[i] = frames[i + 1]
  BY HeadTailProperties
<1>2. DOMAIN frames = 1 .. n /\ DOMAIN rest = 1 .. n - 1
  BY <1>1
<1> HIDE DEF n, rest
<1>3. \A i \in DOMAIN rest : i + 1 \in DOMAIN frames /\ rest[i] = frames[i + 1]
  BY <1>1, <1>2
<1>4. \A i \in DOMAIN frames : i = 1 \/ (i - 1 \in DOMAIN rest /\ rest[i - 1] = frames[i])
  BY <1>1, <1>2
<1>5. 1 \in DOMAIN frames
  BY <1>1, <1>2
<1>6. Named(frames) = Named(rest) \union (IF Head(frames)[1] = 75 THEN {Head(frames)[2]} ELSE {})
  <2>1. ASSUME NEW x PROVE x \in Named(frames) <=> \E i \in DOMAIN frames : frames[i][1] = 75 /\ x = frames[i][2]
    BY DEF Named
  <2>2. ASSUME NEW x PROVE x \in Named(rest) <=> \E i \in DOMAIN rest : rest[i][1] = 75 /\ x = rest[i][2]
    BY DEF Named
  <2>3. ASSUME NEW x PROVE x \in Named(frames) <=> x \in Named(rest) \/ (frames[1][1] = 75 /\ x = frames[1][2])
    <3>1. ASSUME NEW i \in DOMAIN frames, frames[i][1] = 75, x = frames[i][2]
          PROVE  x \in Named(rest) \/ (frames[1][1] = 75 /\ x = frames[1][2])
      BY <1>4, <2>2, <3>1
    <3>2. ASSUME NEW i \in DOMAIN rest, rest[i][1] = 75, x = rest[i][2]
          PROVE  x \in Named(frames)
      BY <1>3, <2>1, <3>2
    <3> QED BY <1>5, <2>1, <2>2, <3>1, <3>2
  <2> QED BY <1>1, <2>3
<1>7. ASSUME NEW f, NEW h, NEW m, Steers(frames, f, m),
             IF Head(frames)[1] = 74 THEN h.joystick = Head(frames)[2] ELSE h.joystick = f.joystick
      PROVE  Steers(rest, h, m)
  <2>1. \A i \in DOMAIN rest : rest[i][1] = 74 => rest[i][2] = m
    BY <1>3, <1>7 DEF Steers
  <2>2. ASSUME \A i \in DOMAIN rest : rest[i][1] # 74 PROVE h.joystick = m
    <3>1. CASE frames[1][1] = 74
      BY <1>1, <1>5, <1>7, <3>1 DEF Steers
    <3>2. CASE frames[1][1] # 74
      <4>1. \A i \in DOMAIN frames : frames[i][1] # 74
        BY <1>4, <2>2, <3>2
      <4> QED BY <1>1, <1>7, <3>2, <4>1 DEF Steers
    <3> QED BY <3>1, <3>2
  <2> QED BY <2>1, <2>2 DEF Steers
<1> QED BY <1>1, <1>6, <1>7 DEF rest

(***************************************************************************)
(* Packs.                                                                  *)
(***************************************************************************)
\* What the fields of a pack can be, and what is left of one that was damaged.
Checksums == {crc32(payload) : payload \in Seq(PayloadBytes)}
Items == Int \union Checksums \union {sum - 1 : sum \in Checksums}

\* The size of a payload is positive.
LEMMA PayloadSize ==
  ASSUME NEW b \in Nat
  PROVE  payload_size_for(b) \in Nat \ {0}
<1>1. BASE_PAYLOAD_SIZE \in Nat \ {0} /\ BACKGROUND_SIZE \in Nat
  BY PackAssumption
<1>2. b * BACKGROUND_SIZE \in Nat
  BY <1>1
<1> QED BY <1>1, <1>2 DEF payload_size_for

\* What build_gamepack makes passes parse_gamepack.
LEMMA BuiltPack ==
  ASSUME NEW b \in Nat, NEW payload \in Payloads(b), NEW keys \in KeyCounts, Buildable(b, keys)
  PROVE  LET pack == build_gamepack(payload, b, keys)
         IN  pack \in Seq(Int \union Checksums) /\ Len(pack) > 6 /\ pack[3] \in Nat /\ pack[6] \in Nat
             /\ parse_gamepack(pack)
<1> DEFINE size == payload_size_for(b)
           sum == crc32(payload)
           header == <<N, MAGIC, size, sum, keys, b>>
           pack == build_gamepack(payload, b, keys)
<1>1. size \in Nat \ {0}
  BY PayloadSize
<1>2. payload \in [1 .. size -> PayloadBytes]
  BY DEF Payloads
<1>3. PayloadBytes \subseteq Int /\ keys \in Int
  BY PackAssumption, HostAssumption
<1>4. sum \in Checksums
  <2>1. payload \in Seq(PayloadBytes)
    <3> HIDE DEF size
    <3> QED BY <1>1, <1>2
  <2> QED BY <2>1 DEF Checksums
<1> HIDE DEF size, sum
<1>5. payload \in Seq(Int \union Checksums) /\ Len(payload) = size
  <2>1. payload \in Seq(PayloadBytes) /\ Len(payload) = size
    BY <1>1, <1>2
  <2>2. PayloadBytes \subseteq Int \union Checksums
    BY <1>3
  <2> QED BY <2>1, <2>2, SeqMonotonic
<1>6. header \in Seq(Int \union Checksums) /\ Len(header) = 6
  BY <1>1, <1>3, <1>4 DEF N, MAGIC
<1>7. /\ header[1] = N /\ header[2] = MAGIC /\ header[3] = size /\ header[4] = sum
      /\ header[5] = keys /\ header[6] = b
  OBVIOUS
<1>8. pack = header \o payload
  BY Zenon DEF build_gamepack, size, sum
<1> HIDE DEF header, pack
<1>9. /\ pack \in Seq(Int \union Checksums) /\ Len(pack) = 6 + size
      /\ \A i \in 1 .. 6 : pack[i] = header[i]
      /\ \A i \in 1 .. size : pack[6 + i] = payload[i]
  <2>1. /\ pack \in Seq(Int \union Checksums) /\ Len(pack) = 6 + size
        /\ \A i \in 1 .. 6 + size : pack[i] = IF i <= 6 THEN header[i] ELSE payload[i - 6]
    <3>1. /\ pack \in Seq(Int \union Checksums) /\ Len(pack) = Len(header) + Len(payload)
          /\ \A i \in 1 .. Len(header) + Len(payload) :
               pack[i] = IF i <= Len(header) THEN header[i] ELSE payload[i - Len(header)]
      BY <1>5, <1>6, <1>8, ConcatProperties, Zenon
    <3> QED BY <1>5, <1>6, <3>1
  <2>2. \A i \in 1 .. 6 : i \in 1 .. 6 + size /\ i <= 6
    BY <1>1
  <2>3. \A i \in 1 .. size : 6 + i \in 1 .. 6 + size /\ ~(6 + i <= 6) /\ 6 + i - 6 = i
    BY <1>1
  <2> QED BY <2>1, <2>2, <2>3
<1>10. HeaderOf(pack) = header
  <2>1. HeaderOf(pack) \in Seq(Int \union Checksums) /\ Len(HeaderOf(pack)) = 6
        /\ \A i \in 1 .. 6 : HeaderOf(pack)[i] = header[i]
    BY <1>1, <1>9 DEF HeaderOf, HEADER_SIZE
  <2> QED BY <1>6, <2>1, SeqEqual
<1>11. PayloadOf(pack) = payload
  <2>1. PayloadOf(pack) \in Seq(Int \union Checksums) /\ Len(PayloadOf(pack)) = size
        /\ \A i \in 1 .. size : PayloadOf(pack)[i] = payload[i]
    BY <1>1, <1>9 DEF PayloadOf, HEADER_SIZE
  <2> QED BY <1>5, <2>1, SeqEqual
<1>12. HeaderGood(header)
  BY <1>7 DEF HeaderGood, Buildable, size
<1>13. parse_gamepack(pack)
  <2>1. pack[3] = size /\ pack[4] = sum
    BY <1>7, <1>9
  <2>2. Len(pack) >= HEADER_SIZE /\ Len(pack) = HEADER_SIZE + pack[3]
    BY <1>1, <1>9, <2>1 DEF HEADER_SIZE
  <2> QED BY <1>10, <1>11, <1>12, <2>1, <2>2 DEF parse_gamepack, sum
<1>14. pack[3] \in Nat /\ pack[6] \in Nat /\ Len(pack) > 6
  BY <1>1, <1>7, <1>9
<1> QED BY <1>9, <1>13, <1>14 DEF pack

\* So does every pack that is sent.
LEMMA PackFacts ==
  ASSUME NEW pack \in Packs
  PROVE  /\ pack \in Seq(Int \union Checksums) /\ Len(pack) > 6 /\ pack[3] \in Nat /\ pack[6] \in Nat
         /\ parse_gamepack(pack)
<1>1. PICK b \in 0 .. MAX_BACKGROUNDS + 1 :
        pack \in {build_gamepack(payload, b, keys) : payload \in Payloads(b),
                                                     keys \in {k \in KeyCounts : Buildable(b, k)}}
  BY DEF Packs
<1>2. PICK payload \in Payloads(b), keys \in KeyCounts :
        Buildable(b, keys) /\ pack = build_gamepack(payload, b, keys)
  BY <1>1
<1>3. b \in Nat
  BY PackAssumption
<1> QED BY <1>2, <1>3, BuiltPack

\* An image of a pack, damaged or not.
LEMMA ImageFacts ==
  ASSUME NEW pack \in Packs, NEW image \in Damaged(pack) \union {pack}
  PROVE  image \in Seq(Items) /\ (Len(image) >= 6 => image[3] \in Int /\ image[6] \in Nat)
<1>1. /\ pack \in Seq(Int \union Checksums) /\ Len(pack) > 6 /\ Len(pack) \in Nat /\ pack[3] \in Int /\ pack[6] \in Nat
      /\ pack \in Seq(Items)
  <2>1. pack \in Seq(Int \union Checksums) /\ Len(pack) > 6 /\ pack[3] \in Nat /\ pack[6] \in Nat
    BY PackFacts
  <2> QED BY <2>1 DEF Items
<1>2. CASE image = pack
  BY <1>1, <1>2
<1>3. ASSUME NEW length \in 1 .. Len(pack) - 1, image = SubSeq(pack, 1, length)
      PROVE  image \in Seq(Items) /\ (Len(image) >= 6 => image[3] \in Int /\ image[6] \in Nat)
  BY <1>1, <1>3
<1>4. CASE image = Append(pack, 0)
  <2>1. 0 \in Items
    BY DEF Items
  <2> QED BY <1>1, <1>4, <2>1
<1>5. ASSUME NEW i \in DOMAIN pack,
             image = [pack EXCEPT ![i] = IF pack[i] = 0 THEN 1 ELSE pack[i] - 1]
      PROVE  image \in Seq(Items) /\ (Len(image) >= 6 => image[3] \in Int /\ image[6] \in Nat)
  <2> DEFINE x == IF pack[i] = 0 THEN 1 ELSE pack[i] - 1
  <2>1. pack[i] \in Int \union Checksums /\ i \in 1 .. Len(pack)
    BY <1>1
  <2>2. x \in Items
    BY <2>1 DEF Items
  <2>3. (pack[i] \in Int => x \in Int) /\ (pack[i] \in Nat => x \in Nat)
    OBVIOUS
  <2>4. image = [pack EXCEPT ![i] = x]
    BY <1>5
  <2> HIDE DEF x
  <2>5. image \in Seq(Items)
    BY <1>1, <2>1, <2>2, <2>4, ExceptSeq
  <2>6. image[3] \in Int /\ image[6] \in Nat
    <3>1. DOMAIN pack = 1 .. Len(pack) /\ 3 \in DOMAIN pack /\ 6 \in DOMAIN pack
      BY <1>1
    <3>2. image[3] = (IF i = 3 THEN x ELSE pack[3]) /\ image[6] = (IF i = 6 THEN x ELSE pack[6])
      BY <2>4, <3>1
    <3> QED BY <1>1, <2>3, <3>2
  <2> QED BY <2>5, <2>6
<1> QED BY <1>2, <1>3, <1>4, <1>5 DEF Damaged

\* No frames change nothing.
LEMMA NoFrames ==
  /\ Named(<<>>) = {}
  /\ \A f, m : Steers(<<>>, f, m) <=> f.joystick = m
  BY DEF Named, Steers

\* What an event of the keyboard does, to the counts and to the machine.
Down(down, code, value) ==
  CASE value = 1 -> down \union {code} [] value = 0 -> down \ {code} [] OTHER -> down

\* The frames bring a machine that held what s holds to what the new state holds.
Brings(r, s, pressed) ==
  /\ r.frames \in Seq(Frames(pressed))
  /\ \A f : f.joystick = mask(s.joystick) => Steers(r.frames, f, mask(r.state.joystick))
  /\ ToSet(r.state.key_order) = IF pressed THEN ToSet(s.key_order) \union Named(r.frames)
                               ELSE ToSet(s.key_order) \ Named(r.frames)

\* What handle returns: an event adds or removes the keys its frames name.
LEMMA HandleFacts ==
  ASSUME NEW s, CountInv(s), NEW down, s.pressed_codes = down \cap KnownCodes,
         NEW code, NEW value \in 0 .. 2, NEW r, r = handle(s, code, value)
  PROVE  /\ r = [state |-> r.state, frames |-> r.frames]
         /\ CountInv(r.state) /\ r.state.pressed_codes = Down(down, code, value) \cap KnownCodes
         /\ \E pressed \in BOOLEAN : Brings(r, s, pressed)
<1> DEFINE pressed == value = 1
           q == applied(s, code, pressed)
<1>1. CASE value \in {0, 1} /\ code \in KnownCodes /\ pressed # (code \in s.pressed_codes)
  <2>1. r = q /\ pressed \in BOOLEAN
    BY <1>1 DEF handle
  <2>2. q = [state |-> q.state, frames |-> q.frames]
        /\ q.state.pressed_codes = IF pressed THEN s.pressed_codes \union {code} ELSE s.pressed_codes \ {code}
    BY DEF applied
  <2>3. q.state.pressed_codes = Down(down, code, value) \cap KnownCodes
    <3>1. CASE value = 1
      <4> HIDE DEF q
      <4> QED BY <1>1, <2>2, <3>1 DEF Down
    <3>2. CASE value = 0
      <4> HIDE DEF q
      <4> QED BY <1>1, <2>2, <3>2 DEF Down
    <3> QED BY <1>1, <3>1, <3>2
  <2>4. CountInv(q.state)
    <3> HIDE DEF pressed
    <3> QED BY <1>1, <2>1, AppliedCounts
  <2>5. /\ \A f : f.joystick = mask(s.joystick) => Steers(q.frames, f, mask(q.state.joystick))
    <3> SUFFICES ASSUME NEW f, f.joystick = mask(s.joystick) PROVE Steers(q.frames, f, mask(q.state.joystick))
      OBVIOUS
    <3> HIDE DEF pressed
    <3> QED BY <1>1, <2>1, AppliedFrames
  <2>6. /\ q.frames \in Seq(Frames(pressed))
        /\ ToSet(q.state.key_order) =
             IF pressed THEN ToSet(s.key_order) \union Named(q.frames)
             ELSE ToSet(s.key_order) \ Named(q.frames)
    <3> DEFINE f == [joystick |-> mask(s.joystick)]
    <3>1. f.joystick = mask(s.joystick)
      OBVIOUS
    <3> HIDE DEF pressed, f
    <3> QED BY <1>1, <2>1, <3>1, AppliedFrames
  <2> HIDE DEF q, pressed
  <2>7. /\ r = [state |-> r.state, frames |-> r.frames]
        /\ CountInv(r.state) /\ r.state.pressed_codes = Down(down, code, value) \cap KnownCodes
    BY <2>1, <2>2, <2>3, <2>4
  <2>8. /\ r.frames \in Seq(Frames(pressed))
        /\ \A f : f.joystick = mask(s.joystick) => Steers(r.frames, f, mask(r.state.joystick))
        /\ ToSet(r.state.key_order) =
             IF pressed THEN ToSet(s.key_order) \union Named(r.frames)
             ELSE ToSet(s.key_order) \ Named(r.frames)
    BY <2>1, <2>5, <2>6
  <2> QED BY <2>1, <2>7, <2>8 DEF Brings
<1>2. CASE ~(value \in {0, 1} /\ code \in KnownCodes /\ pressed # (code \in s.pressed_codes))
  <2>1. r = [state |-> s, frames |-> <<>>]
    BY <1>2 DEF handle
  <2>2. s.pressed_codes = Down(down, code, value) \cap KnownCodes
    <3>1. CASE value = 1
      BY <1>2, <3>1 DEF Down
    <3>2. CASE value = 0
      BY <1>2, <3>2 DEF Down
    <3>3. CASE value = 2
      BY <3>3 DEF Down
    <3> QED BY <3>1, <3>2, <3>3
  <2>3. r.state = s /\ r.frames = <<>> /\ r.frames \in Seq(Frames(TRUE))
    BY <2>1
  <2>4. ToSet(r.state.key_order) = ToSet(s.key_order) \union Named(r.frames)
    BY <2>3, NoFrames
  <2>5. \A f : f.joystick = mask(s.joystick) => Steers(r.frames, f, mask(r.state.joystick))
    BY <2>3, NoFrames
  <2>6. r = [state |-> r.state, frames |-> r.frames]
    BY <2>1
  <2> DEFINE on == TRUE
  <2>7. on \in BOOLEAN /\ (on <=> TRUE)
    OBVIOUS
  <2> HIDE DEF on
  <2>8. r.frames \in Seq(Frames(on)) /\ r.frames = <<>>
    BY <2>3
  <2>9. Brings(r, s, on)
    BY <2>4, <2>5, <2>7, <2>8 DEF Brings
  <2> QED BY <2>2, <2>3, <2>6, <2>7, <2>9
<1> QED BY <1>1, <1>2

(***************************************************************************)
(* Types, and what the parts of the state always agree on.                 *)
(***************************************************************************)
Tools == {"none", "send", "wait", "bridge", "release"}
Results == {"none", "invalid", "broken", "rejected", "accepted", "timeout"}
Lines == [p : BOOLEAN, y : BOOLEAN]
Loaders ==
  [state : {"HEADER", "PAYLOAD", "DONE", "FAULT"}, header : Seq(Items), payload : Seq(Items),
   ready : BOOLEAN, fault : BOOLEAN]

Hosts == [tool : Tools, left : Seq(Items), content : Seq(Items), result : Results]
Bridges == [state : InputStates, frames : Seq(AnyFrame)]
Ghosts ==
  [lost : Nat, sends : Nat, intact : BOOLEAN, events : Nat, midway : BOOLEAN,
   clean : BOOLEAN, down : SUBSET Int, unwritten : SUBSET Int]

HostTypes ==
  /\ host \in Hosts
  /\ wire \in Seq(Items) /\ inbox \in Seq(Lines)
  /\ loader \in Loaders
  /\ ghost \in Ghosts
  /\ bridge \in Bridges

\* The flags of the loader say what its state is; a header is taken before the payload.
LoaderInv ==
  /\ loader.ready <=> loader.state = "DONE"
  /\ loader.fault <=> loader.state = "FAULT"
  /\ loader.state = "HEADER" => loader.payload = <<>>

\* The bridge counts the known keys that are down, and leaves no frame to another tool.
BridgeInv ==
  /\ CountInv(bridge.state)
  /\ bridge.state.pressed_codes = ghost.down \cap KnownCodes
  /\ host.tool \in {"none", "send", "wait"} => bridge.frames = <<>>

TypesInv == HostTypes /\ LoaderInv /\ BridgeInv

\* A bridge that has handled nothing.
LEMMA ClosedFacts ==
  /\ Closed \in Bridges
  /\ CountInv(Closed.state) /\ Closed.state.pressed_codes = {} /\ Closed.frames = <<>>
  /\ Closed.state.key_order = <<>> /\ Closed.state.joystick = {}
<1>1. InputState \in InputStates
  <2>1. /\ [name \in Names |-> 0] \in [Names -> Nat]
        /\ [bit \in KEMPSTON_BITS |-> 0] \in [KEMPSTON_BITS -> Nat]
        /\ <<>> \in Seq(Names)
    OBVIOUS
  <2> QED BY <2>1 DEF InputState, InputStates
<1>2. CountInv(InputState)
  <2>1. \A x : Naming({}, x) = {} /\ Steering({}, x) = {}
    BY DEF Naming, Steering
  <2>2. Cardinality({}) = 0
    BY FS_EmptySet
  <2>3. /\ InputState.pressed_codes = {} /\ InputState.key_order = <<>> /\ InputState.joystick = {}
        /\ \A name \in Names : InputState.key_references[name] = 0
        /\ \A bit \in KEMPSTON_BITS : InputState.joystick_references[bit] = 0
    BY DEF InputState
  <2>4. ToSet(<<>>) = {}
    BY DEF ToSet
  <2> DEFINE s == InputState
  <2> HIDE DEF s
  <2>5. \A name \in Names : s.key_references[name] = Cardinality(Naming(s.pressed_codes, name))
    BY <2>1, <2>2, <2>3 DEF s
  <2>6. \A bit \in KEMPSTON_BITS : s.joystick_references[bit] = Cardinality(Steering(s.pressed_codes, bit))
    BY <2>1, <2>2, <2>3 DEF s
  <2>7. ToSet(s.key_order) = {name \in Names : s.key_references[name] > 0}
    BY <2>3, <2>4 DEF s
  <2>8. s.joystick = {bit \in KEMPSTON_BITS : s.joystick_references[bit] > 0}
    BY <2>3 DEF s
  <2>9. CountInv(s)
    BY <1>1, <2>5, <2>6, <2>7, <2>8 DEF CountInv, s
  <2> QED BY <2>9 DEF s
<1> QED BY <1>1, <1>2 DEF Closed, InputState, Bridges

\* Frames are sequences of bytes.
LEMMA FrameItems == \A frame \in AnyFrame : frame \in Seq(Items)
<1> SUFFICES ASSUME NEW frame \in AnyFrame PROVE frame \in Seq(Items)
  OBVIOUS
<1>1. Int \subseteq Items
  BY DEF Items
<1>2. Names \subseteq Int
  BY DEF Names, CAPS_SHIFT, ZERO, SYMBOL_SHIFT
<1>3. ASSUME NEW pressed \in BOOLEAN, frame \in Frames(pressed) PROVE frame \in Seq(Items)
  <2>1. ASSUME NEW a \in Int, NEW b \in Int, NEW c \in Int PROVE <<a, b>> \in Seq(Items) /\ <<a, b, c>> \in Seq(Items)
    BY <1>1
  <2>2. CASE frame \in KeyFrames(pressed)
    <3>1. PICK name \in Names : frame = <<75, name, IF pressed THEN 1 ELSE 0>>
      BY <2>2 DEF KeyFrames, key_frame
    <3>2. name \in Int /\ (IF pressed THEN 1 ELSE 0) \in Int
      BY <1>2
    <3> QED BY <2>1, <3>1, <3>2
  <2>3. CASE frame \in JoystickFrames
    <3>1. PICK m \in 0 .. 31 : frame = <<74, m>>
      BY <2>3 DEF JoystickFrames
    <3> QED BY <2>1, <3>1
  <2> QED BY <1>3, <2>2, <2>3 DEF Frames
<1> QED BY <1>3 DEF AnyFrame

\* A byte leaves the loader in order.
LEMMA LoaderByteType ==
  ASSUME loader \in Loaders, LoaderInv, NEW byte \in Items
  PROVE  LET next == LoaderByte(byte)
         IN  /\ next \in Loaders
             /\ next.ready <=> next.state = "DONE"
             /\ next.fault <=> next.state = "FAULT"
             /\ next.state = "HEADER" => next.payload = <<>>
<1>1. /\ loader = [state |-> loader.state, header |-> loader.header, payload |-> loader.payload,
                   ready |-> loader.ready, fault |-> loader.fault]
      /\ loader.header \in Seq(Items) /\ loader.payload \in Seq(Items)
      /\ loader.state \in {"HEADER", "PAYLOAD", "DONE", "FAULT"}
      /\ loader.ready \in BOOLEAN /\ loader.fault \in BOOLEAN
  BY DEF Loaders
<1>2. CASE loader.state = "HEADER"
  <2> DEFINE header == Normal(Append(loader.header, byte))
  <2>1. header \in Seq(Items)
    <3> DEFINE taken == Append(loader.header, byte)
    <3>1. taken \in Seq(Items)
      BY <1>1
    <3>2. [i \in DOMAIN taken |-> 0] \in Seq(Items)
      <4>1. 0 \in Items
        BY DEF Items
      <4> HIDE DEF taken
      <4> QED BY <3>1, <4>1
    <3> HIDE DEF taken
    <3>3. Normal(taken) = taken \/ Normal(taken) = [i \in DOMAIN taken |-> 0]
      BY DEF Normal
    <3> QED BY <3>1, <3>2, <3>3 DEF taken
  <2> HIDE DEF header
  <2>2. /\ loader.payload = <<>> /\ ~loader.ready /\ ~loader.fault
        /\ LoaderByte(byte) = CASE Len(header) < HEADER_SIZE -> [loader EXCEPT !.header = header]
             [] Len(header) = HEADER_SIZE /\ HeaderGood(header) ->
                  [loader EXCEPT !.header = header, !.state = "PAYLOAD"]
             [] OTHER -> Faulted
    BY <1>2 DEF LoaderInv, LoaderByte, HeaderByte, header
  <2>3. \/ LoaderByte(byte) = [loader EXCEPT !.header = header]
        \/ LoaderByte(byte) = [loader EXCEPT !.header = header, !.state = "PAYLOAD"]
        \/ LoaderByte(byte) = Faulted
    BY <2>2
  <2> QED BY <1>1, <1>2, <2>1, <2>2, <2>3 DEF Loaders, Faulted
<1>3. CASE loader.state = "PAYLOAD"
  <2> DEFINE payload == Append(loader.payload, byte)
  <2>1. payload \in Seq(Items) /\ ~loader.ready /\ ~loader.fault
    BY <1>1, <1>3 DEF LoaderInv
  <2>2. \/ LoaderByte(byte) = [loader EXCEPT !.payload = payload]
        \/ LoaderByte(byte) = [loader EXCEPT !.payload = payload, !.state = "DONE", !.ready = TRUE]
        \/ LoaderByte(byte) = [Faulted EXCEPT !.payload = payload]
    BY <1>3 DEF LoaderByte, PayloadByte
  <2> HIDE DEF payload
  <2> QED BY <1>1, <1>3, <2>1, <2>2 DEF Loaders, Faulted
<1>4. CASE loader.state \in {"DONE", "FAULT"}
  <2>1. LoaderByte(byte) = IF byte = N THEN [LoaderReset EXCEPT !.header = <<N>>] ELSE loader
    BY <1>4 DEF LoaderByte, Restart
  <2>2. <<N>> \in Seq(Items) /\ <<>> \in Seq(Items)
    BY DEF Items, N
  <2> DEFINE first == <<N>>
  <2> HIDE DEF first
  <2>3. [LoaderReset EXCEPT !.header = first] = [state |-> "HEADER", header |-> first,
             payload |-> <<>>, ready |-> FALSE, fault |-> FALSE]
    <3> DEFINE r == LoaderReset
               empty == <<>>
               no == FALSE
    <3>1. r = [state |-> "HEADER", header |-> empty, payload |-> empty, ready |-> no, fault |-> no]
      BY DEF LoaderReset
    <3> HIDE DEF r, empty, no
    <3>2. [r EXCEPT !.header = first] =
            [state |-> "HEADER", header |-> first, payload |-> empty, ready |-> no, fault |-> no]
      BY <3>1
    <3> QED BY <3>2 DEF r, empty, no
  <2>4. CASE byte = N
    <3>1. LoaderByte(byte) = [state |-> "HEADER", header |-> first,
             payload |-> <<>>, ready |-> FALSE, fault |-> FALSE]
      BY Zenon, <2>1, <2>3, <2>4 DEF first
    <3> QED BY <2>2, <3>1 DEF Loaders, first
  <2>5. CASE byte # N
    BY <1>1, <1>4, <2>1, <2>5 DEF Loaders, LoaderInv
  <2> QED BY <2>4, <2>5
<1> QED BY <1>1, <1>2, <1>3, <1>4

\* The fields of the records, one by one.
LEMMA Fields ==
  ASSUME HostTypes
  PROVE  /\ host = [tool |-> host.tool, left |-> host.left, content |-> host.content, result |-> host.result]
         /\ host.tool \in Tools /\ host.left \in Seq(Items) /\ host.content \in Seq(Items)
         /\ host.result \in Results
         /\ ghost = [lost |-> ghost.lost, sends |-> ghost.sends, intact |-> ghost.intact,
                     events |-> ghost.events, midway |-> ghost.midway, clean |-> ghost.clean,
                     down |-> ghost.down, unwritten |-> ghost.unwritten]
         /\ ghost.lost \in Nat /\ ghost.sends \in Nat /\ ghost.intact \in BOOLEAN /\ ghost.events \in Nat
         /\ ghost.midway \in BOOLEAN /\ ghost.clean \in BOOLEAN
         /\ ghost.down \subseteq Int /\ ghost.unwritten \subseteq Int
         /\ bridge = [state |-> bridge.state, frames |-> bridge.frames]
         /\ bridge.state \in InputStates /\ bridge.frames \in Seq(AnyFrame)
         /\ wire \in Seq(Items) /\ inbox \in Seq(Lines)
BY DEF HostTypes, Hosts, Ghosts, Bridges

\* The parts agree at the start,
LEMMA TypesInit == HostInit => TypesInv
<1> SUFFICES ASSUME HostInit PROVE TypesInv
  OBVIOUS
<1>1. HostTypes
  <2>1. <<>> \in Seq(Items) /\ <<>> \in Seq(Lines)
    OBVIOUS
  <2>2. loader \in Loaders
    BY <2>1 DEF HostInit, LoaderReset, Loaders
  <2>3. host \in Hosts
    BY <2>1 DEF HostInit, Hosts, Tools, Results
  <2>4. ghost \in Ghosts
    BY DEF HostInit, Ghosts
  <2>5. bridge \in Bridges
    BY ClosedFacts DEF HostInit
  <2> QED BY <2>1, <2>2, <2>3, <2>4, <2>5 DEF HostInit, HostTypes
<1>2. LoaderInv
  BY DEF HostInit, LoaderInv, LoaderReset
<1>3. BridgeInv
  <2>1. bridge = Closed /\ ghost.down = {}
    BY DEF HostInit
  <2> QED BY <2>1, ClosedFacts DEF BridgeInv
<1> QED BY <1>1, <1>2, <1>3 DEF TypesInv

\* and when the machine takes a byte, the line loses one or a status line comes,
LEMMA MachineTypes == TypesInv /\ (MachineByte \/ LoseByte \/ StatusLine) => TypesInv'
<1> SUFFICES ASSUME TypesInv, MachineByte \/ LoseByte \/ StatusLine PROVE TypesInv'
  OBVIOUS
<1>1. HostTypes /\ LoaderInv /\ BridgeInv
  BY DEF TypesInv
<1>2. wire # <<>> => Tail(wire) \in Seq(Items) /\ Head(wire) \in Items
  BY <1>1 DEF HostTypes
<1>3. CASE MachineByte
  <2>1. loader' \in Loaders /\ LoaderInv' /\ wire' \in Seq(Items)
    BY <1>1, <1>2, <1>3, LoaderByteType DEF MachineByte, HostTypes, LoaderInv
  <2> QED BY <1>1, <1>3, <2>1 DEF MachineByte, TypesInv, HostTypes, BridgeInv
<1>4. CASE LoseByte
  <2>1. ghost' = [ghost EXCEPT !.lost = ghost.lost + 1, !.clean = FALSE]
    BY <1>4 DEF LoseByte
  <2>2. ghost' \in Ghosts /\ ghost'.down = ghost.down
    <3> DEFINE a == ghost.lost + 1
               no == FALSE
    <3>1. a \in Nat /\ no \in BOOLEAN /\ ghost \in Ghosts /\ ghost' = [ghost EXCEPT !.lost = a, !.clean = no]
      BY <1>1, <2>1, Fields DEF HostTypes
    <3> HIDE DEF a, no
    <3> QED BY ONLY <3>1 DEF Ghosts
  <2> QED BY <1>1, <1>2, <1>4, <2>2 DEF LoseByte, TypesInv, HostTypes, BridgeInv, LoaderInv
<1>5. CASE StatusLine
  <2>1. loader.ready \in BOOLEAN /\ loader.fault \in BOOLEAN
    BY <1>1 DEF HostTypes, Loaders
  <2>2. [p |-> loader.ready, y |-> loader.fault] \in Lines
    BY <2>1 DEF Lines
  <2>3. inbox' \in Seq(Lines)
    BY <1>1, <1>5, <2>2 DEF StatusLine, HostTypes
  <2> QED BY <1>1, <1>5, <2>3 DEF StatusLine, TypesInv, HostTypes, BridgeInv, LoaderInv
<1> QED BY <1>3, <1>4, <1>5

\* when a pack is loaded, sent or answered,
LEMMA LoadTypes ==
  TypesInv /\ (Load \/ SendChunk \/ Drained \/ ReadStatus \/ StatusTimeout) => TypesInv'
<1> SUFFICES ASSUME TypesInv, Load \/ SendChunk \/ Drained \/ ReadStatus \/ StatusTimeout PROVE TypesInv'
  OBVIOUS
<1>1. HostTypes /\ LoaderInv /\ BridgeInv
  BY DEF TypesInv
<1>2. /\ host.tool \in Tools /\ host.left \in Seq(Items) /\ host.content \in Seq(Items) /\ host.result \in Results
      /\ host = [tool |-> host.tool, left |-> host.left, content |-> host.content, result |-> host.result]
      /\ wire \in Seq(Items) /\ inbox \in Seq(Lines) /\ <<>> \in Seq(Items) /\ <<>> \in Seq(Lines)
  BY <1>1, Fields
<1>3. CASE Load
  <2>1. PICK pack \in Packs : \E image \in Damaged(pack) \union {pack} :
          /\ host' = IF parse_gamepack(image)
                     THEN [tool |-> "send", left |-> image, content |-> image, result |-> "none"]
                     ELSE [host EXCEPT !.content = <<>>, !.result = "invalid"]
          /\ ghost' = [ghost EXCEPT !.sends = @ + 1, !.midway = Midway, !.clean = FALSE,
                                    !.intact = (image = pack)]
    BY <1>3 DEF Load
  <2>2. PICK image \in Damaged(pack) \union {pack} :
          /\ host' = IF parse_gamepack(image)
                     THEN [tool |-> "send", left |-> image, content |-> image, result |-> "none"]
                     ELSE [host EXCEPT !.content = <<>>, !.result = "invalid"]
          /\ ghost' = [ghost EXCEPT !.sends = @ + 1, !.midway = Midway, !.clean = FALSE,
                                    !.intact = (image = pack)]
    BY <2>1
  <2>3. image \in Seq(Items)
    BY ImageFacts
  <2>4. host' \in Hosts
    <3>1. CASE parse_gamepack(image)
      BY <2>2, <2>3, <3>1 DEF Hosts, Tools, Results
    <3>2. CASE ~parse_gamepack(image)
      BY <1>2, <2>2, <3>2 DEF Hosts, Results
    <3> QED BY <3>1, <3>2
  <2>5. /\ ghost' \in Ghosts
        /\ ghost'.down = ghost.down
    <3>1. Midway \in BOOLEAN /\ (image = pack) \in BOOLEAN
      BY DEF Midway
    <3> DEFINE a == ghost.sends + 1
               m == Midway
               no == FALSE
               e == image = pack
    <3>2. ghost' = [ghost EXCEPT !.sends = a, !.midway = m, !.clean = no, !.intact = e]
      BY <2>2
    <3>3. a \in Nat /\ m \in BOOLEAN /\ no \in BOOLEAN /\ e \in BOOLEAN /\ ghost \in Ghosts
      BY <1>1, <3>1, Fields DEF HostTypes
    <3> HIDE DEF a, m, no, e
    <3> QED BY ONLY <3>2, <3>3 DEF Ghosts
  <2>6. UNCHANGED <<bridge, wire, loader>> /\ inbox' = <<>> /\ bridge.frames = <<>>
    BY <1>1, <1>3 DEF Load, LineIdle, BridgeInv
  <2> QED BY <1>1, <1>2, <2>4, <2>5, <2>6 DEF TypesInv, HostTypes, BridgeInv, LoaderInv
<1>4. CASE SendChunk
  <2>1. PICK count \in 1 .. Len(host.left) :
          /\ wire' = wire \o SubSeq(host.left, 1, count)
          /\ host' = [host EXCEPT !.left = SubSeq(@, count + 1, Len(@))]
    BY <1>4 DEF SendChunk
  <2>2. SubSeq(host.left, 1, count) \in Seq(Items) /\ SubSeq(host.left, count + 1, Len(host.left)) \in Seq(Items)
    BY <1>2
  <2>3. wire' \in Seq(Items)
    BY <1>2, <2>1, <2>2
  <2>4. /\ host' \in Hosts
        /\ host'.tool = host.tool
    BY <1>2, <2>1, <2>2 DEF Hosts
  <2> QED BY <1>1, <1>4, <2>3, <2>4 DEF SendChunk, TypesInv, HostTypes, BridgeInv, LoaderInv
<1>5. CASE Drained
  <2>1. /\ host' \in Hosts
        /\ host'.tool = "wait" /\ host.tool = "send" /\ inbox' = <<>>
    BY <1>2, <1>5 DEF Drained, Hosts, Tools, Flushed
  <2> QED BY <1>1, <1>2, <1>5, <2>1 DEF Drained, TypesInv, HostTypes, BridgeInv, LoaderInv
<1>6. CASE ReadStatus
  <2>1. host' = host \/ host' = [host EXCEPT !.tool = "none", !.result = Verdict(Head(inbox))]
    BY <1>6 DEF ReadStatus
  <2>2. Verdict(Head(inbox)) \in Results
    BY DEF Verdict, Results
  <2>3. host' \in Hosts
    <3> DEFINE verdict == Verdict(Head(inbox))
    <3> HIDE DEF verdict
    <3>1. host' = host \/ host' = [host EXCEPT !.tool = "none", !.result = verdict]
      BY <2>1 DEF verdict
    <3>2. verdict \in Results
      BY <2>2 DEF verdict
    <3>3. host \in Hosts
      BY <1>1 DEF HostTypes
    <3> QED BY ONLY <3>1, <3>2, <3>3 DEF Hosts, Tools
  <2>4. host.tool = "wait" /\ inbox' \in Seq(Lines)
    BY <1>2, <1>6 DEF ReadStatus
  <2> QED BY <1>1, <1>6, <2>3, <2>4 DEF ReadStatus, TypesInv, HostTypes, BridgeInv, LoaderInv
<1>7. CASE StatusTimeout
  <2>1. /\ host' \in Hosts
        /\ host.tool = "wait"
    BY <1>2, <1>7 DEF StatusTimeout, Hosts, Tools, Results
  <2> QED BY <1>1, <1>7, <2>1 DEF StatusTimeout, TypesInv, HostTypes, BridgeInv, LoaderInv
<1> QED BY <1>3, <1>4, <1>5, <1>6, <1>7

\* What Ctrl-C leaves unwritten is named by frames that release a key.
LEMMA UnwrittenKeys ==
  ASSUME HostTypes
  PROVE  /\ Unwritten \subseteq Int
         /\ \A pressed \in BOOLEAN : bridge.frames \in Seq(Frames(pressed)) =>
              Unwritten = IF pressed THEN {} ELSE Named(bridge.frames)
<1> DEFINE frames == bridge.frames
<1>1. \A i \in DOMAIN frames : frames[i] \in AnyFrame
  <2>1. frames \in Seq(AnyFrame)
    BY Fields
  <2> HIDE DEF frames
  <2> QED BY <2>1
<1>2. ASSUME NEW pressed \in BOOLEAN, NEW frame \in Frames(pressed)
      PROVE  /\ frame[2] \in Int
             /\ frame[1] = 75 => frame[3] = IF pressed THEN 1 ELSE 0
  <2>1. CASE frame \in KeyFrames(pressed)
    <3>1. PICK name \in Names : frame = <<75, name, IF pressed THEN 1 ELSE 0>>
      BY <2>1 DEF KeyFrames, key_frame
    <3>2. name \in Int
      BY DEF Names, CAPS_SHIFT, ZERO, SYMBOL_SHIFT
    <3> QED BY <3>1, <3>2
  <2>2. CASE frame \in JoystickFrames
    <3>1. PICK m \in 0 .. 31 : frame = <<74, m>>
      BY <2>2 DEF JoystickFrames
    <3> QED BY <3>1
  <2> QED BY <2>1, <2>2 DEF Frames
<1>3. Unwritten \subseteq Int
  <2>1. \A frame \in AnyFrame : frame[2] \in Int
    BY <1>2 DEF AnyFrame
  <2> QED BY <1>1, <2>1 DEF Unwritten
<1>4. ASSUME NEW pressed \in BOOLEAN, frames \in Seq(Frames(pressed))
      PROVE  Unwritten = IF pressed THEN {} ELSE Named(frames)
  <2>1. \A i \in DOMAIN frames : frames[i] \in Frames(pressed)
    <3> HIDE DEF frames
    <3> QED BY <1>4
  <2>2. \A i \in DOMAIN frames : frames[i][1] = 75 => frames[i][3] = IF pressed THEN 1 ELSE 0
    BY <1>2, <2>1
  <2>3. CASE pressed
    <3>1. \A i \in DOMAIN frames : ~(frames[i][1] = 75 /\ frames[i][3] = 0)
      BY <2>2, <2>3
    <3> QED BY <2>3, <3>1 DEF Unwritten
  <2>4. CASE ~pressed
    <3>1. \A i \in DOMAIN frames : frames[i][1] = 75 => frames[i][3] = 0
      BY <2>2, <2>4
    <3> QED BY <2>4, <3>1 DEF Unwritten, Named
  <2> QED BY <2>3, <2>4
<1> QED BY <1>3, <1>4

\* while the bridge starts, handles, writes and leaves,
LEMMA BridgeTypes ==
  TypesInv /\ (StartBridge \/ KeyEvent \/ WriteFrame \/ Leave \/ Close) => TypesInv'
<1> SUFFICES ASSUME TypesInv, StartBridge \/ KeyEvent \/ WriteFrame \/ Leave \/ Close PROVE TypesInv'
  OBVIOUS
<1>1. HostTypes /\ LoaderInv /\ BridgeInv
  BY DEF TypesInv
<1>2. host \in Hosts /\ ghost \in Ghosts /\ bridge \in Bridges
  BY <1>1 DEF HostTypes
<1>3. CASE StartBridge
  <2> DEFINE clean == Neutral
             none == {}
  <2>1. ghost' = [ghost EXCEPT !.clean = clean, !.down = none, !.unwritten = none]
    BY <1>3 DEF StartBridge
  <2>2. clean \in BOOLEAN /\ none \subseteq Int
    BY <1>1 DEF Neutral, HostTypes, Loaders
  <2> HIDE DEF clean, none
  <2>3. ghost' \in Ghosts /\ ghost'.down = none
    BY ONLY <1>2, <2>1, <2>2 DEF Ghosts
  <2>4. host' \in Hosts /\ host'.tool = "bridge" /\ bridge' = Closed
    BY <1>2, <1>3 DEF StartBridge, Hosts, Tools
  <2>5. BridgeInv'
    BY <2>3, <2>4, ClosedFacts DEF BridgeInv, none
  <2> QED BY <1>1, <1>3, <2>3, <2>4, <2>5, ClosedFacts DEF StartBridge, TypesInv, HostTypes, LoaderInv
<1>4. CASE KeyEvent
  <2>1. PICK code \in Codes, value \in 0 .. 2 :
          /\ bridge' = handle(bridge.state, code, value)
          /\ ghost' = [ghost EXCEPT !.events = ghost.events + 1, !.down = Down(ghost.down, code, value)]
    BY <1>4 DEF KeyEvent, Down
  <2> DEFINE events == ghost.events + 1
             down == Down(ghost.down, code, value)
  <2>2. events \in Nat /\ down \subseteq Int
    <3>1. code \in Int
      BY HostAssumption
    <3> QED BY <1>1, <3>1, Fields DEF Down
  <2>3. ghost' \in Ghosts /\ ghost'.down = down
    <3>1. ghost' = [ghost EXCEPT !.events = events, !.down = down]
      BY <2>1
    <3> HIDE DEF events, down
    <3> QED BY ONLY <1>2, <2>2, <3>1 DEF Ghosts
  <2> DEFINE r == handle(bridge.state, code, value)
  <2>4. CountInv(bridge.state) /\ bridge.state.pressed_codes = ghost.down \cap KnownCodes
    BY <1>1 DEF BridgeInv
  <2>5. /\ r = [state |-> r.state, frames |-> r.frames]
        /\ CountInv(r.state) /\ r.state.pressed_codes = down \cap KnownCodes
        /\ \E pressed \in BOOLEAN : Brings(r, bridge.state, pressed)
    <3> DEFINE s == bridge.state
               old == ghost.down
    <3>1. CountInv(s) /\ s.pressed_codes = old \cap KnownCodes /\ r = handle(s, code, value)
      BY <2>4
    <3>2. down = Down(old, code, value)
      OBVIOUS
    <3> HIDE DEF s, old, r, down
    <3> QED BY <3>1, <3>2, HandleFacts DEF s
  <2> HIDE DEF r, down
  <2>6. bridge' \in Bridges
    <3>1. PICK pressed \in BOOLEAN : r.frames \in Seq(Frames(pressed))
      BY <2>5 DEF Brings
    <3>2. Frames(pressed) \subseteq AnyFrame
      BY DEF AnyFrame
    <3>3. r.frames \in Seq(AnyFrame)
      BY <3>1, <3>2, SeqMonotonic
    <3>4. r.state \in InputStates
      BY <2>5 DEF CountInv
    <3>5. bridge' = r
      BY <2>1 DEF r
    <3> QED BY <2>5, <3>3, <3>4, <3>5 DEF Bridges
  <2>7. BridgeInv'
    BY <1>4, <2>1, <2>3, <2>5 DEF BridgeInv, KeyEvent, r
  <2> QED BY <1>1, <1>4, <2>3, <2>6, <2>7 DEF KeyEvent, TypesInv, HostTypes, LoaderInv
<1>5. CASE WriteFrame
  <2>1. bridge' = [bridge EXCEPT !.frames = Tail(bridge.frames)] /\ bridge.frames # <<>>
        /\ wire' = wire \o Head(bridge.frames)
    BY <1>5 DEF WriteFrame, Written
  <2>2. /\ Tail(bridge.frames) \in Seq(AnyFrame)
        /\ Head(bridge.frames) \in AnyFrame
    BY <1>1, <2>1, Fields
  <2>3. bridge' \in Bridges /\ bridge'.state = bridge.state
    BY <1>2, <2>1, <2>2 DEF Bridges
  <2>4. wire' \in Seq(Items)
    <3>1. wire \in Seq(Items) /\ Head(bridge.frames) \in Seq(Items)
      BY <1>1, <2>2, Fields, FrameItems
    <3> QED BY <2>1, <3>1, ConcatProperties
  <2> QED BY <1>1, <1>5, <2>3, <2>4 DEF WriteFrame, TypesInv, HostTypes, BridgeInv, LoaderInv
<1>6. CASE Leave
  <2> DEFINE frames == release_all(bridge.state)
             lost == Unwritten
             none == {}
  <2>1. ghost' = [ghost EXCEPT !.unwritten = lost, !.down = none] /\ bridge' = [state |-> InputState, frames |-> frames]
        /\ host' = [host EXCEPT !.tool = "release"]
    BY <1>6 DEF Leave
  <2>2. lost \subseteq Int /\ none \subseteq Int
    BY <1>1, UnwrittenKeys
  <2>3. ghost' \in Ghosts /\ ghost'.down = none
    <3> HIDE DEF lost, none
    <3> QED BY ONLY <1>2, <2>1, <2>2 DEF Ghosts
  <2>4. frames \in Seq(AnyFrame)
    <3> DEFINE off == FALSE
    <3>1. CountInv(bridge.state) /\ off \in BOOLEAN /\ off = FALSE
      BY <1>1 DEF BridgeInv
    <3>2. Frames(off) \subseteq AnyFrame
      BY DEF AnyFrame
    <3> HIDE DEF off
    <3>3. frames \in Seq(Frames(off))
      BY <3>1, ReleaseFrames
    <3> QED BY <3>2, <3>3, SeqMonotonic
  <2>5. bridge' \in Bridges /\ CountInv(bridge'.state) /\ bridge'.state.pressed_codes = {}
    <3>1. InputState = Closed.state
      BY DEF Closed
    <3>2. InputState \in InputStates /\ CountInv(InputState) /\ InputState.pressed_codes = {}
      BY <3>1, ClosedFacts DEF Bridges
    <3> HIDE DEF frames
    <3> QED BY <2>1, <2>4, <3>2 DEF Bridges
  <2>6. host' \in Hosts /\ host'.tool = "release"
    BY <1>2, <2>1 DEF Hosts, Tools
  <2>7. BridgeInv'
    BY <2>3, <2>5, <2>6 DEF BridgeInv
  <2> QED BY <1>1, <1>6, <2>3, <2>5, <2>6, <2>7 DEF Leave, TypesInv, HostTypes, LoaderInv
<1>7. CASE Close
  <2>1. host' \in Hosts /\ bridge.frames = <<>>
    BY <1>2, <1>7 DEF Close, Hosts, Tools
  <2> QED BY <1>1, <1>7, <2>1 DEF Close, TypesInv, HostTypes, BridgeInv, LoaderInv
<1> QED BY <1>3, <1>4, <1>5, <1>6, <1>7

\* and when an input is sent by hand or a tool breaks off:
LEMMA OtherTypes == TypesInv /\ (SendInput \/ Break) => TypesInv'
<1> SUFFICES ASSUME TypesInv, SendInput \/ Break PROVE TypesInv'
  OBVIOUS
<1>1. HostTypes /\ LoaderInv /\ BridgeInv
  BY DEF TypesInv
<1>2. host \in Hosts /\ ghost \in Ghosts
  BY <1>1 DEF HostTypes
<1>3. CASE SendInput
  <2> DEFINE events == ghost.events + 1
             no == FALSE
  <2>1. ghost' = [ghost EXCEPT !.events = events, !.clean = no] /\ events \in Nat /\ no \in BOOLEAN
    BY <1>1, <1>3, Fields DEF SendInput
  <2>2. ghost' \in Ghosts /\ ghost'.down = ghost.down
    <3> HIDE DEF events, no
    <3> QED BY ONLY <1>2, <2>1 DEF Ghosts
  <2>3. PICK frame \in {key_frame(name, pressed) : name \in Names, pressed \in BOOLEAN}
                       \union {joystick_frame(bits) : bits \in {b \in SUBSET Bits : ~Opposing(b)}} :
          wire' = frame
    BY <1>3 DEF SendInput
  <2>4. frame \in AnyFrame
    <3>1. ASSUME NEW name \in Names, NEW pressed \in BOOLEAN, frame = key_frame(name, pressed)
          PROVE  frame \in AnyFrame
      <4>1. frame \in Frames(pressed)
        BY <3>1 DEF Frames, KeyFrames
      <4> QED BY <4>1 DEF AnyFrame
    <3>2. ASSUME NEW bits, frame = joystick_frame(bits) PROVE frame \in AnyFrame
      <4>1. frame \in JoystickFrames
        BY <3>2, MaskRange DEF joystick_frame, JoystickFrames
      <4> DEFINE on == TRUE
      <4>2. on \in BOOLEAN
        OBVIOUS
      <4> HIDE DEF on
      <4>3. frame \in Frames(on)
        BY <4>1 DEF Frames
      <4> QED BY <4>2, <4>3 DEF AnyFrame
    <3> QED BY <2>3, <3>1, <3>2
  <2>5. wire' \in Seq(Items)
    BY <2>3, <2>4, FrameItems
  <2> QED BY <1>1, <1>3, <2>2, <2>5 DEF SendInput, TypesInv, HostTypes, BridgeInv, LoaderInv
<1>4. CASE Break
  <2> DEFINE no == FALSE
             none == {}
  <2>1. ghost' = [ghost EXCEPT !.clean = no, !.down = none, !.unwritten = none]
        /\ no \in BOOLEAN /\ none \subseteq Int
    BY <1>4 DEF Break
  <2>2. ghost' \in Ghosts /\ ghost'.down = none
    <3> HIDE DEF no, none
    <3> QED BY ONLY <1>2, <2>1 DEF Ghosts
  <2>3. host' \in Hosts
    <3>1. CASE host.tool \in {"send", "wait"}
      <4>1. <<>> \in Seq(Items)
        OBVIOUS
      <4> QED BY <1>4, <3>1, <4>1 DEF Break, Hosts, Tools, Results
    <3>2. CASE host.tool \notin {"send", "wait"}
      BY <1>2, <1>4, <3>2 DEF Break, Hosts, Tools
    <3> QED BY <3>1, <3>2
  <2>4. wire' \in Seq(Items) /\ bridge' = Closed
    <3>1. wire \in Seq(Items) /\ <<>> \in Seq(Items)
      BY <1>1, Fields
    <3>2. wire' \in {wire, <<>>} /\ bridge' = Closed
      BY <1>4 DEF Break
    <3> QED BY <3>1, <3>2
  <2>5. BridgeInv' /\ bridge' \in Bridges
    BY <2>2, <2>4, ClosedFacts DEF BridgeInv
  <2> QED BY <1>1, <1>4, <2>2, <2>3, <2>4, <2>5 DEF Break, TypesInv, HostTypes, LoaderInv
<1> QED BY <1>3, <1>4

\* in every step.
LEMMA HostTypesStep == TypesInv /\ [HostNext]_hostVars => TypesInv'
<1> SUFFICES ASSUME TypesInv, [HostNext]_hostVars PROVE TypesInv'
  OBVIOUS
<1>1. CASE HostNext
  BY <1>1, MachineTypes, LoadTypes, BridgeTypes, OtherTypes DEF HostNext
<1>2. CASE UNCHANGED hostVars
  BY <1>2 DEF hostVars, TypesInv, HostTypes, BridgeInv, LoaderInv
<1> QED BY <1>1, <1>2

(***************************************************************************)
(* While a bridge that found the machine neutral runs and nothing breaks:  *)
(* the bytes on the line lead the machine to a state `mid` between two     *)
(* frames, and the frames not yet written, all of one polarity, lead from  *)
(* there to what the bridge holds; after the bridge, to nothing held but   *)
(* the keys that Ctrl-C left unwritten.                                    *)
(***************************************************************************)
Agrees(mid, pressed) ==
  /\ Leads(wire, input, mid) /\ mid.state = "COMMAND"
  /\ bridge.frames \in Seq(Frames(pressed))
  /\ host.tool = "bridge" =>
       /\ Steers(bridge.frames, mid, mask(bridge.state.joystick))
       /\ ToSet(bridge.state.key_order) = IF pressed THEN mid.keys \union Named(bridge.frames)
                                          ELSE mid.keys \ Named(bridge.frames)
  /\ host.tool # "bridge" =>
       ~pressed /\ Steers(bridge.frames, mid, 0) /\ mid.keys \ Named(bridge.frames) \subseteq ghost.unwritten

HeldInv ==
  ghost.clean =>
    /\ host.tool \in {"bridge", "release", "none"}
    /\ loader.ready /\ wire \in Seq(Quiet)
    /\ host.tool = "none" => wire = <<>>
    /\ \E mid \in Inputs, pressed \in BOOLEAN : Agrees(mid, pressed)

\* A byte read from the line brings the machine nearer to where the line leads.
LEMMA MachineHeld ==
  ASSUME TypesInv, HeldInv, MachineByte, ghost.clean
  PROVE  HeldInv'
<1>1. /\ wire \in Seq(Quiet) /\ wire # <<>> /\ loader.ready /\ host.tool \in {"bridge", "release"}
      /\ wire' = Tail(wire) /\ UNCHANGED <<host, bridge, ghost>>
  BY DEF HeldInv, MachineByte
<1>2. Head(wire) \in Quiet /\ Head(wire) # N /\ Tail(wire) \in Seq(Quiet)
  <2>1. Head(wire) \in Quiet /\ Tail(wire) \in Seq(Quiet)
    BY <1>1
  <2>2. \A byte \in Quiet : byte # N
    BY DEF Quiet, N
  <2> QED BY <2>1, <2>2
<1>3. LoaderByte(Head(wire)) = loader
  <2>1. loader.state = "DONE"
    BY <1>1 DEF TypesInv, LoaderInv
  <2> QED BY <1>2, <2>1 DEF LoaderByte, Restart
<1>4. loader' = loader /\ input' = Reads(input, Head(wire))
  BY <1>1, <1>3, InputReads DEF MachineByte
<1>5. PICK mid \in Inputs, pressed \in BOOLEAN : Agrees(mid, pressed)
  BY DEF HeldInv
<1>6. Leads(wire', input', mid)
  BY <1>1, <1>4, <1>5, LeadsHead DEF Agrees
<1>7. Agrees(mid, pressed)'
  BY <1>1, <1>5, <1>6 DEF Agrees
<1> QED BY <1>1, <1>2, <1>4, <1>5, <1>7 DEF HeldInv

\* A bridge that finds the machine neutral starts in agreement with it.
LEMMA StartHeld ==
  ASSUME TypesInv, StartBridge, ghost'.clean
  PROVE  HeldInv'
<1>1. /\ wire = <<>> /\ wire' = <<>> /\ bridge' = Closed /\ UNCHANGED <<loader, input>>
      /\ host' = [host EXCEPT !.tool = "bridge"] /\ ghost' = [ghost EXCEPT !.clean = Neutral, !.down = {}, !.unwritten = {}]
  BY DEF StartBridge, LineIdle
<1>2. host'.tool = "bridge" /\ Neutral
  <2>1. host \in Hosts /\ ghost \in Ghosts
    BY DEF TypesInv, HostTypes
  <2>2. host'.tool = "bridge"
    BY <1>1, <2>1 DEF Hosts
  <2> DEFINE neutral == Neutral
             none == {}
  <2>3. ghost' = [ghost EXCEPT !.clean = neutral, !.down = none, !.unwritten = none]
    BY <1>1
  <2> HIDE DEF neutral, none
  <2>4. ghost'.clean = neutral
    BY ONLY <2>1, <2>3 DEF Ghosts
  <2> QED BY <2>2, <2>4 DEF neutral
<1>3. loader' = loader /\ loader.ready /\ input' = InputReset
  BY <1>1, <1>2 DEF Neutral
<1>4. InputReset \in Inputs /\ InputReset.state = "COMMAND" /\ InputReset.keys = {} /\ InputReset.joystick = 0
  BY DEF InputReset, Inputs
<1> DEFINE on == TRUE
<1>5. on \in BOOLEAN /\ on
  OBVIOUS
<1> HIDE DEF on
<1>6. bridge'.frames = <<>> /\ bridge'.state.key_order = <<>> /\ bridge'.state.joystick = {}
  BY <1>1, ClosedFacts
<1>7. Leads(wire', input', InputReset)
  BY <1>1, <1>3, <1>4, LeadsNowhere
<1>8. Steers(bridge'.frames, InputReset, mask(bridge'.state.joystick))
  BY <1>4, <1>6, NoFrames, MaskRange
<1>9. ToSet(bridge'.state.key_order) = InputReset.keys \union Named(bridge'.frames)
  <2>1. ToSet(<<>>) = {}
    BY DEF ToSet
  <2> QED BY <1>4, <1>6, <2>1, NoFrames
<1>10. bridge'.frames \in Seq(Frames(on))
  BY <1>6
<1>11. Agrees(InputReset, on)'
  BY <1>2, <1>4, <1>5, <1>7, <1>8, <1>9, <1>10 DEF Agrees
<1>12. wire' \in Seq(Quiet)
  BY <1>1
<1> QED BY <1>2, <1>3, <1>4, <1>5, <1>11, <1>12 DEF HeldInv

\* An event changes what the bridge holds by just the frames it leaves to write.
LEMMA EventHeld ==
  ASSUME TypesInv, HeldInv, KeyEvent, ghost.clean
  PROVE  HeldInv'
<1>1. /\ host.tool = "bridge" /\ bridge.frames = <<>> /\ UNCHANGED <<host, wire, loader, input>>
      /\ \E code \in Codes, value \in 0 .. 2 : bridge' = handle(bridge.state, code, value)
  BY DEF KeyEvent
<1>2. PICK code \in Codes, value \in 0 .. 2 : bridge' = handle(bridge.state, code, value)
  BY <1>1
<1>3. PICK mid \in Inputs, old \in BOOLEAN : Agrees(mid, old)
  BY DEF HeldInv
<1>4. CountInv(bridge.state) /\ bridge.state.pressed_codes = ghost.down \cap KnownCodes
  BY DEF TypesInv, BridgeInv
<1>5. PICK pressed \in BOOLEAN : Brings(bridge', bridge.state, pressed)
  BY SMTT(30), <1>2, <1>4, HandleFacts
<1>6. mid.joystick = mask(bridge.state.joystick) /\ ToSet(bridge.state.key_order) = mid.keys
  BY <1>1, <1>3, NoFrames DEF Agrees
<1>7. /\ bridge'.frames \in Seq(Frames(pressed))
      /\ Steers(bridge'.frames, mid, mask(bridge'.state.joystick))
      /\ ToSet(bridge'.state.key_order) = IF pressed THEN mid.keys \union Named(bridge'.frames)
                                          ELSE mid.keys \ Named(bridge'.frames)
  BY <1>5, <1>6 DEF Brings
<1>8. Agrees(mid, pressed)'
  BY <1>1, <1>3, <1>7 DEF Agrees
<1> QED BY <1>1, <1>3, <1>5, <1>8 DEF HeldInv

\* A frame that is written moves from the bridge to the line.
LEMMA FrameHeld ==
  ASSUME TypesInv, HeldInv, WriteFrame, ghost.clean
  PROVE  HeldInv'
<1> DEFINE frame == Head(bridge.frames)
           rest == Tail(bridge.frames)
<1>1. /\ host.tool \in {"bridge", "release"} /\ bridge.frames # <<>> /\ wire' = wire \o frame
      /\ bridge' = [bridge EXCEPT !.frames = rest] /\ UNCHANGED <<host, loader, input, ghost>>
  BY DEF WriteFrame, Written
<1>2. bridge'.frames = rest /\ bridge'.state = bridge.state
  BY <1>1 DEF TypesInv, HostTypes, Bridges
<1>3. PICK mid \in Inputs, pressed \in BOOLEAN : Agrees(mid, pressed)
  BY DEF HeldInv
<1>4. bridge.frames \in Seq(Frames(pressed)) /\ wire \in Seq(Quiet) /\ Leads(wire, input, mid)
      /\ mid.state = "COMMAND"
  BY <1>3 DEF Agrees, HeldInv
<1>5. /\ frame \in Frames(pressed) /\ rest \in Seq(Frames(pressed))
      /\ Named(bridge.frames) = Named(rest) \union (IF frame[1] = 75 THEN {frame[2]} ELSE {})
      /\ \A f, h, m :
           /\ Steers(bridge.frames, f, m)
           /\ IF frame[1] = 74 THEN h.joystick = frame[2] ELSE h.joystick = f.joystick
           => Steers(rest, h, m)
  BY <1>1, <1>4, FirstFrame
<1> HIDE DEF frame, rest
<1>6. PICK next \in Inputs :
        wire \o frame \in Seq(Quiet) /\ Leads(wire \o frame, input, next) /\ Moves(frame, pressed, mid, next)
  BY <1>4, <1>5, FrameWritten
<1>7. \A m : Steers(bridge.frames, mid, m) => Steers(rest, next, m)
  BY <1>5, <1>6 DEF Moves
<1>8. /\ pressed => next.keys \union Named(rest) = mid.keys \union Named(bridge.frames)
      /\ ~pressed => next.keys \ Named(rest) = mid.keys \ Named(bridge.frames)
  <2>1. CASE frame[1] = 75
    BY <1>5, <1>6, <2>1 DEF Moves
  <2>2. CASE frame[1] # 75
    BY <1>5, <1>6, <2>2 DEF Moves
  <2> QED BY <2>1, <2>2
<1>9. Agrees(next, pressed)'
  <2>1. /\ Leads(wire', input', next) /\ next.state = "COMMAND" /\ bridge'.frames \in Seq(Frames(pressed))
    BY <1>1, <1>2, <1>5, <1>6 DEF Moves
  <2>2. ASSUME host'.tool = "bridge"
        PROVE  /\ Steers(bridge'.frames, next, mask(bridge'.state.joystick))
               /\ ToSet(bridge'.state.key_order) = IF pressed THEN next.keys \union Named(bridge'.frames)
                                                   ELSE next.keys \ Named(bridge'.frames)
    BY <1>1, <1>2, <1>3, <1>7, <1>8, <2>2 DEF Agrees
  <2>3. ASSUME host'.tool # "bridge"
        PROVE  /\ ~pressed /\ Steers(bridge'.frames, next, 0)
               /\ next.keys \ Named(bridge'.frames) \subseteq ghost'.unwritten
    BY <1>1, <1>2, <1>3, <1>7, <1>8, <2>3 DEF Agrees
  <2> QED BY <2>1, <2>2, <2>3 DEF Agrees
<1>10. wire' \in Seq(Quiet)
  BY <1>1, <1>6
<1> QED BY <1>1, <1>3, <1>6, <1>9, <1>10 DEF HeldInv

\* Whatever was written or not, the frames of release_all lead to neutral.
LEMMA LeaveHeld ==
  ASSUME TypesInv, HeldInv, Leave, ghost.clean
  PROVE  HeldInv'
<1> DEFINE frames == release_all(bridge.state)
           lost == Unwritten
           none == {}
<1>1. /\ host.tool = "bridge" /\ UNCHANGED <<wire, loader, input>>
      /\ host' = [host EXCEPT !.tool = "release"] /\ bridge' = [state |-> InputState, frames |-> frames]
      /\ ghost' = [ghost EXCEPT !.unwritten = lost, !.down = none]
  BY DEF Leave
<1>2. HostTypes /\ host \in Hosts /\ ghost \in Ghosts /\ CountInv(bridge.state)
  BY DEF TypesInv, HostTypes, BridgeInv
<1> DEFINE off == FALSE
<1>3. off \in BOOLEAN /\ ~off /\ off = FALSE
  OBVIOUS
<1>4. PICK mid \in Inputs, pressed \in BOOLEAN : Agrees(mid, pressed)
  BY DEF HeldInv
<1>5. lost = IF pressed THEN {} ELSE Named(bridge.frames)
  BY <1>2, <1>4, UnwrittenKeys DEF Agrees
<1> HIDE DEF frames, lost, none, off
<1>6. host'.tool = "release" /\ bridge'.frames = frames /\ ghost'.unwritten = lost /\ ghost'.clean = ghost.clean
  BY ONLY <1>1, <1>2 DEF Hosts, Ghosts
<1>7. /\ frames \in Seq(Frames(off)) /\ Steers(frames, mid, 0)
      /\ Named(frames) = ToSet(bridge.state.key_order)
  BY <1>2, <1>3, ReleaseFrames DEF frames
<1>8. ToSet(bridge.state.key_order) = IF pressed THEN mid.keys \union Named(bridge.frames)
                                      ELSE mid.keys \ Named(bridge.frames)
  BY <1>1, <1>4 DEF Agrees
<1>9. mid.keys \ Named(frames) \subseteq lost
  <2>1. CASE pressed
    BY <1>7, <1>8, <2>1
  <2>2. CASE ~pressed
    BY <1>5, <1>7, <1>8, <2>2
  <2> QED BY <2>1, <2>2
<1>10. Agrees(mid, off)'
  BY <1>1, <1>3, <1>4, <1>6, <1>7, <1>9 DEF Agrees
<1> QED BY <1>1, <1>3, <1>4, <1>6, <1>10 DEF HeldInv

\* A bridge closes when all its frames are read.
LEMMA CloseHeld ==
  ASSUME TypesInv, HeldInv, Close, ghost.clean
  PROVE  HeldInv'
<1>1. /\ host.tool = "release" /\ wire = <<>> /\ host' = [host EXCEPT !.tool = "none"]
      /\ UNCHANGED <<bridge, wire, loader, input, ghost>>
  BY DEF Close
<1>2. host'.tool = "none"
  BY <1>1 DEF TypesInv, HostTypes, Hosts
<1>3. PICK mid \in Inputs, pressed \in BOOLEAN : Agrees(mid, pressed)
  BY DEF HeldInv
<1>4. Agrees(mid, pressed)'
  BY <1>1, <1>2, <1>3 DEF Agrees
<1> QED BY <1>1, <1>2, <1>3, <1>4 DEF HeldInv

\* Every step keeps the line and the frames leading to what the bridge holds.
LEMMA LatchStep ==
  ASSUME TypesInv, HeldInv, [HostNext]_hostVars
  PROVE  HeldInv'
<1> SUFFICES ASSUME ghost'.clean PROVE HeldInv'
  BY DEF HeldInv
<1>1. ghost \in Ghosts
  BY DEF TypesInv, HostTypes
\* These leave the session unclean, or find it so.
<1>2. ~LoseByte /\ ~Load /\ ~SendInput /\ ~Break
  <2>1. \A a : [ghost EXCEPT !.lost = a, !.clean = FALSE].clean = FALSE
    BY <1>1 DEF Ghosts
  <2>2. \A a, b, c : [ghost EXCEPT !.sends = a, !.midway = b, !.clean = FALSE, !.intact = c].clean = FALSE
    BY <1>1 DEF Ghosts
  <2>3. \A a : [ghost EXCEPT !.events = a, !.clean = FALSE].clean = FALSE
    BY <1>1 DEF Ghosts
  <2>4. \A a, b : [ghost EXCEPT !.clean = FALSE, !.down = a, !.unwritten = b].clean = FALSE
    BY <1>1 DEF Ghosts
  <2>5. ~LoseByte
    BY <2>1 DEF LoseByte
  <2>6. ~Load
    BY <2>2 DEF Load
  <2>7. ~SendInput
    <3>1. SendInput => ghost' = [ghost EXCEPT !.events = ghost.events + 1, !.clean = FALSE]
      BY DEF SendInput
    <3> QED BY <2>3, <3>1
  <2>8. ~Break
    BY <2>4 DEF Break
  <2> QED BY <2>5, <2>6, <2>7, <2>8
<1>3. StatusLine \/ SendChunk \/ Drained \/ ReadStatus \/ StatusTimeout => ~ghost.clean /\ ghost' = ghost
  BY DEF HeldInv, StatusLine, SendChunk, Drained, ReadStatus, StatusTimeout
<1>4. CASE StartBridge
  BY <1>4, StartHeld
<1>5. CASE MachineByte
  BY <1>5, MachineHeld DEF MachineByte
<1>6. CASE KeyEvent
  <2>1. ghost.clean
    <3>1. \A a, b : [ghost EXCEPT !.events = a, !.down = b].clean = ghost.clean
      BY <1>1 DEF Ghosts
    <3> QED BY <1>6, <3>1 DEF KeyEvent
  <2> QED BY <1>6, <2>1, EventHeld
<1>7. CASE WriteFrame
  BY <1>7, FrameHeld DEF WriteFrame
<1>8. CASE Leave
  <2>1. ghost.clean
    <3>1. \A a, b : [ghost EXCEPT !.unwritten = a, !.down = b].clean = ghost.clean
      BY <1>1 DEF Ghosts
    <3> QED BY <1>8, <3>1 DEF Leave
  <2> QED BY <1>8, <2>1, LeaveHeld
<1>9. CASE Close
  BY <1>9, CloseHeld DEF Close
<1>10. CASE UNCHANGED hostVars
  <2>1. ghost.clean /\ UNCHANGED <<host, bridge, wire, loader, input, ghost>>
    BY <1>10 DEF hostVars
  <2>2. PICK mid \in Inputs, pressed \in BOOLEAN : Agrees(mid, pressed)
    BY <2>1 DEF HeldInv
  <2>3. Agrees(mid, pressed)'
    BY <2>1, <2>2 DEF Agrees
  <2> QED BY <2>1, <2>2, <2>3 DEF HeldInv
<1> QED BY <1>2, <1>3, <1>4, <1>5, <1>6, <1>7, <1>8, <1>9, <1>10 DEF HostNext

\* With nothing left to write or read, the machine holds what the bridge holds:
\* the keys that the host's keys stand for.
LEMMA HeldHolds == TypesInv /\ HeldInv => HeldOnTheMachine
<1> SUFFICES ASSUME TypesInv, HeldInv, host.tool = "bridge", ghost.clean, bridge.frames = <<>>, wire = <<>>
             PROVE  /\ input.keys = UNION {ToSet(key_names(code)) : code \in ghost.down}
                    /\ input.joystick = mask(UNION {controls(code) : code \in ghost.down})
  BY DEF HeldOnTheMachine
<1> DEFINE s == bridge.state
<1>1. PICK mid \in Inputs, pressed \in BOOLEAN : Agrees(mid, pressed)
  BY DEF HeldInv
<1>2. mid = input
  BY <1>1, LeadsNowhere DEF Agrees
<1>3. input.joystick = mask(s.joystick) /\ input.keys = ToSet(s.key_order)
  BY <1>1, <1>2, NoFrames DEF Agrees
<1>4. CountInv(s) /\ s.pressed_codes = ghost.down \cap KnownCodes
  BY DEF TypesInv, BridgeInv
<1>5. IsFiniteSet(s.pressed_codes)
  <2>1. s.pressed_codes \subseteq KnownCodes
    BY <1>4
  <2> QED BY <2>1, Tables, FS_Subset
<1> HIDE DEF s
<1>6. ASSUME NEW T, T \subseteq s.pressed_codes PROVE Cardinality(T) \in Nat /\ (Cardinality(T) > 0 <=> T # {})
  <2>1. IsFiniteSet(T)
    BY <1>5, <1>6, FS_Subset
  <2>2. Cardinality(T) \in Nat /\ (Cardinality(T) = 0 <=> T = {})
    BY <2>1, FS_CardinalityType, FS_EmptySet
  <2> QED BY <2>2
<1>7. ToSet(s.key_order) = {name \in Names : \E code \in s.pressed_codes : name \in ToSet(key_names(code))}
  <2>1. \A name \in Names : s.key_references[name] > 0 <=> Naming(s.pressed_codes, name) # {}
    <3> SUFFICES ASSUME NEW name \in Names
                 PROVE  s.key_references[name] > 0 <=> Naming(s.pressed_codes, name) # {}
      OBVIOUS
    <3> DEFINE T == Naming(s.pressed_codes, name)
    <3>1. T \subseteq s.pressed_codes
      BY DEF Naming
    <3>2. s.key_references[name] = Cardinality(T)
      BY <1>4 DEF CountInv
    <3> HIDE DEF T
    <3>3. s.key_references[name] > 0 <=> T # {}
      BY <1>6, <3>1, <3>2
    <3> QED BY <3>3 DEF T
  <2> QED BY <1>4, <2>1 DEF CountInv, Naming
<1>8. s.joystick = {bit \in KEMPSTON_BITS : \E code \in s.pressed_codes : bit \in controls(code)}
  <2>1. \A bit \in KEMPSTON_BITS : s.joystick_references[bit] > 0 <=> Steering(s.pressed_codes, bit) # {}
    <3> SUFFICES ASSUME NEW bit \in KEMPSTON_BITS
                 PROVE  s.joystick_references[bit] > 0 <=> Steering(s.pressed_codes, bit) # {}
      OBVIOUS
    <3> DEFINE T == Steering(s.pressed_codes, bit)
    <3>1. T \subseteq s.pressed_codes
      BY DEF Steering
    <3>2. s.joystick_references[bit] = Cardinality(T)
      BY <1>4 DEF CountInv
    <3> HIDE DEF T
    <3>3. s.joystick_references[bit] > 0 <=> T # {}
      BY <1>6, <3>1, <3>2
    <3> QED BY <3>3 DEF T
  <2> QED BY <1>4, <2>1 DEF CountInv, Steering
<1>9. \A code : code \notin KnownCodes => ToSet(key_names(code)) = {} /\ controls(code) = {}
  BY DEF KnownCodes, key_names, controls, ToSet
<1>10. \A code \in KnownCodes : ToSet(key_names(code)) \subseteq Names /\ controls(code) \subseteq KEMPSTON_BITS
  <2>1. \A t \in Seq(Names) : ToSet(t) \subseteq Names
    BY DEF ToSet
  <2> QED BY <2>1, Tables
<1>11. UNION {ToSet(key_names(code)) : code \in ghost.down} = ToSet(s.key_order)
  BY <1>4, <1>7, <1>9, <1>10
<1>12. UNION {controls(code) : code \in ghost.down} = s.joystick
  BY <1>4, <1>8, <1>9, <1>10
<1> QED BY <1>3, <1>11, <1>12

\* No bridge runs at the start.
LEMMA HeldInit == HostInit => HeldInv
<1>1. HostInit => ~ghost.clean
  BY DEF HostInit
<1> QED BY <1>1 DEF HeldInv

(***************************************************************************)
(* While keyboard_bridge.py runs on a machine it found neutral, the        *)
(* machine holds the keys and directions of the host's keys that are down  *)
(* and nothing else, for any number of events, in any order, and any room  *)
(* of the serial driver.                                                   *)
(***************************************************************************)
THEOREM BridgeHolds == HostSpec => []HeldOnTheMachine
<1>1. TypesInv /\ HeldInv /\ [HostNext]_hostVars => (TypesInv /\ HeldInv)'
  BY HostTypesStep, LatchStep
<1>2. HostInit => TypesInv /\ HeldInv
  BY TypesInit, HeldInit
<1> QED BY <1>1, <1>2, HeldHolds, PTL DEF HostSpec

\* With the line idle after the bridge, no frame leads the machine elsewhere.
LEMMA NeutralHolds == TypesInv /\ HeldInv => NeutralAfterwards
<1> SUFFICES ASSUME TypesInv, HeldInv, LineIdle, ghost.clean
             PROVE  input.keys \subseteq ghost.unwritten /\ input.joystick = 0
  BY DEF NeutralAfterwards
<1>1. PICK mid \in Inputs, pressed \in BOOLEAN : Agrees(mid, pressed)
  BY DEF HeldInv
<1>2. host.tool = "none" /\ wire = <<>> /\ bridge.frames = <<>>
  BY DEF LineIdle, TypesInv, BridgeInv
<1>3. mid = input
  BY <1>1, <1>2, LeadsNowhere DEF Agrees
<1> QED BY <1>1, <1>2, <1>3, NoFrames DEF Agrees

(***************************************************************************)
(* After keyboard_bridge.py nothing stays latched on the machine but a key *)
(* whose release Ctrl-C caught between handle and the write.               *)
(***************************************************************************)
THEOREM NothingLatched == HostSpec => []NeutralAfterwards
<1>1. TypesInv /\ HeldInv /\ [HostNext]_hostVars => (TypesInv /\ HeldInv)'
  BY HostTypesStep, LatchStep
<1>2. HostInit => TypesInv /\ HeldInv
  BY TypesInit, HeldInit
<1> QED BY <1>1, <1>2, NeutralHolds, PTL DEF HostSpec

(***************************************************************************)
(* A transfer that nothing disturbed: of the file, the loader has taken    *)
(* the first k bytes, the line holds the next, the tool the rest.          *)
(***************************************************************************)
Took(k) ==
  /\ k = 0 => ~Midway
  /\ k \in 1 .. 5 =>
       /\ loader.state = "HEADER" /\ Len(loader.header) = k
       /\ \A i \in 1 .. k : loader.header[i] = host.content[i]
  /\ k >= 6 /\ k < Len(host.content) =>
       /\ loader.state = "PAYLOAD" /\ loader.header = HeaderOf(host.content)
       /\ Len(loader.payload) = k - 6
       /\ \A i \in 1 .. k - 6 : loader.payload[i] = host.content[6 + i]
  /\ k = Len(host.content) =>
       /\ loader.state = "DONE" /\ loader.header = HeaderOf(host.content)
       /\ loader.payload = PayloadOf(host.content)

At(k) ==
  /\ Len(host.content) = k + Len(wire) + Len(host.left)
  /\ \A i \in 1 .. Len(wire) : wire[i] = host.content[k + i]
  /\ \A i \in 1 .. Len(host.left) : host.left[i] = host.content[k + Len(wire) + i]
  /\ Took(k)

Sound(content) == parse_gamepack(content) /\ content[3] \in Int /\ Len(content) > 6

Unspoiled == host.tool \in {"send", "wait"} /\ ~ghost.midway /\ ghost.lost = 0

TransferInv ==
  /\ RefusedForAReason
  /\ host.tool = "wait" => wire = <<>> /\ host.left = <<>>
  /\ Unspoiled =>
       /\ Sound(host.content)
       /\ \E k \in Nat : At(k)
       /\ host.tool = "wait" => \A i \in DOMAIN inbox : ~inbox[i].y

\* What parse_gamepack found, in the bytes of the file.
LEMMA SoundFacts ==
  ASSUME NEW content \in Seq(Items), Sound(content)
  PROVE  /\ Len(content) \in Nat /\ Len(content) > 6 /\ content[3] = Len(content) - 6
         /\ content[1] = N /\ content[2] = MAGIC /\ HeaderGood(HeaderOf(content))
         /\ HeaderOf(content) \in Seq(Items) /\ Len(HeaderOf(content)) = 6
         /\ \A i \in 1 .. 6 : HeaderOf(content)[i] = content[i]
         /\ PayloadOf(content) \in Seq(Items) /\ Len(PayloadOf(content)) = Len(content) - 6
         /\ \A i \in 1 .. Len(content) - 6 : PayloadOf(content)[i] = content[6 + i]
         /\ crc32(PayloadOf(content)) = content[4]
<1>1. Len(content) \in Nat /\ Len(content) > 6
  BY DEF Sound
<1>2. content[3] = Len(content) - 6
  BY <1>1 DEF Sound, parse_gamepack, HEADER_SIZE
<1>3. /\ HeaderOf(content) \in Seq(Items) /\ Len(HeaderOf(content)) = 6
      /\ \A i \in 1 .. 6 : HeaderOf(content)[i] = content[i]
  BY <1>1 DEF HeaderOf, HEADER_SIZE
<1>4. /\ PayloadOf(content) \in Seq(Items) /\ Len(PayloadOf(content)) = Len(content) - 6
      /\ \A i \in 1 .. Len(content) - 6 : PayloadOf(content)[i] = content[6 + i]
  BY <1>1 DEF PayloadOf, HEADER_SIZE
<1>5. HeaderGood(HeaderOf(content)) /\ crc32(PayloadOf(content)) = content[4]
  BY DEF Sound, parse_gamepack
<1>6. content[1] = N /\ content[2] = MAGIC
  <2>1. HeaderOf(content)[1] = content[1] /\ HeaderOf(content)[2] = content[2]
    BY <1>3
  <2> QED BY <1>5, <2>1 DEF HeaderGood
<1> QED BY <1>1, <1>2, <1>3, <1>4, <1>5, <1>6

\* The loader takes the next byte of a sound file.
LEMMA LoaderTakes ==
  ASSUME TypesInv, NEW k \in Nat, Took(k), Sound(host.content), k < Len(host.content),
         UNCHANGED host, loader' = LoaderByte(host.content[k + 1])
  PROVE  Took(k + 1)'
<1> DEFINE content == host.content
           byte == content[k + 1]
<1>1. content \in Seq(Items) /\ loader \in Loaders /\ LoaderInv
  BY Fields DEF TypesInv, HostTypes
<1>2. /\ Len(content) \in Nat /\ Len(content) > 6 /\ content[3] = Len(content) - 6
      /\ content[1] = N /\ content[2] = MAGIC /\ HeaderGood(HeaderOf(content))
      /\ HeaderOf(content) \in Seq(Items) /\ Len(HeaderOf(content)) = 6
      /\ \A i \in 1 .. 6 : HeaderOf(content)[i] = content[i]
      /\ PayloadOf(content) \in Seq(Items) /\ Len(PayloadOf(content)) = Len(content) - 6
      /\ \A i \in 1 .. Len(content) - 6 : PayloadOf(content)[i] = content[6 + i]
      /\ crc32(PayloadOf(content)) = content[4]
  BY <1>1, SoundFacts
<1>3. PICK size \in Nat : Len(content) = size /\ size > 6
  BY <1>2
<1>4. byte \in Items
  <2>1. k < size
    BY <1>3
  <2>2. k + 1 \in 1 .. size
    BY <2>1
  <2>3. k + 1 \in 1 .. Len(content)
    BY <1>3, <2>2
  <2> HIDE DEF content
  <2> QED BY <1>1, <2>3, ElementOfSeq
<1>5. host'.content = content
  OBVIOUS
<1> HIDE DEF content, byte
<1>6. loader' = LoaderByte(byte)
  BY DEF byte, content
<1>7. ASSUME k < 6, loader.state = "HEADER", Len(loader.header) = k,
             \A i \in 1 .. k : loader.header[i] = content[i]
      PROVE  Took(k + 1)'
  <2> DEFINE header == Append(loader.header, byte)
  <2>1. /\ header \in Seq(Items) /\ Len(header) = k + 1 /\ header[k + 1] = byte
        /\ \A i \in 1 .. k : header[i] = content[i]
    <3>1. loader.header \in Seq(Items)
      BY <1>1 DEF Loaders
    <3>2. /\ Append(loader.header, byte) \in Seq(Items) /\ Len(Append(loader.header, byte)) = k + 1
          /\ Append(loader.header, byte)[k + 1] = byte
          /\ \A i \in 1 .. k : Append(loader.header, byte)[i] = loader.header[i]
      BY <1>4, <1>7, <3>1, AppendProperties
    <3> QED BY <1>7, <3>2
  <2> HIDE DEF header
  <2>2. \A i \in 1 .. k + 1 : header[i] = content[i]
    <3>1. \A i \in 1 .. k + 1 : i \in 1 .. k \/ i = k + 1
      OBVIOUS
    <3> QED BY <2>1, <3>1 DEF byte
  <2>3. Normal(header) = header
    <3>1. header[1] = N
      BY <1>2, <2>2
    <3>2. Len(header) > 1 => header[2] = MAGIC
      BY <1>2, <2>1, <2>2
    <3> QED BY <3>1, <3>2 DEF Normal
  <2>4. LoaderByte(byte) = HeaderByte(byte)
    BY <1>7 DEF LoaderByte
  <2>5. CASE k < 5
    <3>1. Len(header) < HEADER_SIZE
      BY <2>1, <2>5 DEF HEADER_SIZE
    <3>2. loader' = [loader EXCEPT !.header = header]
      BY <1>6, <2>3, <2>4, <3>1 DEF HeaderByte, header
    <3>3. loader'.state = "HEADER" /\ loader'.header = header
      BY <1>1, <1>7, <3>2 DEF Loaders
    <3>4. k + 1 \in 1 .. 5 /\ ~(k + 1 >= 6) /\ k + 1 # 0 /\ k + 1 # Len(content)
      BY <1>2, <2>5
    <3> QED BY <1>5, <2>1, <2>2, <3>3, <3>4 DEF Took
  <2>6. CASE k = 5
    <3>1. header = HeaderOf(content)
      <4>1. Len(header) = 6 /\ \A i \in 1 .. 6 : header[i] = HeaderOf(content)[i]
        BY <1>2, <2>1, <2>2, <2>6
      <4> QED BY <1>2, <2>1, <4>1, SeqEqual
    <3>2. Len(header) = HEADER_SIZE /\ HeaderGood(header)
      BY <1>2, <3>1 DEF HEADER_SIZE
    <3>3. ~(Len(header) < HEADER_SIZE)
      BY <2>1, <3>2
    <3>4. loader' = [loader EXCEPT !.header = header, !.state = "PAYLOAD"]
      BY <1>6, <2>3, <2>4, <3>2, <3>3 DEF HeaderByte, header
    <3>5. loader'.state = "PAYLOAD" /\ loader'.header = header /\ loader'.payload = loader.payload
      BY <1>1, <3>4 DEF Loaders
    <3>6. loader.payload = <<>>
      BY <1>1, <1>7 DEF LoaderInv
    <3> DEFINE six == 6
    <3>7. six \notin 1 .. 5 /\ six # 0 /\ six - 6 = 0 /\ 1 .. (six - 6) = {}
      OBVIOUS
    <3>8. six # Len(content)
      <4>1. six # size
        BY <1>3
      <4> QED BY <1>3, <4>1
    <3>9. Len(loader'.payload) = six - 6
      BY <3>5, <3>6
    <3> HIDE DEF six
    <3>10. Took(six)'
      BY <1>5, <3>1, <3>5, <3>7, <3>8, <3>9 DEF Took
    <3> QED BY <2>6, <3>10 DEF six
  <2> QED BY <1>7, <2>5, <2>6
<1>8. CASE k = 0
  <2>1. byte = N
    BY <1>2, <1>8 DEF byte
  <2>2. CASE loader.state = "HEADER"
    <3>1. loader.header = <<>>
      BY <1>8, <2>2 DEF Took, Midway
    <3>2. Len(loader.header) = k /\ \A i \in 1 .. k : loader.header[i] = content[i]
      BY <1>8, <3>1
    <3> QED BY <1>7, <1>8, <2>2, <3>2
  <2>3. CASE loader.state # "HEADER"
    <3>1. loader.state \in {"DONE", "FAULT"}
      BY <1>1, <1>8, <2>3 DEF Took, Midway, Loaders
    <3> DEFINE first == <<N>>
    <3>2. loader' = [LoaderReset EXCEPT !.header = first]
      BY <1>6, <2>1, <3>1 DEF LoaderByte, Restart
    <3>3. Len(first) = 1 /\ first[1] = N
      OBVIOUS
    <3> HIDE DEF first
    <3>4. loader'.state = "HEADER" /\ loader'.header = first
      BY <3>2 DEF LoaderReset
    <3>5. 1 \in 1 .. 5 /\ ~(1 >= 6) /\ 1 # 0 /\ 1 # Len(content)
      <4>1. 1 # size
        BY <1>3
      <4> QED BY <1>3, <4>1
    <3>6. \A i \in 1 .. 1 : first[i] = content[i]
      <4>1. \A i \in 1 .. 1 : i = 1
        OBVIOUS
      <4> QED BY <1>2, <3>3, <4>1
    <3>7. Took(1)'
      BY <1>5, <3>3, <3>4, <3>5, <3>6 DEF Took
    <3>8. k + 1 = 1
      BY <1>8
    <3> QED BY <3>7, <3>8
  <2> QED BY <2>2, <2>3
<1>9. CASE k \in 1 .. 5
  BY <1>7, <1>9 DEF Took, content
<1>10. CASE k >= 6
  <2> DEFINE payload == Append(loader.payload, byte)
  <2>1. /\ loader.state = "PAYLOAD" /\ loader.header = HeaderOf(content) /\ Len(loader.payload) = k - 6
        /\ \A i \in 1 .. k - 6 : loader.payload[i] = content[6 + i]
    BY <1>10 DEF Took, content
  <2>2. /\ payload \in Seq(Items) /\ Len(payload) = k - 5
        /\ \A i \in 1 .. k - 5 : payload[i] = content[6 + i]
    <3>1. loader.payload \in Seq(Items)
      BY <1>1 DEF Loaders
    <3>2. /\ payload \in Seq(Items) /\ Len(payload) = k - 6 + 1 /\ payload[k - 6 + 1] = byte
          /\ \A i \in 1 .. k - 6 : payload[i] = loader.payload[i]
      BY <1>4, <2>1, <3>1, AppendProperties
    <3>3. k - 6 + 1 = k - 5 /\ 6 + (k - 5) = k + 1 /\ \A i \in 1 .. k - 5 : i \in 1 .. k - 6 \/ i = k - 5
      BY <1>10
    <3> HIDE DEF payload
    <3> QED BY <2>1, <3>2, <3>3 DEF byte
  <2> HIDE DEF payload
  <2>3. loader.header[3] = Len(content) - 6 /\ loader.header[4] = content[4]
    BY <1>2, <2>1
  <2>4. LoaderByte(byte) = PayloadByte(byte)
    BY <2>1 DEF LoaderByte
  <2>5. CASE k + 1 < Len(content)
    <3>1. Len(payload) < loader.header[3]
      BY <1>2, <2>2, <2>3, <2>5
    <3>2. loader' = [loader EXCEPT !.payload = payload]
      BY <1>6, <2>4, <3>1 DEF PayloadByte, payload
    <3>3. loader'.state = "PAYLOAD" /\ loader'.header = loader.header /\ loader'.payload = payload
      BY <1>1, <2>1, <3>2 DEF Loaders
    <3>4. k + 1 # 0 /\ k + 1 \notin 1 .. 5 /\ k + 1 # Len(content) /\ k + 1 - 6 = k - 5
      BY <1>2, <1>10, <2>5
    <3> QED BY <1>5, <2>1, <2>2, <3>3, <3>4 DEF Took
  <2>6. CASE k + 1 = Len(content)
    <3>1. payload = PayloadOf(content)
      <4>1. Len(payload) = Len(content) - 6 /\ \A i \in 1 .. Len(content) - 6 : payload[i] = PayloadOf(content)[i]
        <5>1. k - 5 = Len(content) - 6
          BY <1>2, <2>6
        <5> QED BY <1>2, <2>2, <5>1
      <4> QED BY <1>2, <2>2, <4>1, SeqEqual
    <3>2. Len(payload) = loader.header[3] /\ crc32(payload) = loader.header[4] /\ ~(Len(payload) < loader.header[3])
      BY <1>2, <2>3, <3>1
    <3>3. loader' = [loader EXCEPT !.payload = payload, !.state = "DONE", !.ready = TRUE]
      BY <1>6, <2>4, <3>2 DEF PayloadByte, payload
    <3>4. loader'.state = "DONE" /\ loader'.header = HeaderOf(content) /\ loader'.payload = PayloadOf(content)
      BY <1>1, <2>1, <3>1, <3>3 DEF Loaders
    <3>5. k + 1 # 0 /\ k + 1 \notin 1 .. 5 /\ ~(k + 1 < Len(content))
      BY <1>2, <1>10, <2>6
    <3> QED BY <1>5, <3>4, <3>5 DEF Took
  <2>7. k < Len(content)
    BY DEF content
  <2> QED BY <1>2, <2>5, <2>6, <2>7
<1> QED BY <1>8, <1>9, <1>10

\* No transfer runs at the start.
LEMMA TransferInit == HostInit => TransferInv
<1> SUFFICES ASSUME HostInit PROVE TransferInv
  OBVIOUS
<1>1. host.tool = "none" /\ host.result = "none"
  BY DEF HostInit
<1> QED BY <1>1 DEF TransferInv, RefusedForAReason, Unspoiled

\* The history of a transfer stays what it was while no pack is being sent.
LEMMA QuietTransfer ==
  ASSUME TransferInv, host'.result = host.result, host'.tool \notin {"send", "wait"},
         ghost'.midway = ghost.midway, ghost'.lost = ghost.lost, ghost'.intact = ghost.intact
  PROVE  TransferInv'
BY DEF TransferInv, RefusedForAReason, Unspoiled

\* A file that passes the checks is sound; it is refused only when it is not the pack.
LEMMA LoadTransfer == TypesInv /\ TransferInv /\ Load => TransferInv'
<1> SUFFICES ASSUME TypesInv, TransferInv, Load PROVE TransferInv'
  OBVIOUS
<1>1. HostTypes /\ LineIdle /\ UNCHANGED <<wire, loader>>
  BY DEF TypesInv, Load
<1>2. /\ host.tool = "none" /\ wire = <<>> /\ wire' = <<>> /\ loader' = loader /\ host \in Hosts /\ ghost \in Ghosts
  BY <1>1 DEF LineIdle, HostTypes
<1>3. PICK pack \in Packs : \E image \in Damaged(pack) \union {pack} :
        /\ host' = IF parse_gamepack(image)
                   THEN [tool |-> "send", left |-> image, content |-> image, result |-> "none"]
                   ELSE [host EXCEPT !.content = <<>>, !.result = "invalid"]
        /\ ghost' = [ghost EXCEPT !.sends = @ + 1, !.midway = Midway, !.clean = FALSE,
                                  !.intact = (image = pack)]
  BY DEF Load
<1>4. PICK image \in Damaged(pack) \union {pack} :
        /\ host' = IF parse_gamepack(image)
                   THEN [tool |-> "send", left |-> image, content |-> image, result |-> "none"]
                   ELSE [host EXCEPT !.content = <<>>, !.result = "invalid"]
        /\ ghost' = [ghost EXCEPT !.sends = @ + 1, !.midway = Midway, !.clean = FALSE,
                                  !.intact = (image = pack)]
  BY <1>3
<1>5. image \in Seq(Items) /\ (Len(image) >= 6 => image[3] \in Int /\ image[6] \in Nat)
  BY ImageFacts
<1>6. (ghost'.midway <=> Midway) /\ (ghost'.intact <=> image = pack)
  <2> DEFINE a == ghost.sends + 1
             m == Midway
             no == FALSE
             e == image = pack
  <2>1. ghost' = [ghost EXCEPT !.sends = a, !.midway = m, !.clean = no, !.intact = e]
    BY <1>4
  <2> HIDE DEF a, m, no, e
  <2>2. ghost'.midway = m /\ ghost'.intact = e
    BY ONLY <1>2, <2>1 DEF Ghosts
  <2> QED BY <2>2 DEF m, e
<1>7. CASE ~parse_gamepack(image)
  <2>1. host'.tool = "none" /\ host'.result = "invalid"
    BY <1>2, <1>4, <1>7 DEF Hosts
  <2>2. image # pack
    BY <1>7, PackFacts
  <2> QED BY <1>6, <2>1, <2>2 DEF TransferInv, RefusedForAReason, Unspoiled
<1>8. CASE parse_gamepack(image)
  <2>1. host' = [tool |-> "send", left |-> image, content |-> image, result |-> "none"]
    BY <1>4, <1>8
  <2>2. host'.tool = "send" /\ host'.left = image /\ host'.content = image /\ host'.result = "none"
    BY <2>1
  <2>3. Sound(image)
    <3>1. Len(image) \in Nat /\ Len(image) >= 6
      BY <1>5, <1>8 DEF parse_gamepack, HEADER_SIZE
    <3>2. HeaderOf(image)[3] = image[3] /\ HeaderOf(image)[6] = image[6]
      BY <1>5, <3>1 DEF HeaderOf, HEADER_SIZE
    <3>3. image[3] = payload_size_for(image[6])
      BY <1>8, <3>2 DEF parse_gamepack, HeaderGood
    <3>4. image[3] \in Nat \ {0}
      BY <1>5, <3>1, <3>3, PayloadSize
    <3>5. Len(image) = 6 + image[3]
      BY <1>8 DEF parse_gamepack, HEADER_SIZE
    <3> QED BY <1>8, <3>1, <3>4, <3>5 DEF Sound
  <2>4. ASSUME Unspoiled' PROVE At(0)'
    <3>1. ~Midway'
      BY <1>1, <1>6, <2>4 DEF Unspoiled, Midway
    <3>2. Len(image) \in Nat /\ Len(image) > 6 /\ 0 \notin 1 .. 5 /\ ~(0 >= 6) /\ 0 # Len(image)
      BY <1>5, <2>3 DEF Sound
    <3>3. Took(0)'
      BY <2>2, <3>1, <3>2 DEF Took
    <3>4. Len(wire') = 0 /\ Len(image) = 0 + 0 + Len(image)
      BY <1>2, <3>2
    <3>5. \A i \in 1 .. Len(image) : image[i] = image[0 + 0 + i]
      OBVIOUS
    <3>6. \A i \in 1 .. 0 : wire'[i] = image[0 + i]
      OBVIOUS
    <3> QED BY <2>2, <3>3, <3>4, <3>5, <3>6 DEF At
  <2>5. Unspoiled' => \E k \in Nat : At(k)'
    <3>1. 0 \in Nat
      OBVIOUS
    <3> QED BY <2>4, <3>1
  <2> QED BY <2>2, <2>3, <2>5 DEF TransferInv, RefusedForAReason
<1> QED BY <1>7, <1>8

\* The machine takes a byte of the transfer: the next one of the file.
LEMMA MachineTransfer == TypesInv /\ TransferInv /\ MachineByte => TransferInv'
<1> SUFFICES ASSUME TypesInv, TransferInv, MachineByte PROVE TransferInv'
  OBVIOUS
<1>1. HostTypes /\ wire # <<>> /\ wire' = Tail(wire) /\ loader' = LoaderByte(Head(wire))
      /\ UNCHANGED <<host, inbox, ghost>>
  BY DEF TypesInv, MachineByte
<1>2. wire \in Seq(Items) /\ host.left \in Seq(Items) /\ host.content \in Seq(Items)
  BY <1>1, Fields
<1>3. host.tool # "wait"
  BY <1>1 DEF TransferInv
<1>4. ASSUME Unspoiled PROVE \E k \in Nat : At(k)'
  <2>1. Sound(host.content)
    BY <1>4 DEF TransferInv
  <2>2. PICK k \in Nat : At(k)
    BY <1>4 DEF TransferInv
  <2>3. PICK n \in Nat, m \in Nat :
          /\ n > 0 /\ Len(wire) = n /\ Len(wire') = n - 1 /\ Len(host.left) = m
          /\ \A i \in 1 .. n - 1 : wire'[i] = wire[i + 1]
    BY <1>1, <1>2
  <2>4. Head(wire) = host.content[k + 1]
    <3>1. Head(wire) = wire[1] /\ 1 \in 1 .. n
      BY <1>1, <1>2, <2>3
    <3> QED BY <2>2, <2>3, <3>1 DEF At
  <2>5. Len(host.content) = k + n + m
    BY <2>2, <2>3 DEF At
  <2>6. k < Len(host.content)
    BY <2>3, <2>5
  <2>7. Took(k + 1)'
    <3>1. Took(k) /\ loader' = LoaderByte(host.content[k + 1]) /\ UNCHANGED host
      BY <1>1, <2>2, <2>4 DEF At
    <3> QED BY <2>1, <2>6, <3>1, LoaderTakes
  <2>8. Len(host.content) = (k + 1) + Len(wire') + Len(host.left)
    <3>1. k + n + m = (k + 1) + (n - 1) + m
      OBVIOUS
    <3> QED BY <2>3, <2>5, <3>1
  <2>9. \A i \in 1 .. Len(wire') : wire'[i] = host.content[(k + 1) + i]
    <3>1. ASSUME NEW i \in 1 .. n - 1 PROVE wire'[i] = host.content[(k + 1) + i]
      <4>1. i + 1 \in 1 .. n /\ k + (i + 1) = (k + 1) + i
        OBVIOUS
      <4>2. wire'[i] = wire[i + 1]
        BY <2>3
      <4> QED BY <2>2, <2>3, <4>1, <4>2 DEF At
    <3> QED BY <2>3, <3>1
  <2>10. \A i \in 1 .. Len(host.left) : host.left[i] = host.content[(k + 1) + Len(wire') + i]
    <3>1. ASSUME NEW i \in 1 .. m PROVE host.left[i] = host.content[(k + 1) + (n - 1) + i]
      <4>1. (k + 1) + (n - 1) + i = k + n + i
        OBVIOUS
      <4> QED BY <2>2, <2>3, <4>1 DEF At
    <3> QED BY <2>3, <3>1
  <2>11. At(k + 1)'
    BY <1>1, <2>7, <2>8, <2>9, <2>10 DEF At
  <2> QED BY <2>11
<1> QED BY <1>1, <1>3, <1>4 DEF TransferInv, RefusedForAReason, Unspoiled

\* The tool hands bytes to the line; what the machine has taken does not change.
LEMMA ChunkTransfer == TypesInv /\ TransferInv /\ SendChunk => TransferInv'
<1> SUFFICES ASSUME TypesInv, TransferInv, SendChunk PROVE TransferInv'
  OBVIOUS
<1>1. HostTypes /\ host.tool = "send" /\ UNCHANGED <<loader, inbox, ghost>>
  BY DEF TypesInv, SendChunk
<1>2. wire \in Seq(Items) /\ host.left \in Seq(Items) /\ host \in Hosts
  BY <1>1, Fields DEF HostTypes
<1>3. PICK count \in 1 .. Len(host.left) :
        /\ wire' = wire \o SubSeq(host.left, 1, count)
        /\ host' = [host EXCEPT !.left = SubSeq(@, count + 1, Len(@))]
  BY DEF SendChunk
<1> DEFINE chunk == SubSeq(host.left, 1, count)
           rest == SubSeq(host.left, count + 1, Len(host.left))
<1>4. /\ count \in Nat /\ 1 <= count /\ count <= Len(host.left) /\ Len(host.left) \in Nat
       /\ Len(wire) \in Nat
  BY <1>2
<1>5. /\ host'.left = rest /\ host'.tool = "send" /\ host'.content = host.content /\ host'.result = host.result
  BY <1>1, <1>2, <1>3 DEF Hosts
<1>6. /\ chunk \in Seq(Items) /\ Len(chunk) = count
      /\ \A i \in 1 .. count : chunk[i] = host.left[i]
  <2>1. 1 .. count \subseteq 1 .. Len(host.left) /\ 1 \in 1 .. Len(host.left) + 1
    BY <1>4
  <2> QED BY <1>2, <1>4, <2>1
<1>7. /\ rest \in Seq(Items) /\ Len(rest) = Len(host.left) - count
       /\ \A i \in 1 .. Len(host.left) - count : rest[i] = host.left[count + i]
  BY <1>2, <1>4
<1>8. wire' = wire \o chunk
  BY <1>3
<1> HIDE DEF chunk, rest
<1>9. PICK n \in Nat, m \in Nat : Len(wire) = n /\ Len(host.left) = m
  BY <1>4
<1>10. count \in Nat /\ 1 <= count /\ count <= m
  BY <1>4, <1>9
<1>11. /\ Len(wire') = n + count
      /\ \A i \in 1 .. n + count : wire'[i] = IF i <= n THEN wire[i] ELSE chunk[i - n]
  <2>1. wire \in Seq(Items) /\ chunk \in Seq(Items) /\ Len(wire) = n /\ Len(chunk) = count /\ wire' = wire \o chunk
    BY <1>2, <1>6, <1>8, <1>9
  <2> QED BY ONLY <2>1, ConcatProperties
<1>12. ASSUME Unspoiled PROVE \E k \in Nat : At(k)'
  <2>1. PICK k \in Nat : At(k)
    BY <1>12 DEF TransferInv
  <2>2. Took(k)'
    <3>1. Took(k) /\ UNCHANGED <<host.content, loader>>
      BY <1>1, <1>5, <2>1 DEF At
    <3> QED BY <3>1 DEF Took, Midway
  <2>3. /\ Len(host.content) = k + Len(wire) + Len(host.left)
        /\ \A i \in 1 .. Len(wire) : wire[i] = host.content[k + i]
        /\ \A i \in 1 .. Len(host.left) : host.left[i] = host.content[k + Len(wire) + i]
    BY <2>1 DEF At
  <2>4. Len(host.content) = k + Len(wire') + Len(rest)
    <3>1. k + n + m = k + (n + count) + (m - count)
      BY <1>10
    <3> QED BY <1>11, <1>7, <1>9, <2>3, <3>1
  <2>5. \A i \in 1 .. Len(wire') : wire'[i] = host.content[k + i]
    <3>1. ASSUME NEW i \in 1 .. n + count, i <= n PROVE wire'[i] = host.content[k + i]
      <4>1. i \in 1 .. n
        BY <1>10, <3>1
      <4> QED BY <1>11, <1>9, <2>3, <3>1, <4>1
    <3>2. ASSUME NEW i \in 1 .. n + count, ~(i <= n) PROVE wire'[i] = host.content[k + i]
      <4> DEFINE j == i - n
      <4>1. j \in 1 .. count /\ j \in 1 .. m /\ k + n + j = k + i
        BY <1>10, <3>2
      <4>2. wire'[i] = chunk[j]
        BY <1>11, <3>2
      <4> HIDE DEF j
      <4> QED BY <1>6, <1>9, <2>3, <4>1, <4>2
    <3> QED BY <1>11, <3>1, <3>2
  <2>6. \A i \in 1 .. Len(rest) : rest[i] = host.content[k + Len(wire') + i]
    <3>1. ASSUME NEW i \in 1 .. m - count PROVE rest[i] = host.content[k + (n + count) + i]
      <4>1. count + i \in 1 .. m /\ k + n + (count + i) = k + (n + count) + i
        BY <1>10
      <4> QED BY <1>7, <1>9, <2>3, <4>1
    <3> QED BY <1>11, <1>7, <1>9, <3>1
  <2> QED BY <1>5, <2>2, <2>4, <2>5, <2>6 DEF At
<1> QED BY <1>1, <1>5, <1>12 DEF TransferInv, RefusedForAReason, Unspoiled

\* What says where a transfer is, is in the file, the line and the loader only.
LEMMA SamePlace ==
  ASSUME NEW k, At(k), host'.content = host.content, host'.left = host.left, wire' = wire, loader' = loader
  PROVE  At(k)'
<1>1. Took(k)'
  <2>1. Midway' <=> Midway
    BY DEF Midway
  <2>2. HeaderOf(host.content)' = HeaderOf(host.content) /\ PayloadOf(host.content)' = PayloadOf(host.content)
    BY DEF HeaderOf, PayloadOf
  <2>3. Took(k)
    BY DEF At
  <2> QED BY <2>1, <2>2, <2>3 DEF Took
<1> QED BY <1>1 DEF At

\* When the tool waits, an undisturbed pack is complete in the machine.
LEMMA WaitingDone ==
  ASSUME TypesInv, TransferInv, Unspoiled, wire = <<>>, host.left = <<>>
  PROVE  /\ loader.ready /\ ~loader.fault /\ loader.state = "DONE"
         /\ loader.header = HeaderOf(host.content) /\ loader.payload = PayloadOf(host.content)
<1>1. PICK k \in Nat : At(k)
  BY DEF TransferInv
<1>2. k = Len(host.content)
  <2>1. Len(wire) = 0 /\ Len(host.left) = 0
    OBVIOUS
  <2>2. Len(host.content) = k + Len(wire) + Len(host.left)
    BY <1>1 DEF At
  <2> QED BY <2>1, <2>2
<1>3. /\ loader.state = "DONE" /\ loader.header = HeaderOf(host.content)
      /\ loader.payload = PayloadOf(host.content)
  BY <1>1, <1>2 DEF At, Took
<1> QED BY <1>3 DEF TypesInv, LoaderInv

\* A pack is turned down, or no status comes, only when something disturbed it.
LEMMA StatusTransfer ==
  TypesInv /\ TransferInv /\ (LoseByte \/ StatusLine \/ Drained \/ ReadStatus \/ StatusTimeout) => TransferInv'
<1> SUFFICES ASSUME TypesInv, TransferInv, LoseByte \/ StatusLine \/ Drained \/ ReadStatus \/ StatusTimeout
             PROVE  TransferInv'
  OBVIOUS
<1>1. HostTypes
  BY DEF TypesInv
<1>2. host \in Hosts /\ ghost \in Ghosts /\ inbox \in Seq(Lines) /\ ghost.lost \in Nat
  BY <1>1, Fields DEF HostTypes
<1>3. CASE LoseByte
  <2> DEFINE lost == ghost.lost + 1
             no == FALSE
  <2>1. ghost' = [ghost EXCEPT !.lost = lost, !.clean = no] /\ lost > 0
    BY <1>2, <1>3 DEF LoseByte
  <2>2. ghost'.lost = lost /\ ghost'.intact = ghost.intact
    <3> HIDE DEF lost, no
    <3> QED BY ONLY <1>2, <2>1 DEF Ghosts
  <2>3. ghost'.lost > 0
    BY <2>1, <2>2
  <2>4. host.tool # "wait" /\ UNCHANGED host
    BY <1>3 DEF LoseByte, TransferInv
  <2>5. ~Unspoiled'
    BY <1>2, <2>2 DEF Unspoiled
  <2> QED BY <2>2, <2>3, <2>4, <2>5 DEF TransferInv, RefusedForAReason
<1>4. CASE StatusLine
  <2>1. UNCHANGED <<host, wire, loader, ghost>> /\ inbox = <<>>
        /\ inbox' = Append(inbox, [p |-> loader.ready, y |-> loader.fault])
    BY <1>4 DEF StatusLine
  <2>2. ASSUME Unspoiled, host.tool = "wait" PROVE \A i \in DOMAIN inbox' : ~inbox'[i].y
    <3>1. ~loader.fault
      BY <2>2, WaitingDone DEF TransferInv
    <3>2. inbox' = <<[p |-> loader.ready, y |-> loader.fault]>>
      BY <2>1
    <3> QED BY <3>1, <3>2
  <2>3. Unspoiled' => Unspoiled
    BY <2>1 DEF Unspoiled
  <2>4. \A k : At(k) => At(k)'
    BY <2>1, SamePlace
  <2>5. RefusedForAReason' /\ (host'.tool = "wait" => wire' = <<>> /\ host'.left = <<>>)
    BY <2>1 DEF TransferInv, RefusedForAReason
  <2>6. ASSUME Unspoiled'
        PROVE  Sound(host'.content) /\ (\E k \in Nat : At(k)') /\ (host'.tool = "wait" => \A i \in DOMAIN inbox' : ~inbox'[i].y)
    BY <2>1, <2>2, <2>3, <2>4, <2>6 DEF TransferInv
  <2> QED BY <2>5, <2>6 DEF TransferInv
<1>5. CASE Drained
  <2>1. /\ host'.tool = "wait" /\ host'.left = host.left /\ host'.content = host.content
        /\ host'.result = host.result
    BY <1>2, <1>5 DEF Drained, Hosts
  <2>2. UNCHANGED <<wire, loader, ghost>> /\ inbox' = <<>> /\ wire = <<>> /\ host.left = <<>> /\ host.tool = "send"
    BY <1>5 DEF Drained, Flushed
  <2>3. Unspoiled' => Unspoiled
    BY <2>2 DEF Unspoiled
  <2>4. \A k : At(k) => At(k)'
    BY <2>1, <2>2, SamePlace
  <2>5. RefusedForAReason' /\ wire' = <<>> /\ host'.left = <<>>
    BY <2>1, <2>2 DEF TransferInv, RefusedForAReason
  <2>6. \A i \in DOMAIN inbox' : ~inbox'[i].y
    BY <2>2
  <2>7. ASSUME Unspoiled' PROVE Sound(host'.content) /\ \E k \in Nat : At(k)'
    BY <2>1, <2>3, <2>4, <2>7 DEF TransferInv
  <2> QED BY <2>5, <2>6, <2>7 DEF TransferInv
<1>6. CASE ReadStatus
  <2>1. /\ host.tool = "wait" /\ inbox # <<>> /\ inbox' = Tail(inbox) /\ UNCHANGED <<wire, loader, ghost>>
        /\ host' = IF Verdict(Head(inbox)) = "none" THEN host
                   ELSE [host EXCEPT !.tool = "none", !.result = Verdict(Head(inbox))]
    BY <1>6 DEF ReadStatus
  <2>2. Head(inbox) = inbox[1] /\ 1 \in DOMAIN inbox
    BY <1>2, <2>1
  <2>3. CASE Verdict(Head(inbox)) = "none"
    <3>1. host' = host
      BY <2>1, <2>3
    <3>2. \A k : At(k) => At(k)'
      BY <2>1, <3>1, SamePlace
    <3>3. \A i \in DOMAIN inbox' : i + 1 \in DOMAIN inbox /\ inbox'[i] = inbox[i + 1]
      BY <1>2, <2>1
    <3>4. Unspoiled' => Unspoiled
      BY <2>1, <3>1 DEF Unspoiled
    <3>5. RefusedForAReason' /\ wire' = <<>> /\ host'.left = <<>>
      BY <2>1, <3>1 DEF TransferInv, RefusedForAReason
    <3>6. ASSUME Unspoiled'
          PROVE  Sound(host'.content) /\ (\E k \in Nat : At(k)') /\ \A i \in DOMAIN inbox' : ~inbox'[i].y
      BY <2>1, <3>1, <3>2, <3>3, <3>4, <3>6 DEF TransferInv
    <3> QED BY <3>5, <3>6 DEF TransferInv
  <2>4. CASE Verdict(Head(inbox)) # "none"
    <3>1. host'.tool = "none" /\ host'.result = Verdict(Head(inbox))
      BY <1>2, <2>1, <2>4 DEF Hosts
    <3>2. ASSUME host'.result \in {"rejected", "timeout"} PROVE ghost'.midway \/ ghost'.lost > 0
      <4>1. Head(inbox).y
        BY <3>1, <3>2 DEF Verdict
      <4>2. ~Unspoiled
        BY <2>1, <2>2, <4>1 DEF TransferInv
      <4>3. ghost.midway \/ ghost.lost # 0
        BY <2>1, <4>2 DEF Unspoiled
      <4> QED BY <1>2, <2>1, <4>3
    <3>3. host'.result # "invalid"
      BY <3>1 DEF Verdict
    <3> QED BY <3>1, <3>2, <3>3 DEF TransferInv, RefusedForAReason, Unspoiled
  <2> QED BY <2>3, <2>4
<1>7. CASE StatusTimeout
  <2>1. host'.tool = "none" /\ host'.result = "timeout" /\ host.tool = "wait" /\ UNCHANGED ghost
        /\ ~loader.ready
    BY <1>2, <1>7 DEF StatusTimeout, Hosts, Reporting
  <2>2. ~Unspoiled
    BY <2>1, WaitingDone DEF TransferInv
  <2>3. ghost'.midway \/ ghost'.lost > 0
    BY <1>2, <2>1, <2>2 DEF Unspoiled
  <2> QED BY <2>1, <2>3 DEF TransferInv, RefusedForAReason, Unspoiled
<1> QED BY <1>3, <1>4, <1>5, <1>6, <1>7

\* The other tools leave the history of the last transfer alone.
LEMMA OtherTransfer ==
  TypesInv /\ TransferInv
    /\ (SendInput \/ StartBridge \/ KeyEvent \/ WriteFrame \/ Leave \/ Close \/ Break) => TransferInv'
<1> SUFFICES ASSUME TypesInv, TransferInv,
                    SendInput \/ StartBridge \/ KeyEvent \/ WriteFrame \/ Leave \/ Close \/ Break
             PROVE  TransferInv'
  OBVIOUS
<1>1. host \in Hosts /\ ghost \in Ghosts
  BY DEF TypesInv, HostTypes
<1>2. \A a, b : LET g == [ghost EXCEPT !.events = a, !.clean = b]
                IN  g.midway = ghost.midway /\ g.lost = ghost.lost /\ g.intact = ghost.intact
  BY <1>1 DEF Ghosts
<1>3. \A a, b : LET g == [ghost EXCEPT !.events = a, !.down = b]
                IN  g.midway = ghost.midway /\ g.lost = ghost.lost /\ g.intact = ghost.intact
  BY <1>1 DEF Ghosts
<1>4. \A a, b, c : LET g == [ghost EXCEPT !.clean = a, !.down = b, !.unwritten = c]
                   IN  g.midway = ghost.midway /\ g.lost = ghost.lost /\ g.intact = ghost.intact
  BY <1>1 DEF Ghosts
<1>5. \A a, b : LET g == [ghost EXCEPT !.unwritten = a, !.down = b]
                IN  g.midway = ghost.midway /\ g.lost = ghost.lost /\ g.intact = ghost.intact
  BY <1>1 DEF Ghosts
<1> DEFINE Same == ghost'.midway = ghost.midway /\ ghost'.lost = ghost.lost /\ ghost'.intact = ghost.intact
<1>6. CASE SendInput
  <2>1. Same
    BY <1>2, <1>6 DEF SendInput
  <2> QED BY <1>6, <2>1, QuietTransfer DEF SendInput, LineIdle
<1>7. CASE StartBridge
  <2>1. Same
    BY <1>4, <1>7 DEF StartBridge
  <2>2. host'.tool = "bridge" /\ host'.result = host.result
    BY <1>1, <1>7 DEF StartBridge, Hosts
  <2> QED BY <2>1, <2>2, QuietTransfer
<1>8. CASE KeyEvent
  <2>1. PICK code \in Codes, value \in 0 .. 2 :
          ghost' = [ghost EXCEPT !.events = @ + 1,
                                 !.down = CASE value = 1 -> @ \union {code}
                                            [] value = 0 -> @ \ {code}
                                            [] OTHER -> @]
    BY <1>8 DEF KeyEvent
  <2>2. \E a, b : ghost' = [ghost EXCEPT !.events = a, !.down = b]
    BY <2>1, Zenon
  <2>3. Same
    BY <1>3, <2>2
  <2> QED BY <1>8, <2>3, QuietTransfer DEF KeyEvent
<1>9. CASE WriteFrame
  BY <1>9, QuietTransfer DEF WriteFrame
<1>10. CASE Leave
  <2>1. Same
    BY <1>5, <1>10 DEF Leave
  <2>2. host'.tool = "release" /\ host'.result = host.result
    BY <1>1, <1>10 DEF Leave, Hosts
  <2> QED BY <2>1, <2>2, QuietTransfer
<1>11. CASE Close
  <2>1. host'.tool = "none" /\ host'.result = host.result
    BY <1>1, <1>11 DEF Close, Hosts
  <2> QED BY <1>11, <2>1, QuietTransfer DEF Close
<1>12. CASE Break
  <2>1. Same
    BY <1>4, <1>12 DEF Break
  <2>2. CASE host.tool \in {"send", "wait"}
    <3>1. host' = [tool |-> "none", left |-> <<>>, content |-> <<>>, result |-> "broken"]
      BY <1>12, <2>2 DEF Break
    <3>2. host'.tool = "none" /\ host'.result = "broken"
      BY <3>1
    <3> QED BY <3>2 DEF TransferInv, RefusedForAReason, Unspoiled
  <2>3. CASE host.tool \notin {"send", "wait"}
    <3>1. host' = [host EXCEPT !.tool = "none"]
      BY <1>12, <2>3 DEF Break
    <3>2. host'.tool = "none" /\ host'.result = host.result
      BY <1>1, <3>1 DEF Hosts
    <3> QED BY <2>1, <3>2, QuietTransfer
  <2> QED BY <2>2, <2>3
<1> QED BY <1>6, <1>7, <1>8, <1>9, <1>10, <1>11, <1>12

\* Every step keeps the file, the line and the loader in step.
LEMMA TransferStep == TypesInv /\ TransferInv /\ [HostNext]_hostVars => TransferInv'
<1> SUFFICES ASSUME TypesInv, TransferInv, [HostNext]_hostVars PROVE TransferInv'
  OBVIOUS
<1>1. CASE HostNext
  BY <1>1, LoadTransfer, MachineTransfer, ChunkTransfer, StatusTransfer, OtherTransfer DEF HostNext
<1>2. CASE UNCHANGED hostVars
  <2>1. UNCHANGED <<host, wire, inbox, loader, ghost>>
    BY <1>2 DEF hostVars
  <2>2. \A k : At(k) => At(k)'
    BY <2>1, SamePlace
  <2> QED BY <2>1, <2>2 DEF TransferInv, RefusedForAReason, Unspoiled
<1> QED BY <1>1, <1>2

(***************************************************************************)
(* load_gamepack.py refuses a pack only when its file was damaged, and     *)
(* reports the machine's refusal or silence only when the line lost a byte *)
(* or the machine still waited for the rest of an earlier pack, for every  *)
(* payload, number of backgrounds and room of the serial driver.           *)
(***************************************************************************)
THEOREM RefusalsJustified == HostSpec => []RefusedForAReason
<1>1. TypesInv /\ TransferInv /\ [HostNext]_hostVars => (TypesInv /\ TransferInv)'
  BY HostTypesStep, TransferStep
<1>2. HostInit => TypesInv /\ TransferInv
  BY TypesInit, TransferInit
<1>3. TransferInv => RefusedForAReason
  BY DEF TransferInv
<1> QED BY <1>1, <1>2, <1>3, PTL DEF HostSpec

(***************************************************************************)
(* After the answer: the pack that was accepted stays in the machine, as   *)
(* nothing that is sent now begins a new one.                              *)
(***************************************************************************)
UnspoiledAccepted == host.result = "accepted" /\ ~ghost.midway /\ ghost.lost = 0

AcceptedUndisturbed ==
  UnspoiledAccepted =>
    /\ loader.ready
    /\ loader.header = HeaderOf(host.content) /\ loader.payload = PayloadOf(host.content)

AcceptedInv ==
  /\ host.tool \in {"send", "wait"} => host.result = "none"
  /\ UnspoiledAccepted =>
       /\ wire \in Seq(Quiet) /\ loader.state = "DONE"
       /\ loader.header = HeaderOf(host.content) /\ loader.payload = PayloadOf(host.content)

\* No frame contains an "N".
LEMMA FramesQuiet == \A frame \in AnyFrame : frame \in Seq(Quiet)
<1>1. ASSUME NEW a \in Quiet, NEW b \in Quiet, NEW c \in Quiet
      PROVE  <<a, b>> \in Seq(Quiet) /\ <<a, b, c>> \in Seq(Quiet)
  OBVIOUS
<1>2. 75 \in Quiet /\ 74 \in Quiet /\ 0 \in Quiet /\ 1 \in Quiet /\ Names \subseteq Quiet /\ 0 .. 31 \subseteq Quiet
  BY DEF Quiet, Names, CAPS_SHIFT, ZERO, SYMBOL_SHIFT
<1>3. ASSUME NEW frame, NEW pressed \in BOOLEAN, frame \in KeyFrames(pressed) PROVE frame \in Seq(Quiet)
  <2>1. PICK name \in Names : frame = <<75, name, IF pressed THEN 1 ELSE 0>>
    BY <1>3 DEF KeyFrames, key_frame
  <2>2. name \in Quiet /\ (IF pressed THEN 1 ELSE 0) \in Quiet
    BY <1>2
  <2> QED BY <1>1, <1>2, <2>1, <2>2
<1>4. ASSUME NEW frame, frame \in JoystickFrames PROVE frame \in Seq(Quiet)
  <2>1. PICK m \in 0 .. 31 : frame = <<74, m>>
    BY <1>4 DEF JoystickFrames
  <2>2. m \in Quiet
    BY <1>2
  <2> QED BY <1>1, <1>2, <2>1, <2>2
<1> QED BY <1>3, <1>4 DEF AnyFrame, Frames

\* What is sent by hand is a frame.
LEMMA InputIsFrame == SendInput => wire' \in AnyFrame
<1> SUFFICES ASSUME SendInput PROVE wire' \in AnyFrame
  OBVIOUS
<1>1. PICK frame \in {key_frame(name, pressed) : name \in Names, pressed \in BOOLEAN}
                     \union {joystick_frame(bits) : bits \in {b \in SUBSET Bits : ~Opposing(b)}} :
        wire' = frame
  BY DEF SendInput
<1>2. ASSUME NEW name \in Names, NEW pressed \in BOOLEAN, frame = key_frame(name, pressed)
      PROVE  frame \in AnyFrame
  <2>1. frame \in Frames(pressed)
    BY <1>2 DEF Frames, KeyFrames
  <2> QED BY <2>1 DEF AnyFrame
<1>3. ASSUME NEW bits, frame = joystick_frame(bits) PROVE frame \in AnyFrame
  <2>1. frame \in JoystickFrames
    BY <1>3, MaskRange DEF joystick_frame, JoystickFrames
  <2> DEFINE on == TRUE
  <2>2. on \in BOOLEAN
    OBVIOUS
  <2> HIDE DEF on
  <2>3. frame \in Frames(on)
    BY <2>1 DEF Frames
  <2> QED BY <2>2, <2>3 DEF AnyFrame
<1> QED BY <1>1, <1>2, <1>3

\* While the pack is sent and answered: it is accepted when it is in the machine.
LEMMA SenderAccepted ==
  TypesInv /\ TransferInv /\ AcceptedInv
    /\ (Load \/ SendChunk \/ Drained \/ ReadStatus \/ StatusTimeout) => AcceptedInv'
<1> SUFFICES ASSUME TypesInv, TransferInv, AcceptedInv,
                    Load \/ SendChunk \/ Drained \/ ReadStatus \/ StatusTimeout
             PROVE  AcceptedInv'
  OBVIOUS
<1>1. host \in Hosts
  BY DEF TypesInv, HostTypes
<1>2. CASE Load
  <2>1. \E image : host' = IF parse_gamepack(image)
                           THEN [tool |-> "send", left |-> image, content |-> image, result |-> "none"]
                           ELSE [host EXCEPT !.content = <<>>, !.result = "invalid"]
    BY <1>2 DEF Load
  <2>2. PICK image : host' = IF parse_gamepack(image)
                             THEN [tool |-> "send", left |-> image, content |-> image, result |-> "none"]
                             ELSE [host EXCEPT !.content = <<>>, !.result = "invalid"]
    BY <2>1
  <2>3. host.tool = "none"
    BY <1>2 DEF Load, LineIdle
  <2>4. CASE parse_gamepack(image)
    <3>1. host' = [tool |-> "send", left |-> image, content |-> image, result |-> "none"]
      BY <2>2, <2>4
    <3>2. host'.result = "none"
      BY <3>1
    <3> QED BY <3>2 DEF AcceptedInv, UnspoiledAccepted
  <2>5. CASE ~parse_gamepack(image)
    <3>1. host'.tool = "none" /\ host'.result = "invalid"
      BY <1>1, <2>2, <2>3, <2>5 DEF Hosts
    <3> QED BY <3>1 DEF AcceptedInv, UnspoiledAccepted
  <2> QED BY <2>4, <2>5
<1>3. CASE SendChunk \/ Drained
  <2>1. host'.result = host.result /\ host.tool = "send"
    BY <1>1, <1>3 DEF SendChunk, Drained, Hosts
  <2> QED BY <2>1 DEF AcceptedInv, UnspoiledAccepted
<1>4. CASE ReadStatus
  <2>1. /\ host.tool = "wait" /\ UNCHANGED <<wire, loader, ghost>>
        /\ host' = IF Verdict(Head(inbox)) = "none" THEN host
                   ELSE [host EXCEPT !.tool = "none", !.result = Verdict(Head(inbox))]
    BY <1>4 DEF ReadStatus
  <2>2. CASE host' = host
    BY <2>1, <2>2 DEF AcceptedInv, UnspoiledAccepted
  <2>3. CASE host' = [host EXCEPT !.tool = "none", !.result = Verdict(Head(inbox))]
    <3>1. host'.tool = "none" /\ host'.content = host.content
      BY <1>1, <2>3 DEF Hosts
    <3>2. ASSUME UnspoiledAccepted'
          PROVE  /\ loader.state = "DONE" /\ loader.header = HeaderOf(host.content)
                 /\ loader.payload = PayloadOf(host.content) /\ wire = <<>>
      <4>1. Unspoiled
        BY <2>1, <3>2 DEF Unspoiled, UnspoiledAccepted
      <4>2. wire = <<>> /\ host.left = <<>>
        BY <2>1 DEF TransferInv
      <4> QED BY <4>1, <4>2, WaitingDone
    <3>3. <<>> \in Seq(Quiet)
      OBVIOUS
    <3> QED BY <2>1, <3>1, <3>2, <3>3 DEF AcceptedInv
  <2> QED BY <2>1, <2>2, <2>3
<1>5. CASE StatusTimeout
  <2>1. host'.tool = "none" /\ host'.result = "timeout"
    BY <1>1, <1>5 DEF StatusTimeout, Hosts
  <2> QED BY <2>1 DEF AcceptedInv, UnspoiledAccepted
<1> QED BY <1>2, <1>3, <1>4, <1>5

\* The machine takes a byte that is no "N", or the line loses one.
LEMMA MachineAccepted ==
  TypesInv /\ AcceptedInv /\ (MachineByte \/ LoseByte \/ StatusLine) => AcceptedInv'
<1> SUFFICES ASSUME TypesInv, AcceptedInv, MachineByte \/ LoseByte \/ StatusLine PROVE AcceptedInv'
  OBVIOUS
<1>1. host' = host
  BY DEF MachineByte, LoseByte, StatusLine
<1>2. CASE MachineByte
  <2>1. wire # <<>> /\ wire' = Tail(wire) /\ loader' = LoaderByte(Head(wire)) /\ ghost' = ghost
    BY <1>2 DEF MachineByte
  <2>2. ASSUME UnspoiledAccepted PROVE wire' \in Seq(Quiet) /\ loader' = loader
    <3>1. wire \in Seq(Quiet) /\ loader.state = "DONE"
      BY <2>2 DEF AcceptedInv
    <3>2. Head(wire) \in Quiet /\ Tail(wire) \in Seq(Quiet)
      BY <2>1, <3>1
    <3>3. Head(wire) # N
      <4>1. \A byte \in Quiet : byte # N
        BY DEF Quiet, N
      <4> QED BY <3>2, <4>1
    <3> QED BY <2>1, <3>1, <3>2, <3>3 DEF LoaderByte, Restart
  <2> QED BY <1>1, <2>1, <2>2 DEF AcceptedInv, UnspoiledAccepted
<1>3. CASE LoseByte
  <2> DEFINE lost == ghost.lost + 1
             no == FALSE
  <2>1. ghost' = [ghost EXCEPT !.lost = lost, !.clean = no] /\ lost # 0 /\ ghost \in Ghosts
    BY <1>3, Fields DEF LoseByte, TypesInv, HostTypes
  <2>2. ghost'.lost = lost
    <3> HIDE DEF lost, no
    <3> QED BY ONLY <2>1 DEF Ghosts
  <2>3. ghost'.lost # 0
    BY <2>1, <2>2
  <2> QED BY <1>1, <2>3 DEF AcceptedInv, UnspoiledAccepted
<1>4. CASE StatusLine
  BY <1>1, <1>4 DEF StatusLine, AcceptedInv, UnspoiledAccepted
<1> QED BY <1>2, <1>3, <1>4

\* The other tools put nothing but frames on the line.
LEMMA OtherAccepted ==
  TypesInv /\ AcceptedInv
    /\ (SendInput \/ StartBridge \/ KeyEvent \/ WriteFrame \/ Leave \/ Close \/ Break) => AcceptedInv'
<1> SUFFICES ASSUME TypesInv, AcceptedInv,
                    SendInput \/ StartBridge \/ KeyEvent \/ WriteFrame \/ Leave \/ Close \/ Break
             PROVE  AcceptedInv'
  OBVIOUS
<1>1. host \in Hosts /\ ghost \in Ghosts /\ bridge.frames \in Seq(AnyFrame)
  BY Fields DEF TypesInv, HostTypes
<1>2. \A a, b : LET g == [ghost EXCEPT !.events = a, !.clean = b]
                IN  g.midway = ghost.midway /\ g.lost = ghost.lost
  BY <1>1 DEF Ghosts
<1>3. \A a, b : LET g == [ghost EXCEPT !.events = a, !.down = b]
                IN  g.midway = ghost.midway /\ g.lost = ghost.lost
  BY <1>1 DEF Ghosts
<1>4. \A a, b, c : LET g == [ghost EXCEPT !.clean = a, !.down = b, !.unwritten = c]
                   IN  g.midway = ghost.midway /\ g.lost = ghost.lost
  BY <1>1 DEF Ghosts
<1>5. \A a, b : LET g == [ghost EXCEPT !.unwritten = a, !.down = b]
                IN  g.midway = ghost.midway /\ g.lost = ghost.lost
  BY <1>1 DEF Ghosts
<1>6. ghost'.midway = ghost.midway /\ ghost'.lost = ghost.lost
  <2>1. CASE SendInput
    BY <1>2, <2>1 DEF SendInput
  <2>2. CASE StartBridge
    BY <1>4, <2>2 DEF StartBridge
  <2>3. CASE Break
    BY <1>4, <2>3 DEF Break
  <2>4. CASE KeyEvent
    <3>1. PICK code \in Codes, value \in 0 .. 2 :
            ghost' = [ghost EXCEPT !.events = @ + 1,
                                   !.down = CASE value = 1 -> @ \union {code}
                                              [] value = 0 -> @ \ {code}
                                              [] OTHER -> @]
      BY <2>4 DEF KeyEvent
    <3>2. \E a, b : ghost' = [ghost EXCEPT !.events = a, !.down = b]
      BY <3>1, Zenon
    <3> QED BY <1>3, <3>2
  <2>5. CASE Leave
    BY <1>5, <2>5 DEF Leave
  <2>6. CASE WriteFrame \/ Close
    BY <2>6 DEF WriteFrame, Close
  <2> QED BY <2>1, <2>2, <2>4, <2>5, <2>6, <2>3
<1>7. loader' = loader
  <2>1. CASE SendInput \/ StartBridge
    BY <2>1 DEF SendInput, StartBridge
  <2>2. CASE KeyEvent
    BY <2>2 DEF KeyEvent
  <2>3. CASE WriteFrame \/ Leave
    BY <2>3 DEF WriteFrame, Leave
  <2>4. CASE Close \/ Break
    BY <2>4 DEF Close, Break
  <2> QED BY <2>1, <2>2, <2>3, <2>4
<1>8. ASSUME UnspoiledAccepted, wire \in Seq(Quiet) PROVE wire' \in Seq(Quiet)
  <2>1. CASE SendInput
    BY <2>1, InputIsFrame, FramesQuiet
  <2>2. CASE WriteFrame
    <3>1. Head(bridge.frames) \in AnyFrame /\ wire' = wire \o Head(bridge.frames)
      BY <1>1, <2>2 DEF WriteFrame, Written
    <3>2. Head(bridge.frames) \in Seq(Quiet)
      BY <3>1, FramesQuiet
    <3> QED BY <1>8, <3>1, <3>2
  <2>3. CASE StartBridge \/ KeyEvent \/ Leave \/ Close
    BY <1>8, <2>3 DEF StartBridge, KeyEvent, Leave, Close
  <2>4. CASE Break
    <3>1. wire' \in {wire, <<>>} /\ <<>> \in Seq(Quiet)
      BY <2>4 DEF Break
    <3> QED BY <1>8, <3>1
  <2> QED BY <2>1, <2>2, <2>3, <2>4
<1>9. \/ host'.result = "broken" /\ host'.tool = "none"
      \/ host'.result = host.result /\ host'.content = host.content /\ host'.tool \notin {"send", "wait"}
  <2>1. CASE SendInput
    BY <2>1 DEF SendInput, LineIdle
  <2>2. CASE KeyEvent
    BY <2>2 DEF KeyEvent
  <2>3. CASE WriteFrame
    BY <2>3 DEF WriteFrame
  <2>4. CASE StartBridge \/ Leave \/ Close
    BY <1>1, <2>4 DEF StartBridge, Leave, Close, Hosts
  <2>5. CASE Break
    <3>1. CASE host.tool \in {"send", "wait"}
      <4>1. host' = [tool |-> "none", left |-> <<>>, content |-> <<>>, result |-> "broken"]
        BY <2>5, <3>1 DEF Break
      <4> QED BY <4>1
    <3>2. CASE host.tool \notin {"send", "wait"}
      BY <1>1, <2>5, <3>2 DEF Break, Hosts
    <3> QED BY <3>1, <3>2
  <2> QED BY <2>1, <2>4, <2>5, <2>2, <2>3
<1> QED BY <1>6, <1>7, <1>8, <1>9 DEF AcceptedInv, UnspoiledAccepted

(***************************************************************************)
(* A pack that load_gamepack.py reports accepted is in the machine, header *)
(* and payload to the last byte, and stays there, if the line lost nothing *)
(* and the loader was between two packs when it came: also after packs     *)
(* that failed, with status lines of earlier ones still unread, and after  *)
(* any inputs since.                                                       *)
(***************************************************************************)
THEOREM AcceptedIsInMachine == HostSpec => []AcceptedUndisturbed
<1>1. HostInit => TypesInv /\ TransferInv /\ AcceptedInv
  <2>1. HostInit => AcceptedInv
    BY DEF HostInit, AcceptedInv, UnspoiledAccepted
  <2> QED BY <2>1, TypesInit, TransferInit
<1>2. TypesInv /\ TransferInv /\ AcceptedInv /\ [HostNext]_hostVars => (TypesInv /\ TransferInv /\ AcceptedInv)'
  <2>1. TypesInv /\ TransferInv /\ AcceptedInv /\ HostNext => AcceptedInv'
    BY SenderAccepted, MachineAccepted, OtherAccepted DEF HostNext
  <2>2. AcceptedInv /\ UNCHANGED hostVars => AcceptedInv'
    BY DEF hostVars, AcceptedInv, UnspoiledAccepted
  <2> QED BY <2>1, <2>2, HostTypesStep, TransferStep
<1>3. TypesInv /\ AcceptedInv => AcceptedUndisturbed
  BY DEF AcceptedInv, AcceptedUndisturbed, TypesInv, LoaderInv
<1> QED BY <1>1, <1>2, <1>3, PTL DEF HostSpec
================================================================================
