------------------------------- MODULE Sessions -------------------------------
(***************************************************************************)
(* One user's sessions.  A login leaves a refresh token, a refresh swaps   *)
(* it for the next one, a reset link changes the password and closes every *)
(* session, and each page asks, at most once per ten seconds, whether the  *)
(* user and his company are still allowed in.                              *)
(*                                                                         *)
(* Requests interleave between their calls of the database; a password is  *)
(* compared with the hash its request read.  Access tokens live 15 minutes *)
(* and are not stored, so a page carries one whenever it likes.            *)
(***************************************************************************)
EXTENDS Integers, FiniteSets

CONSTANTS Requests,
          Tokens,       \* refresh tokens that may be issued
          Links,        \* password links that may be made
          NoToken, NoLink,
          LinksPerHour,
          TTL,          \* ticks an answer of checkAccess is kept for
          MaxEvents     \* changes by the super admin and the clock

VARIABLES
  user,      \* users: active; closings: how often his sessions were closed
  company,   \* accountStatus
  tokens,    \* refresh_tokens: none, live, expired or gone; since: closings at its login
  links,     \* password_reset_tokens: none, open, used or expired; of this hour; uses
  cache,     \* account-access: known, denied, its age in ticks
  job,       \* job[r]: what request r is doing
  panel,     \* the super admin's request has changed something and not yet cleared the cache
  shut,      \* ticks since the account was closed
  lateFill,  \* the cache holds an answer that is older than the closing
  successors,\* successors[t]: tokens issued for t
  events

vars == <<user, company, tokens, links, cache, job, panel, shut, lateFill, successors, events>>
store == <<tokens, links, successors>>
door  == <<company, cache, panel, shut, lateFill>>

Statuses == {"ACTIVE", "SUSPENDED", "ARCHIVED"}
Kinds    == {"own", "switch", "manage", "super"}
Unused   == [state |-> "none", since |-> 0, late |-> FALSE]
NoLinkYet == [state |-> "none", purpose |-> "RESET", recent |-> FALSE, uses |-> 0]
Idle == [at |-> "idle", token |-> NoToken, link |-> NoLink, since |-> 0, denied |-> FALSE,
         excused |-> FALSE, wrong |-> FALSE]

Init ==
  /\ user = [active |-> TRUE, closings |-> 0] /\ company = "ACTIVE"
  /\ tokens = [t \in Tokens |-> Unused] /\ links = [l \in Links |-> NoLinkYet]
  /\ cache = [known |-> FALSE, denied |-> FALSE, age |-> 0]
  /\ job = [r \in Requests |-> Idle] /\ panel = FALSE /\ shut = 0 /\ lateFill = FALSE
  /\ successors = [t \in Tokens |-> 0] /\ events = 0

\* The platform owner's companies are always open: this one is a merchant's.
isAccountOpen == company = "ACTIVE"
denied == ~user.active \/ ~isAccountOpen
bypassesAccountChecks(kind) == kind \in {"super", "manage"}

Become(r, j) == job' = [job EXCEPT ![r] = j]
Goto(r, place) == Become(r, [job[r] EXCEPT !.at = place])
Spend == events < MaxEvents /\ events' = events + 1
\* Tokens and links are random: which of the unused ones is given is left to
\* CHOOSE.
Unmade(S, f) == {x \in S : f[x].state = "none"}
New(S, f) == IF Unmade(S, f) = {} THEN {} ELSE {CHOOSE x \in Unmade(S, f) : TRUE}

-----------------------------------------------------------------------------
(* Logging in and refreshing.                                              *)

\* His password is right: it is compared with the row just read.
Login(r) ==
  /\ job[r] = Idle /\ user.active
  /\ Become(r, [Idle EXCEPT !.at = "open", !.since = user.closings])
  /\ UNCHANGED <<user, door, store, events>>

AssertTenantOpen(r) ==
  /\ job[r].at = "open"
  /\ IF isAccountOpen THEN Goto(r, "issue") ELSE Become(r, Idle)
  /\ UNCHANGED <<user, door, store, events>>

Born(t, since) ==
  [tokens EXCEPT ![t] = [state |-> "live", since |-> since, late |-> since # user.closings]]

IssueTokens(r) ==
  /\ job[r].at = "issue"
  /\ \E t \in New(Tokens, tokens) : tokens' = Born(t, job[r].since)
  /\ Become(r, Idle) /\ UNCHANGED <<user, door, links, successors, events>>

RefreshAccessToken(r, t) ==
  /\ job[r] = Idle /\ tokens[t].state = "live"
  /\ Become(r, [Idle EXCEPT !.at = "checked", !.token = t])
  /\ UNCHANGED <<user, door, store, events>>

RefreshCheck(r) ==
  /\ job[r].at = "checked"
  /\ IF denied THEN Become(r, Idle) ELSE Goto(r, "rotate")
  /\ UNCHANGED <<user, door, store, events>>

\* Deleting a token that is gone fails, and the new one is not made.
CanDelete(t) == tokens[t].state \in {"live", "expired"}
Replaces(t) == CanDelete(t)
Rotate(r) ==
  /\ job[r].at = "rotate"
  /\ LET old == job[r].token IN
     IF Replaces(old)
     THEN /\ \E t \in New(Tokens, tokens) :
               tokens' = [tokens EXCEPT ![old].state = "gone", ![t] = [@ EXCEPT
                            !.state = "live", !.since = tokens[old].since, !.late = tokens[old].late]]
          /\ successors' = [successors EXCEPT ![old] = @ + 1]
     ELSE UNCHANGED <<tokens, successors>>
  /\ Become(r, Idle) /\ UNCHANGED <<user, door, links, events>>

-----------------------------------------------------------------------------
(* Forgotten and reset passwords.  Changing the password from the account  *)
(* page leaves the sessions as they are.                                   *)

ForgotPassword(r) ==
  /\ job[r] = Idle /\ user.active
  /\ Cardinality({l \in Links : links[l].recent}) < LinksPerHour
  /\ Become(r, [Idle EXCEPT !.at = "make"])
  /\ UNCHANGED <<user, door, store, events>>

Open(l, purpose) == links' = [links EXCEPT ![l] =
  [state |-> "open", purpose |-> purpose, recent |-> TRUE, uses |-> 0]]
CreatePasswordLink(r) ==
  /\ job[r].at = "make" /\ \E l \in New(Links, links) : Open(l, "RESET")
  /\ Become(r, Idle) /\ UNCHANGED <<user, door, tokens, successors, events>>

ResetPassword(r, l) ==
  /\ job[r] = Idle /\ links[l].state = "open" /\ user.active
  /\ Become(r, [Idle EXCEPT !.at = "claim", !.link = l])
  /\ UNCHANGED <<user, door, store, events>>

\* A link is claimed before it is used: only one of two requests gets it.
Unclaimed(l) == links[l].state # "used"
Claimable(l) == Unclaimed(l)
ClaimLink(r) ==
  /\ job[r].at = "claim"
  /\ IF Claimable(job[r].link)
     THEN /\ links' = [links EXCEPT ![job[r].link].state = "used"] /\ Goto(r, "hash")
     ELSE Become(r, Idle) /\ UNCHANGED links
  /\ UNCHANGED <<user, door, tokens, successors, events>>

Close(s) == IF s = "none" THEN s ELSE "gone"
KeepOpen(s) == s   \* mutant: the sessions stay
AfterReset(s) == Close(s)
CloseSessions == tokens' = [t \in Tokens |-> [tokens[t] EXCEPT !.state = AfterReset(@)]]
UseUp(l) == IF links[l].state = "open" THEN [links[l] EXCEPT !.state = "used"] ELSE links[l]
SetPassword(r) ==
  /\ job[r].at = "hash"
  /\ user' = [user EXCEPT !.closings = @ + 1]
  /\ CloseSessions
  /\ links' = [l \in Links |-> [UseUp(l) EXCEPT !.uses = @ + (IF l = job[r].link THEN 1 ELSE 0)]]
  /\ Become(r, Idle) /\ UNCHANGED <<door, successors, events>>

\* The super admin gives the owner another email: his sessions are closed and
\* a link goes to the new address.
ChangeOwnerEmail(r) ==
  /\ job[r] = Idle /\ Spend
  /\ user' = [user EXCEPT !.closings = @ + 1] /\ CloseSessions
  /\ Become(r, [Idle EXCEPT !.at = "make"])
  /\ UNCHANGED <<door, links, successors>>

-----------------------------------------------------------------------------
(* Pages, and who may see them.                                            *)

Hit == cache.known /\ cache.age < TTL

Served(r, excused) == Become(r, [Idle EXCEPT !.at = "served", !.excused = excused, !.wrong = denied])
RequireAuth(r, kind) ==
  /\ job[r] = Idle
  /\ CASE bypassesAccountChecks(kind) -> Served(r, TRUE)
       [] ~bypassesAccountChecks(kind) /\ Hit -> IF cache.denied THEN UNCHANGED job
            ELSE Served(r, panel \/ (lateFill /\ shut < TTL))
       [] OTHER -> Become(r, [Idle EXCEPT !.at = "ask"])
  /\ UNCHANGED <<user, door, store, events>>

\* The user and the company are read together, and the answer kept after.
CheckAccess(r) ==
  /\ job[r].at = "ask" /\ Become(r, [job[r] EXCEPT !.at = "keep", !.denied = denied])
  /\ UNCHANGED <<user, door, store, events>>
KeepAnswer(r) ==
  /\ job[r].at = "keep"
  /\ cache' = [known |-> TRUE, denied |-> job[r].denied, age |-> 0]
  /\ lateFill' = (denied /\ ~job[r].denied)
  /\ IF job[r].denied THEN Become(r, Idle) ELSE Served(r, TRUE)
  /\ UNCHANGED <<user, company, panel, shut, store, events>>
Done(r) == job[r].at = "served" /\ Become(r, Idle) /\ UNCHANGED <<user, door, store, events>>

-----------------------------------------------------------------------------
(* The super admin, and time.                                              *)

Changed == panel' = TRUE /\ shut' = 0 /\ lateFill' = FALSE
SetTenantStatus(s) ==
  /\ ~panel /\ Spend /\ s # company /\ company' = s /\ Changed
  /\ UNCHANGED <<user, cache, job, store>>
SetUserActive(b) ==
  /\ ~panel /\ Spend /\ user.active # b /\ user' = [user EXCEPT !.active = b] /\ Changed
  /\ UNCHANGED <<company, cache, job, store>>
ClearAccessCache ==
  /\ panel /\ panel' = FALSE /\ cache' = [cache EXCEPT !.known = FALSE]
  /\ UNCHANGED <<user, company, shut, lateFill, job, store, events>>

\* A check of access is answered within a tick.
Tick ==
  /\ Spend /\ ~panel /\ \A r \in Requests : job[r].at \notin {"ask", "keep", "served"}
  /\ cache' = [cache EXCEPT !.age = IF @ < TTL THEN @ + 1 ELSE @]
  /\ shut' = IF shut < TTL THEN shut + 1 ELSE shut
  /\ UNCHANGED <<user, company, panel, lateFill, job, store>>
\* A token lives 30 days; a reset link an hour, an invitation a week.
TokenExpires(t) ==
  /\ Spend /\ tokens[t].state = "live" /\ tokens' = [tokens EXCEPT ![t].state = "expired"]
  /\ UNCHANGED <<user, door, job, links, successors>>
HourPasses ==
  /\ Spend /\ \E l \in Links : links[l].recent
  /\ links' = [l \in Links |-> [links[l] EXCEPT !.recent = FALSE,
                 !.state = IF @ = "open" /\ links[l].purpose = "RESET" THEN "expired" ELSE @]]
  /\ UNCHANGED <<user, door, job, tokens, successors>>

Next ==
  \/ \E r \in Requests :
       \/ Login(r)
       \/ \E l \in Links : ResetPassword(r, l)
       \/ \E t \in Tokens : RefreshAccessToken(r, t)
       \/ \E kind \in Kinds : RequireAuth(r, kind)
       \/ AssertTenantOpen(r) \/ IssueTokens(r) \/ RefreshCheck(r) \/ Rotate(r)
       \/ ForgotPassword(r) \/ CreatePasswordLink(r) \/ ClaimLink(r) \/ SetPassword(r)
       \/ ChangeOwnerEmail(r) \/ CheckAccess(r) \/ KeepAnswer(r) \/ Done(r)
  \/ \E s \in Statuses : SetTenantStatus(s)
  \/ \E b \in BOOLEAN : SetUserActive(b)
  \/ ClearAccessCache \/ Tick \/ HourPasses
  \/ \E t \in Tokens : TokenExpires(t)

Spec == Init /\ [][Next]_vars

-----------------------------------------------------------------------------
\* A page of a closed company, or of a disabled user, is served only to those
\* who bypass the check, while the closing or the page's own check is under
\* way, or for TTL ticks after a check that the closing overtook.
ClosedIsClosed == \A r \in Requests : job[r].wrong => job[r].excused

\* A reset closes the sessions for good: a refresh that was under way brings
\* none of them back.  Only a login that was under way survives it.
ResetClosesSessions ==
  \A t \in Tokens : tokens[t].state = "live" /\ tokens[t].since # user.closings => tokens[t].late

\* A refresh token is exchanged once, and a link sets the password once,
\* however many requests carry them at the same time.
UsedOnce == /\ \A t \in Tokens : successors[t] <= 1
            /\ \A l \in Links : links[l].uses <= 1
-----------------------------------------------------------------------------
(* Why: an answer read before a closing is kept in the tick of the closing *)
(* or not at all; a token swapped is gone, and a link claimed is one       *)
(* request's.                                                              *)

Places == {"idle", "open", "issue", "checked", "rotate", "make", "claim", "hash", "served", "ask", "keep"}
Job == [at : Places, token : Tokens \cup {NoToken}, link : Links \cup {NoLink}, since : Nat, denied : BOOLEAN,
        excused : BOOLEAN, wrong : BOOLEAN]
TypeOK ==
  /\ user \in [active : BOOLEAN, closings : Nat] /\ company \in Statuses
  /\ tokens \in [Tokens -> [state : {"none", "live", "expired", "gone"}, since : Nat, late : BOOLEAN]]
  /\ links \in [Links -> [state : {"none", "open", "used", "expired"}, purpose : {"RESET"}, recent : BOOLEAN, uses : Nat]]
  /\ cache \in [known : BOOLEAN, denied : BOOLEAN, age : Nat] /\ job \in [Requests -> Job]
  /\ panel \in BOOLEAN /\ shut \in Nat /\ lateFill \in BOOLEAN
  /\ successors \in [Tokens -> Nat] /\ events \in Nat

\* Once the super admin's request has ended, an open answer about a closed
\* account was late, and is as old as the closing.
DoorInv ==
  /\ denied => \A r \in Requests : job[r].at = "keep" /\ ~job[r].denied => shut = 0
  /\ denied /\ cache.known /\ ~cache.denied /\ ~panel => lateFill /\ shut <= cache.age
TokenInv(t) ==
  /\ tokens[t].state \in {"live", "expired"} /\ tokens[t].since # user.closings => tokens[t].late
  /\ successors[t] <= IF tokens[t].state = "gone" THEN 1 ELSE 0
Claims(r) == job[r].at = "hash"
LinkInv ==
  /\ \A l \in Links : links[l].uses <= IF links[l].state = "used" THEN 1 ELSE 0
  /\ \A r \in Requests : job[r].at \in {"claim", "hash"} => job[r].link \in Links
  /\ \A r \in Requests : Claims(r) =>
       /\ links[job[r].link].state = "used" /\ links[job[r].link].uses = 0
       /\ \A q \in Requests \ {r} : Claims(q) => job[q].link # job[r].link
SessionsInv ==
  /\ TypeOK /\ ClosedIsClosed /\ DoorInv /\ LinkInv
  /\ \A t \in Tokens : TokenInv(t)
  /\ \A r \in Requests : job[r].at \in {"checked", "rotate"} => job[r].token \in Tokens
=============================================================================
