------------------------------ MODULE Companies -------------------------------
(***************************************************************************)
(* The companies and their users: who owns a company, which account an     *)
(* email or a Google account leads to, and the tokens that carry a role.   *)
(* Companies come from registration, from the super admin and from an      *)
(* owner who buys or is given another one; users are invited, renamed and  *)
(* handed the ownership.                                                   *)
(*                                                                         *)
(* Whether a user is disabled is the business of module Sessions.          *)
(*                                                                         *)
(* Every request reads first and writes later: others come in between, and *)
(* the process may stop there.                                             *)
(***************************************************************************)
EXTENDS Integers, FiniteSets

CONSTANTS Requests,
          Firms, Agency,   \* companies that may be made; the agency's own
          Users,           \* rows of the users table
          Emails,          \* a Google account has the id of its email
          Nobody, NoFirm, NoEmail,
          First, Home, Mail, \* the first owner, his company and his email
          MaxRequests

ASSUME FirstAssumption == First \in Users /\ Home \in Firms /\ Mail \in Emails
ASSUME NobodyAssumption == Nobody \notin Users
ASSUME NoFirmAssumption == NoFirm \notin Firms

VARIABLES
  users,     \* the users table
  branches,  \* companies with a branch
  members,   \* company_memberships: the owner, the company, his user in it
  assigned,  \* agency_assignments: the employee and the client
  carried,   \* access tokens: the user and the role they say he has
  job,       \* job[r]: what request r is doing
  asked,     \* requests so far
  doubled,   \* emails given twice by an invitation, or by overlapping requests
  shared,    \* companies handed over by a former owner, or twice at once
  relinked   \* users linked to Google while their email was changing

vars == <<users, branches, members, assigned, carried, job, asked, doubled, shared, relinked>>

Roles == {"OWNER", "ADMIN", "STAFF"}
NoUser == [firm |-> NoFirm, email |-> NoEmail, role |-> "STAFF", home |-> TRUE, agency |-> FALSE,
           google |-> NoEmail]
Owns(owner, c, u) == <<owner, c, u>>     \* his user in company c
Assigned(u, c)    == <<u, c>>
Idle == [at |-> "idle", who |-> Nobody, firm |-> NoFirm, email |-> NoEmail, target |-> Nobody,
         clear |-> TRUE]

Init ==
  /\ users = [u \in Users |-> IF u = First THEN [NoUser EXCEPT !.firm = Home, !.email = Mail, !.role = "OWNER"]
                              ELSE NoUser]
  /\ branches = {Home}
  /\ members = {} /\ assigned = {} /\ carried = {<<First, "OWNER">>}
  /\ job = [r \in Requests |-> Idle] /\ asked = 0
  /\ doubled = {} /\ shared = {} /\ relinked = {}

There(u)    == users[u].firm # NoFirm
In(c)       == {u \in Users : users[u].firm = c}
Owners(c)   == {u \in In(c) : users[u].role = "OWNER" /\ users[u].home}
Named(e)    == {u \in Users : There(u) /\ users[u].email = e}
HomeOf(e)   == {u \in Named(e) : users[u].home}
Spare       == {u \in Users : ~There(u)}
Unmade(c)   == In(c) = {} /\ c \notin branches

\* Another account that logs in with this email.
Taken(e, except) == HomeOf(e) \ {except} # {}
emailTaken(e, except) == Taken(e, except)

Start(r, j) == job[r] = Idle /\ asked < MaxRequests /\ asked' = asked + 1 /\ job' = [job EXCEPT ![r] = j]
Become(r, j) == job' = [job EXCEPT ![r] = j]
Goto(r, place) == Become(r, [job[r] EXCEPT !.at = place])
others == <<assigned, relinked>>

\* The email was free when its request asked and is not any more.
Gives(e, u, r) == doubled' = IF Taken(e, u) /\ job[r].clear THEN doubled \cup {e} ELSE doubled

-----------------------------------------------------------------------------
(* Companies.                                                              *)

\* By a form or by Google: any account of this email stops it.
RegisterTenant(r, e) ==
  /\ Named(e) = {} /\ Start(r, [Idle EXCEPT !.at = "register", !.email = e])
  /\ UNCHANGED <<users, branches, members, carried, doubled, shared, others>>
CreateTenant(r, google) ==
  /\ job[r].at = "register"
  /\ \E u \in Spare, c \in Firms :
       /\ Unmade(c)
       /\ users' = [users EXCEPT ![u] = [NoUser EXCEPT !.firm = c, !.email = job[r].email, !.role = "OWNER",
                                          !.google = IF google THEN job[r].email ELSE NoEmail]]
       /\ Gives(job[r].email, u, r)
       /\ Become(r, [job[r] EXCEPT !.at = "branch", !.who = u, !.firm = c])
  /\ UNCHANGED <<branches, members, carried, asked, shared, others>>
\* The same, without a password.
RegisterTenantWithGoogle(r) == CreateTenant(r, TRUE)
CreateBranch(r) ==
  /\ job[r].at = "branch" /\ branches' = branches \cup {job[r].firm}
  /\ carried' = carried \cup {<<job[r].who, "OWNER">>} /\ Become(r, Idle)
  /\ UNCHANGED <<users, members, asked, doubled, shared, others>>

\* The super admin makes a client's company.
CreateClient(r, e) ==
  /\ ~emailTaken(e, Nobody)
  /\ Start(r, [Idle EXCEPT !.at = "client", !.email = e, !.clear = ~Taken(e, Nobody)])
  /\ UNCHANGED <<users, branches, members, carried, doubled, shared, others>>
ClientCreated(r) ==
  /\ job[r].at = "client"
  /\ \E u \in Spare, c \in Firms :
       /\ Unmade(c)
       /\ users' = [users EXCEPT ![u] = [NoUser EXCEPT !.firm = c, !.email = job[r].email, !.role = "OWNER"]]
       /\ Gives(job[r].email, u, r)
  /\ Become(r, Idle) /\ UNCHANGED <<branches, members, carried, asked, shared, others>>

\* Another company of the same owner, paid or free: a user of its own, with
\* his email, that nobody logs in with.
CreateLinkedCompany(r, u) ==
  /\ There(u) /\ Start(r, [Idle EXCEPT !.at = "linked", !.who = u, !.email = users[u].email])
  /\ UNCHANGED <<users, branches, members, carried, doubled, shared, others>>
LinkedCreated(r) ==
  /\ job[r].at = "linked"
  /\ \E u \in Spare, c \in Firms :
       /\ Unmade(c)
       /\ users' = [users EXCEPT ![u] = [NoUser EXCEPT !.firm = c, !.email = job[r].email, !.role = "OWNER",
                                          !.home = FALSE]]
       /\ Become(r, [job[r] EXCEPT !.at = "membership", !.target = u, !.firm = c])
  /\ UNCHANGED <<branches, members, carried, asked, doubled, shared, others>>
CreateMembership(r) ==
  /\ job[r].at = "membership" /\ branches' = branches \cup {job[r].firm}
  /\ members' = members \cup {Owns(job[r].who, job[r].firm, job[r].target)} /\ Become(r, Idle)
  /\ UNCHANGED <<users, carried, asked, doubled, shared, others>>

\* The process stops between two writes.
Crash(r) ==
  /\ job[r].at \in {"branch", "membership"} /\ Become(r, Idle)
  /\ UNCHANGED <<users, branches, members, carried, asked, doubled, shared, others>>

-----------------------------------------------------------------------------
(* Users.                                                                  *)

\* A colleague: only the company's own emails are looked at.
Invite(c, e, role) ==
  /\ asked < MaxRequests /\ asked' = asked + 1 /\ In(c) # {} /\ In(c) \cap Named(e) = {} /\ role # "OWNER"
  /\ \E u \in Spare : users' = [users EXCEPT ![u] = [NoUser EXCEPT !.firm = c, !.email = e, !.role = role]]
  /\ doubled' = IF Taken(e, Nobody) THEN doubled \cup {e} ELSE doubled
  /\ UNCHANGED <<branches, members, carried, job, shared, others>>

\* The agency's employee: no account may have this email.
CreateAgencyStaff(r, e) ==
  /\ Named(e) = {} /\ Start(r, [Idle EXCEPT !.at = "staff", !.email = e])
  /\ UNCHANGED <<users, branches, members, carried, doubled, shared, others>>
StaffCreated(r) ==
  /\ job[r].at = "staff"
  /\ IF In(Agency) \cap Named(job[r].email) # {} THEN UNCHANGED <<users, doubled>>
     ELSE \E u \in Spare :
       /\ users' = [users EXCEPT ![u] = [NoUser EXCEPT !.firm = Agency, !.email = job[r].email, !.agency = TRUE]]
       /\ Gives(job[r].email, u, r)
  /\ Become(r, Idle) /\ UNCHANGED <<branches, members, carried, asked, shared, others>>

Unlinked(g) == NoEmail
StaysLinked(g) == g   \* mutant: the Google account stays
AfterRename(g) == Unlinked(g)
Rename(u, e) == users' = [users EXCEPT ![u].email = e, ![u].google = AfterRename(@)]
\* From the account page, or by the super admin for a company's owner.
ChangeEmail(r, u, e) ==
  /\ There(u) /\ users[u].email # e /\ ~emailTaken(e, u)
  /\ Start(r, [Idle EXCEPT !.at = "rename", !.who = u, !.email = e, !.clear = ~Taken(e, u)])
  /\ UNCHANGED <<users, branches, members, carried, doubled, shared, others>>
EmailChanged(r) ==
  LET u == job[r].who  e == job[r].email IN
  /\ job[r].at = "rename"
  /\ IF (In(users[u].firm) \cap Named(e)) \ {u} # {} THEN UNCHANGED <<users, doubled>>
     ELSE Rename(u, e) /\ (IF users[u].home THEN Gives(e, u, r) ELSE UNCHANGED doubled)
  /\ Become(r, Idle) /\ UNCHANGED <<branches, members, carried, asked, shared, others>>

\* Google's account of email e: the user linked to it, or the one to link.
LoginWithGoogle(r, e) ==
  LET linked == {u \in Users : users[u].google = e} IN
  /\ IF linked # {}
     THEN /\ \E u \in linked : carried' = carried \cup {<<u, users[u].role>>}
          /\ asked < MaxRequests /\ asked' = asked + 1 /\ UNCHANGED job
     ELSE /\ \E u \in HomeOf(e) : Start(r, [Idle EXCEPT !.at = "google", !.who = u, !.email = e])
          /\ UNCHANGED carried
  /\ UNCHANGED <<users, branches, members, doubled, shared, others>>
LinkGoogle(r) ==
  LET u == job[r].who IN
  /\ job[r].at = "google"
  /\ IF \E v \in Users \ {u} : users[v].google = job[r].email THEN UNCHANGED <<users, carried, relinked>>
     ELSE /\ users' = [users EXCEPT ![u].google = job[r].email]
          /\ carried' = carried \cup {<<u, users[u].role>>}
          /\ relinked' = IF users[u].email # job[r].email THEN relinked \cup {u} ELSE relinked
  /\ Become(r, Idle) /\ UNCHANGED <<branches, members, assigned, asked, doubled, shared>>

-----------------------------------------------------------------------------
(* Handing over a company.                                                 *)

\* u is the owner the request names, e the address of the next one.
Handover(r, u, c, e) ==
  LET inCompany == In(c) \cap Named(e) IN
  /\ u \notin inCompany /\ (inCompany = {} => ~emailTaken(e, Nobody))
  /\ Start(r, [Idle EXCEPT !.at = "handover", !.who = u, !.firm = c, !.email = e,
                 !.target = IF inCompany = {} THEN Nobody ELSE CHOOSE v \in inCompany : TRUE,
                 !.clear = ~Taken(e, Nobody)])
\* The token says that he is the owner; it may be as old as 15 minutes.
TransferOwnership(r, u, e) ==
  /\ There(u) /\ <<u, "OWNER">> \in carried /\ Handover(r, u, users[u].firm, e)
  /\ shared' = IF users[u].role # "OWNER" THEN shared \cup {users[u].firm} ELSE shared
  /\ UNCHANGED <<users, branches, members, carried, doubled, others>>
\* The super admin asks the database who the owner is.
ChangeOwner(r, c, e) ==
  /\ In(c) # {}
  /\ \E u \in IF Owners(c) = {} THEN {Nobody} ELSE Owners(c) : Handover(r, u, c, e)
  /\ UNCHANGED <<users, branches, members, carried, doubled, shared, others>>

SoleOwner(c, u, v) == [x \in Users |-> IF x = u THEN [users[x] EXCEPT !.role = "ADMIN"]
                                       ELSE IF x = v THEN [users[x] EXCEPT !.role = "OWNER"]
                                       ELSE users[x]]
TwoOwners(c, u, v) == [users EXCEPT ![v].role = "OWNER"]   \* mutant: the old owner stays
WithNewOwner(c, u, v) == SoleOwner(c, u, v)
OwnershipMoves(r) ==
  LET u == job[r].who  c == job[r].firm  e == job[r].email IN
  /\ job[r].at = "handover"
  /\ IF job[r].target # Nobody THEN users' = WithNewOwner(c, u, job[r].target) /\ UNCHANGED doubled
     ELSE IF In(c) \cap Named(e) # {} THEN UNCHANGED <<users, doubled>>
     ELSE \E v \in Spare :
       /\ users' = [WithNewOwner(c, u, v) EXCEPT ![v] = [NoUser EXCEPT !.firm = c, !.email = e, !.role = "OWNER"]]
       /\ Gives(e, v, r)
  /\ shared' = IF Owners(c) \ {u} # {} THEN shared \cup {c} ELSE shared
  /\ Become(r, Idle) /\ UNCHANGED <<branches, members, carried, asked, others>>

-----------------------------------------------------------------------------
(* Tokens, and the agency.                                                 *)

Login(u) ==
  /\ There(u) /\ users[u].home /\ <<u, users[u].role>> \notin carried
  /\ carried' = carried \cup {<<u, users[u].role>>}
  /\ UNCHANGED <<users, branches, members, job, asked, doubled, shared, others>>
\* To another of his companies: as the member user, with that user's role.
Switch(u, m) ==
  /\ m \in members /\ m[1] = u /\ \E role \in Roles : <<u, role>> \in carried
  /\ carried' = carried \cup {<<m[3], users[m[3]].role>>}
  /\ UNCHANGED <<users, branches, members, job, asked, doubled, shared, others>>
\* The super admin looks into a company as its owner, or as any user of a
\* company that has none.
Impersonate(c) ==
  /\ In(c) # {}
  /\ \E v \in IF \E o \in In(c) : users[o].role = "OWNER" THEN {o \in In(c) : users[o].role = "OWNER"} ELSE In(c) :
       carried' = carried \cup {<<v, users[v].role>>}
  /\ UNCHANGED <<users, branches, members, job, asked, doubled, shared, others>>
\* So does an employee of the agency, if the company is assigned to him.
Manage(u, c) == There(u) /\ users[u].agency /\ <<u, c>> \in assigned /\ Impersonate(c)
Assign(u, c) ==
  /\ There(u) /\ users[u].agency /\ In(c) # {} /\ assigned' = assigned \cup {Assigned(u, c)}
  /\ UNCHANGED <<users, branches, members, carried, job, asked, doubled, shared, relinked>>
Unassign(u, c) ==
  /\ Assigned(u, c) \in assigned /\ assigned' = assigned \ {Assigned(u, c)}
  /\ UNCHANGED <<users, branches, members, carried, job, asked, doubled, shared, relinked>>
AccessExpires(t) ==
  /\ t \in carried /\ carried' = carried \ {t}
  /\ UNCHANGED <<users, branches, members, job, asked, doubled, shared, others>>
AddBranch(c) ==
  /\ In(c) # {} /\ c \notin branches /\ branches' = branches \cup {c}
  /\ UNCHANGED <<users, members, carried, job, asked, doubled, shared, others>>

Next ==
  \/ \E r \in Requests :
       \/ \E e \in Emails : RegisterTenant(r, e) \/ CreateClient(r, e) \/ CreateAgencyStaff(r, e)
                            \/ LoginWithGoogle(r, e)
       \/ \E e \in Emails, u \in Users : ChangeEmail(r, u, e) \/ TransferOwnership(r, u, e)
       \/ \E e \in Emails, c \in Firms : ChangeOwner(r, c, e)
       \/ \E u \in Users : CreateLinkedCompany(r, u)
       \/ CreateTenant(r, FALSE) \/ RegisterTenantWithGoogle(r) \/ CreateBranch(r) \/ ClientCreated(r) \/ LinkedCreated(r) \/ CreateMembership(r) \/ Crash(r)
       \/ StaffCreated(r) \/ EmailChanged(r) \/ LinkGoogle(r) \/ OwnershipMoves(r)
  \/ \E c \in Firms, e \in Emails, role \in Roles : Invite(c, e, role)
  \/ \E u \in Users : Login(u) \/ (\E m \in members : Switch(u, m))
  \/ \E c \in Firms : Impersonate(c) \/ AddBranch(c)
  \/ \E u \in Users, c \in Firms : Assign(u, c) \/ Unassign(u, c) \/ Manage(u, c)
  \/ \E t \in carried : AccessExpires(t)

Spec == Init /\ [][Next]_vars

-----------------------------------------------------------------------------
AllFirms == Firms \cup {Agency, NoFirm}
AllEmails == Emails \cup {NoEmail}
User == [firm: AllFirms, email: AllEmails, role: Roles, home: BOOLEAN, agency: BOOLEAN, google: AllEmails]
Places == {"idle", "register", "branch", "client", "linked", "membership", "staff", "rename", "google", "handover"}
Job == [at: Places, who: Users \cup {Nobody}, firm: AllFirms, email: AllEmails,
        target: Users \cup {Nobody}, clear: BOOLEAN]
\* The tables and requests hold what they are declared to hold.
TypeOK ==
  /\ users \in [Users -> User] /\ job \in [Requests -> Job] /\ asked \in Nat
  /\ branches \subseteq AllFirms /\ members \subseteq Users \X AllFirms \X Users
  /\ assigned \subseteq Users \X AllFirms /\ carried \subseteq Users \X Roles
  /\ doubled \subseteq AllEmails /\ shared \subseteq AllFirms /\ relinked \subseteq Users

\* What request j has found out when it comes to write: an email it will give
\* was free, and the colleague it will make the owner belongs to the company.
Informed(j) ==
  /\ j.at \in {"branch", "linked", "membership", "rename", "google"} => j.who \in Users
  /\ j.at = "membership" => j.target \in Users
  /\ j.at \in {"register", "client", "staff", "rename"} => j.clear
  /\ j.at = "handover" => IF j.target = Nobody THEN j.clear
                          ELSE j.target \in Users /\ users[j.target].firm = j.firm /\ j.firm # NoFirm

-----------------------------------------------------------------------------
\* An email leads to one account that logs in: only an invitation, which asks
\* nobody outside its company, and requests that overlap give it a second.
EmailReachesOne == \A e \in Emails \ doubled : \A u, v \in HomeOf(e) : u = v

\* A Google account opens only the account that has its email: renaming the
\* account unlinks it, unless a first login by Google was under way.
GoogleFollowsEmail ==
  \A u \in Users \ relinked : users[u].google # NoEmail => users[u].google = users[u].email

\* Both: an email finds its user, typed or told by Google.
EmailsFindTheirUser == EmailReachesOne /\ GoogleFollowsEmail

\* A company has one owner, whoever hands it over and in whatever order: only
\* a former owner's token, or two handovers at once, leave it two.
OneOwner == \A c \in Firms \ shared : \A u, v \in Owners(c) : u = v

\* Inductive: no step breaks the three as long as the requests are informed.
CompaniesInv == TypeOK /\ (\A r \in Requests : Informed(job[r])) /\ EmailsFindTheirUser /\ OneOwner
=============================================================================
